----------------------- MODULE PaymentRemindersProofs -----------------------
(***************************************************************************)
(* Theorems about PaymentReminders, for every finite set of batches and    *)
(* any number of requests, attempts and failures.                          *)
(***************************************************************************)
EXTENDS PaymentReminders, FiniteSetTheorems, TLAPS

\* What the ledger and the requests know of one batch.
BatchInv(b) ==
    /\ \A q, r \in Requests : Holds(q, b) /\ Holds(r, b) => q = r
    /\ \A r \in Requests :
         /\ Holds(r, b) => \/ batch[b] = "sending"
                           \/ work[r][b] = "refused" /\ batch[b] = "accepted"
         /\ work[r][b] \in {"mail", "graph_rejected"} /\ b \notin unrecorded
              => mailed[b] = 0
         /\ work[r][b] = "refused" => b \in unrecorded
         /\ work[r][b] \in {"accepted", "graph_accepted", "refused"} => mailed[b] > 0
    /\ batch[b] \in {"absent", "failed"} /\ b \notin unrecorded => mailed[b] = 0
    /\ batch[b] = "accepted" => mailed[b] > 0
    /\ b \notin unrecorded => mailed[b] <= 1

AllMailed == \A b \in Batches : mailed[b] > 0

\* What the operation's row and the timeline say of all batches.
TotalsInv ==
    /\ operation.accepted >= Cardinality(Batches) => AllMailed
    /\ operation.status = "completed" => AllMailed
    /\ \A b \in timeline : mailed[b] > 0

IInv == TypeOK /\ (\A b \in Batches : BatchInv(b)) /\ TotalsInv

-----------------------------------------------------------------------------
(* Facts about the operators *)

\* The batches with a result are counted by a number of the operation's row,
\* and they are all batches when there are as many.
LEMMA Counted ==
    ASSUME NEW S \in SUBSET Batches
    PROVE  /\ Cardinality(Batches) \in Nat
           /\ Cardinality(S) \in 0..Cardinality(Batches)
           /\ Cardinality(S) >= Cardinality(Batches) => S = Batches
<1>1. IsFiniteSet(Batches)
  BY ReminderConstants
<1>2. /\ IsFiniteSet(S) /\ Cardinality(S) <= Cardinality(Batches)
      /\ Cardinality(S) = Cardinality(Batches) => S = Batches
  BY <1>1, FS_Subset
<1>3. Cardinality(Batches) \in Nat /\ Cardinality(S) \in Nat
  BY <1>1, <1>2, FS_CardinalityType
<1> QED
  BY <1>2, <1>3

\* The outcomes of a request are a row of the ledger.
LEMMA OutcomeType ==
    ASSUME NEW r \in Requests, TypeOK
    PROVE  /\ DeliveryStatus(r) \in OperationStatuses \ {"completed"}
           /\ Outcomes(r) \in [status: OperationStatuses \ {"completed"},
                               accepted: 0..Cardinality(Batches), recorded: BOOLEAN]
           /\ Final(r) \in [status: OperationStatuses,
                            accepted: 0..Cardinality(Batches), recorded: BOOLEAN]
<1>1. DeliveryStatus(r) \in OperationStatuses \ {"completed"}
  BY DEF DeliveryStatus, OperationStatuses
<1>2. Cardinality(With(r, "accepted")) \in 0..Cardinality(Batches)
  BY Counted DEF With
<1>3. request[r].warning \in BOOLEAN
  BY DEF TypeOK
<1>4. Outcomes(r) \in [status: OperationStatuses \ {"completed"},
                       accepted: 0..Cardinality(Batches), recorded: BOOLEAN]
  BY <1>1, <1>2 DEF Outcomes
<1>5. Final(r) \in [status: OperationStatuses,
                    accepted: 0..Cardinality(Batches), recorded: BOOLEAN]
  <2>1. (IF With(r, "accepted") = Batches /\ ~request[r].warning
         THEN "completed" ELSE DeliveryStatus(r)) \in OperationStatuses
    BY <1>1 DEF OperationStatuses
  <2> QED
    BY <1>2, <1>3, <2>1 DEF Final
<1> QED
  BY <1>1, <1>4, <1>5

\* A row that counts the batches a request knows to be accepted is honest.
LEMMA HonestCount ==
    ASSUME NEW r \in Requests, IInv,
           Cardinality(With(r, "accepted")) >= Cardinality(Batches)
    PROVE  AllMailed
<1>1. With(r, "accepted") = Batches
  BY Counted DEF With
<1> QED
  BY <1>1 DEF With, IInv, BatchInv, AllMailed

-----------------------------------------------------------------------------
(* Frames *)

\* Requests that gain no hold on a batch leave what is known of it alone.
LEMMA BatchFrame ==
    ASSUME NEW b \in Batches, BatchInv(b), batch'[b] = batch[b],
           mailed'[b] = mailed[b], b \in unrecorded' <=> b \in unrecorded,
           \A r \in Requests : \/ work'[r][b] = work[r][b]
                               \/ work'[r][b] \in {"waiting", "reserve", "failed",
                                                   "uncertain"}
    PROVE  BatchInv(b)'
BY DEF BatchInv, Holds, Working

\* Mails are never taken back.
LEMMA TotalsFrame ==
    ASSUME TotalsInv, TypeOK, mailed' \in [Batches -> Nat], timeline' = timeline,
           \A b \in Batches : mailed'[b] >= mailed[b],
           operation'.accepted = operation.accepted,
           operation'.status = "completed" => operation.status = "completed"
    PROVE  TotalsInv'
BY DEF TotalsInv, TypeOK, AllMailed

\* A step that changes no batch and lets requests at most drop their work.
LEMMA RequestStep ==
    ASSUME IInv, TypeOK', TotalsInv', UNCHANGED <<batch, mailed, unrecorded>>,
           \A r \in Requests, b \in Batches :
             work'[r][b] = work[r][b] \/ work'[r][b] \in {"waiting", "reserve"}
    PROVE  IInv'
<1>1. ASSUME NEW b \in Batches PROVE BatchInv(b)'
  BY <1>1, BatchFrame DEF IInv
<1> QED
  BY <1>1 DEF IInv

\* A step of one request with one batch.
LEMMA WorkStep ==
    ASSUME IInv, TypeOK', TotalsInv', NEW r \in Requests, NEW b \in Batches,
           NEW s, Step(r, b, s), BatchInv(b)',
           \A c \in Batches \ {b} : /\ batch'[c] = batch[c] /\ mailed'[c] = mailed[c]
                                    /\ c \in unrecorded' <=> c \in unrecorded
    PROVE  IInv'
<1>1. ASSUME NEW c \in Batches, c # b PROVE BatchInv(c)'
  <2>1. \A q \in Requests : work'[q][c] = work[q][c]
    BY <1>1 DEF Step, IInv, TypeOK
  <2> QED
    BY <1>1, <2>1, BatchFrame DEF IInv
<1> QED
  BY <1>1 DEF IInv

\* The work of a request after a step of it.
LEMMA WorkType ==
    ASSUME TypeOK, NEW r \in Requests, NEW b \in Batches,
           NEW s \in Working \cup Results \cup {"waiting"}, Step(r, b, s)
    PROVE  /\ work' \in [Requests -> [Batches -> Working \cup Results \cup {"waiting"}]]
           /\ work'[r][b] = s
           /\ \A q \in Requests \ {r} : work'[q][b] = work[q][b]
BY DEF TypeOK, Step

\* A request that ends.
LEMMA LeaveType ==
    ASSUME TypeOK, NEW r \in Requests, Leave(r)
    PROVE  /\ work' \in [Requests -> [Batches -> Working \cup Results \cup {"waiting"}]]
           /\ request' \in [Requests -> [at: {"idle", "reserve", "batches", "timeline",
                                              "final"}, warning: BOOLEAN]]
           /\ \A q \in Requests, b \in Batches :
                work'[q][b] = work[q][b] \/ work'[q][b] = "waiting"
BY DEF TypeOK, Leave, Idle, NoWork

LEMMA GotoType ==
    ASSUME TypeOK, NEW r \in Requests,
           NEW s \in {"idle", "reserve", "batches", "timeline", "final"}, Goto(r, s)
    PROVE  request' \in [Requests -> [at: {"idle", "reserve", "batches", "timeline",
                                           "final"}, warning: BOOLEAN]]
BY DEF TypeOK, Goto

LEMMA FaultType ==
    ASSUME TypeOK, Fault
    PROVE  attempts' \in 0..MaxAttempts /\ faults' \in 0..MaxFaults
BY ReminderConstants DEF TypeOK, Fault

-----------------------------------------------------------------------------
(* The reservation of the operation *)

LEMMA SubmitStep ==
    ASSUME IInv, NEW r \in Requests, Submit(r) PROVE IInv'
<1>1. request' \in [Requests -> [at: {"idle", "reserve", "batches", "timeline", "final"},
                                 warning: BOOLEAN]]
  BY GotoType DEF Submit, IInv
<1>2. attempts' \in 0..MaxAttempts
  BY ReminderConstants DEF Submit, IInv, TypeOK
<1>3. TypeOK'
  BY <1>1, <1>2 DEF IInv, Submit, TypeOK, history
<1>4. TotalsInv'
  BY TotalsFrame DEF IInv, Submit, history, TypeOK
<1> QED
  BY <1>3, <1>4, RequestStep DEF Submit, history

LEMMA ReserveOperationStep ==
    ASSUME IInv, NEW r \in Requests, ReserveOperation(r) PROVE IInv'
<1>1. operation' = operation \/ operation' = [operation EXCEPT !.status = "validating"]
  BY DEF ReserveOperation
<1>2. request' \in [Requests -> [at: {"idle", "reserve", "batches", "timeline", "final"},
                                 warning: BOOLEAN]]
  <2>1. CASE Goto(r, "batches")
    BY <2>1, GotoType DEF IInv
  <2>2. CASE request' = [request EXCEPT ![r] = Idle]
    BY <2>2 DEF IInv, TypeOK, Idle
  <2> QED
    BY <2>1, <2>2 DEF ReserveOperation
<1>3. TypeOK'
  BY <1>1, <1>2 DEF IInv, ReserveOperation, TypeOK, history, tally, OperationStatuses
<1>4. TotalsInv'
  BY <1>1, TotalsFrame DEF IInv, ReserveOperation, history, TypeOK
<1> QED
  BY <1>3, <1>4, RequestStep DEF ReserveOperation, history

LEMMA ReserveOperationFailsStep ==
    ASSUME IInv, NEW r \in Requests, ReserveOperationFails(r) PROVE IInv'
<1>1. request' \in [Requests -> [at: {"idle", "reserve", "batches", "timeline", "final"},
                                 warning: BOOLEAN]]
  BY DEF ReserveOperationFails, IInv, TypeOK, Idle
<1>2. TypeOK'
  BY <1>1, FaultType
     DEF IInv, ReserveOperationFails, TypeOK, history, OperationStatuses
<1>3. TotalsInv'
  BY TotalsFrame DEF IInv, ReserveOperationFails, history, TypeOK
<1> QED
  BY <1>2, <1>3, RequestStep DEF ReserveOperationFails, history

-----------------------------------------------------------------------------
(* The batches *)

LEMMA TakeBatchStep ==
    ASSUME IInv, NEW r \in Requests, NEW b \in Batches, TakeBatch(r, b) PROVE IInv'
<1>1. /\ work' \in [Requests -> [Batches -> Working \cup Results \cup {"waiting"}]]
      /\ \A q \in Requests, c \in Batches :
           work'[q][c] = work[q][c] \/ work'[q][c] = "reserve"
  BY DEF TakeBatch, IInv, TypeOK, Step, Working
<1>2. TypeOK'
  BY <1>1 DEF IInv, TakeBatch, TypeOK, history, tally
<1>3. TotalsInv'
  BY TotalsFrame DEF IInv, TakeBatch, history, TypeOK
<1> QED
  BY <1>1, <1>2, <1>3, RequestStep DEF TakeBatch, history

\* The ledger gives a batch to a request only when nobody holds it and no
\* recorded acceptance speaks against it.
LEMMA ReservedBatch ==
    ASSUME IInv, NEW r \in Requests, NEW b \in Batches, MayMail(b), Reserved(b),
           Step(r, b, "mail") \/ Step(r, b, "failed"),
           UNCHANGED <<timeline, request, history>>,
           attempts' \in 0..MaxAttempts /\ faults' \in 0..MaxFaults
    PROVE  IInv'
<1>1. /\ batch' \in [Batches -> BatchStatuses] /\ batch'[b] = "sending"
      /\ \A c \in Batches \ {b} : batch'[c] = batch[c]
  BY DEF Reserved, IInv, TypeOK, BatchStatuses
<1>2. PICK s \in {"mail", "failed"} : Step(r, b, s)
  OBVIOUS
<1>3. s \in Working \cup Results \cup {"waiting"}
  BY DEF Working, Results
<1>4. /\ work' \in [Requests -> [Batches -> Working \cup Results \cup {"waiting"}]]
      /\ work'[r][b] = s /\ \A q \in Requests \ {r} : work'[q][b] = work[q][b]
  BY <1>2, <1>3, WorkType DEF IInv
<1>5. TypeOK'
  BY <1>1, <1>4 DEF IInv, TypeOK, Reserved, history, OperationStatuses
<1>6. TotalsInv'
  BY TotalsFrame DEF IInv, Reserved, history, TypeOK
<1>7. \A q \in Requests : ~Holds(q, b)
  BY DEF IInv, BatchInv, MayMail
<1>8. \A q \in Requests : Holds(q, b)' => q = r
  BY <1>4, <1>7 DEF Holds
<1>9. b \notin unrecorded => mailed[b] = 0
  BY DEF IInv, BatchInv, MayMail
<1>10. mailed' = mailed /\ unrecorded' = unrecorded
  BY DEF history
<1>11. BatchInv(b)'
  <2>1. ASSUME NEW q \in Requests
        PROVE  /\ work'[q][b] \in {"mail", "graph_rejected"} /\ b \notin unrecorded'
                    => mailed'[b] = 0
               /\ work'[q][b] = "refused" => b \in unrecorded'
               /\ work'[q][b] \in {"accepted", "graph_accepted", "refused"}
                    => mailed'[b] > 0
    BY <1>4, <1>9, <1>10 DEF IInv, BatchInv
  <2>2. b \notin unrecorded' => mailed'[b] <= 1
    BY <1>9, <1>10
  <2> QED
    BY <1>1, <1>8, <2>1, <2>2 DEF BatchInv
<1> QED
  BY <1>1, <1>2, <1>5, <1>6, <1>10, <1>11, WorkStep

\* A batch that is not given away.
LEMMA RefusedBatch ==
    ASSUME IInv, NEW r \in Requests, NEW b \in Batches,
           NEW s \in {"failed", "uncertain", "accepted"}, Step(r, b, s),
           s = "accepted" => batch[b] = "accepted",
           UNCHANGED <<operation, batch, timeline, request, history>>,
           attempts' \in 0..MaxAttempts /\ faults' \in 0..MaxFaults
    PROVE  IInv'
<1>1. /\ work' \in [Requests -> [Batches -> Working \cup Results \cup {"waiting"}]]
      /\ work'[r][b] = s /\ \A q \in Requests \ {r} : work'[q][b] = work[q][b]
  BY WorkType DEF IInv, Results
<1>2. TypeOK'
  BY <1>1 DEF IInv, TypeOK, history
<1>3. TotalsInv'
  BY TotalsFrame DEF IInv, history, TypeOK
<1>4. BatchInv(b)'
  BY <1>1 DEF IInv, BatchInv, Holds, Working, history
<1> QED
  BY <1>2, <1>3, <1>4, WorkStep DEF history

LEMMA ReserveBatchStep ==
    ASSUME IInv, NEW r \in Requests, NEW b \in Batches, ReserveBatch(r, b) PROVE IInv'
<1>1. CASE MayMail(b)
  BY <1>1, ReservedBatch
     DEF ReserveBatch, Answer, tally, IInv, TypeOK
<1>2. CASE ~MayMail(b)
  <2>1. Answer(b) \in {"uncertain", "accepted"}
        /\ (Answer(b) = "accepted" => batch[b] = "accepted")
    BY <1>2 DEF Answer
  <2> QED
    BY <1>2, <2>1, RefusedBatch DEF ReserveBatch, tally, IInv, TypeOK
<1> QED
  BY <1>1, <1>2

LEMMA ReserveBatchFailsStep ==
    ASSUME IInv, NEW r \in Requests, NEW b \in Batches, ReserveBatchFails(r, b)
    PROVE  IInv'
<1>1. attempts' \in 0..MaxAttempts /\ faults' \in 0..MaxFaults
  BY FaultType DEF IInv, ReserveBatchFails
<1>2. CASE MayMail(b) /\ Reserved(b)
  BY <1>1, <1>2, ReservedBatch DEF ReserveBatchFails
<1>3. CASE UNCHANGED <<operation, batch>>
  BY <1>1, <1>3, RefusedBatch DEF ReserveBatchFails
<1> QED
  BY <1>2, <1>3 DEF ReserveBatchFails

LEMMA MailStep ==
    ASSUME IInv, NEW r \in Requests, NEW b \in Batches, Mail(r, b) PROVE IInv'
<1>1. PICK n, s :
        /\ n \in Nat /\ n <= 1
        /\ s \in {"graph_uncertain", "graph_accepted", "graph_rejected"}
        /\ mailed' = [mailed EXCEPT ![b] = mailed[b] + n]
        /\ s = "graph_accepted" => n = 1
        /\ s = "graph_rejected" => n = 0
        /\ Step(r, b, s)
  <2>1. PICK taken \in BOOLEAN :
          /\ mailed' = [mailed EXCEPT ![b] = IF taken THEN @ + 1 ELSE @]
          /\ \/ Step(r, b, "graph_uncertain")
             \/ Step(r, b, IF taken THEN "graph_accepted" ELSE "graph_rejected")
    BY DEF Mail
  <2>2. mailed[b] \in Nat
    BY DEF IInv, TypeOK
  <2>3. CASE taken = TRUE
    <3>1. mailed' = [mailed EXCEPT ![b] = mailed[b] + 1]
      BY <2>1, <2>3, Zenon
    <3>2. Step(r, b, "graph_uncertain") \/ Step(r, b, "graph_accepted")
      BY <2>1, <2>3, Zenon
    <3>3. CASE Step(r, b, "graph_uncertain")
      <4> WITNESS 1, "graph_uncertain"
      <4> QED
        BY <3>1, <3>3
    <3>4. CASE Step(r, b, "graph_accepted")
      <4> WITNESS 1, "graph_accepted"
      <4> QED
        BY <3>1, <3>4
    <3> QED
      BY <3>2, <3>3, <3>4
  <2>4. CASE taken = FALSE
    <3>1. mailed' = [mailed EXCEPT ![b] = mailed[b]]
      BY <2>1, <2>4, Zenon
    <3>2. Step(r, b, "graph_uncertain") \/ Step(r, b, "graph_rejected")
      BY <2>1, <2>4, Zenon
    <3>3. mailed' = [mailed EXCEPT ![b] = mailed[b] + 0]
      <4>1. mailed[b] + 0 = mailed[b]
        BY <2>2
      <4> QED
        BY <3>1, <4>1, Zenon
    <3>4. CASE Step(r, b, "graph_uncertain")
      <4> WITNESS 0, "graph_uncertain"
      <4> QED
        BY <3>3, <3>4
    <3>5. CASE Step(r, b, "graph_rejected")
      <4> WITNESS 0, "graph_rejected"
      <4> QED
        BY <3>3, <3>5
    <3> QED
      BY <3>2, <3>4, <3>5
  <2> QED
    BY <2>3, <2>4
<1>2. /\ mailed' \in [Batches -> Nat]
      /\ mailed'[b] = mailed[b] + n
      /\ \A c \in Batches \ {b} : mailed'[c] = mailed[c]
      /\ \A c \in Batches : mailed'[c] >= mailed[c]
  <2>1. mailed \in [Batches -> Nat]
    BY DEF IInv, TypeOK
  <2>2. mailed[b] + n \in Nat
    BY <1>1, <2>1
  <2>3. /\ mailed' \in [Batches -> Nat] /\ mailed'[b] = mailed[b] + n
        /\ \A c \in Batches \ {b} : mailed'[c] = mailed[c]
    BY <1>1, <2>1, <2>2
  <2>4. ASSUME NEW c \in Batches PROVE mailed'[c] >= mailed[c]
    BY <1>1, <2>1, <2>3
  <2> QED
    BY <2>3, <2>4
<1>3. /\ work' \in [Requests -> [Batches -> Working \cup Results \cup {"waiting"}]]
      /\ work'[r][b] = s /\ \A q \in Requests \ {r} : work'[q][b] = work[q][b]
  BY <1>1, WorkType DEF IInv, Working
<1>4. TypeOK'
  BY <1>2, <1>3 DEF Mail, IInv, TypeOK, tally
<1>5. TotalsInv'
  BY <1>2, TotalsFrame DEF IInv, Mail
<1>6. /\ batch[b] = "sending" /\ (b \notin unrecorded => mailed[b] = 0)
      /\ \A q \in Requests : Holds(q, b) => q = r
  BY DEF Mail, IInv, BatchInv, Holds, Working
<1>7. BatchInv(b)'
  <2>1. mailed[b] \in Nat /\ batch' = batch /\ unrecorded' = unrecorded
    BY DEF Mail, IInv, TypeOK
  <2>2. \A q \in Requests : Holds(q, b)' => q = r
    BY <1>3, <1>6 DEF Holds
  <2>3. ASSUME NEW q \in Requests
        PROVE  /\ work'[q][b] \in {"mail", "graph_rejected"} /\ b \notin unrecorded'
                    => mailed'[b] = 0
               /\ work'[q][b] = "refused" => b \in unrecorded'
               /\ work'[q][b] \in {"accepted", "graph_accepted", "refused"}
                    => mailed'[b] > 0
    <3>1. CASE q = r
      BY <1>1, <1>2, <1>3, <1>6, <2>1, <3>1
    <3>2. CASE q # r
      <4>1. work'[q][b] = work[q][b] /\ ~Holds(q, b)
        BY <1>3, <1>6, <3>2
      <4>2. work'[q][b] \notin {"mail", "graph_rejected", "graph_accepted", "refused"}
        BY <4>1 DEF Holds, Working
      <4>3. work'[q][b] = "accepted" => mailed[b] > 0
        BY <4>1 DEF IInv, BatchInv
      <4> QED
        BY <1>1, <1>2, <2>1, <4>2, <4>3
    <3> QED
      BY <3>1, <3>2
  <2>4. b \notin unrecorded' => mailed'[b] <= 1
    BY <1>1, <1>2, <1>6, <2>1
  <2> QED
    BY <1>6, <2>1, <2>2, <2>3, <2>4 DEF BatchInv
<1> QED
  BY <1>1, <1>2, <1>4, <1>5, <1>7, WorkStep DEF Mail

\* An outcome is written, or perhaps not, and the request goes on.
LEMMA OutcomeStep ==
    ASSUME IInv, NEW r \in Requests, NEW b \in Batches,
           NEW s \in Working \cup Results \cup {"waiting"}, Step(r, b, s),
           NEW o \in BatchStatuses,
           batch' = batch \/ batch' = [batch EXCEPT ![b] = o],
           unrecorded' \in SUBSET Batches,
           \A c \in Batches \ {b} : c \in unrecorded' <=> c \in unrecorded,
           BatchInv(b)',
           UNCHANGED <<operation, timeline, request, mailed, warned>>,
           attempts' \in 0..MaxAttempts /\ faults' \in 0..MaxFaults
    PROVE  IInv'
<1>1. work' \in [Requests -> [Batches -> Working \cup Results \cup {"waiting"}]]
  BY WorkType DEF IInv
<1>2. /\ batch' \in [Batches -> BatchStatuses]
      /\ \A c \in Batches \ {b} : batch'[c] = batch[c]
  BY DEF IInv, TypeOK
<1>3. TypeOK'
  BY <1>1, <1>2 DEF IInv, TypeOK
<1>4. TotalsInv'
  BY TotalsFrame DEF IInv, TypeOK
<1> QED
  BY <1>2, <1>3, <1>4, WorkStep

LEMMA CompleteAcceptedStep ==
    ASSUME IInv, NEW r \in Requests, NEW b \in Batches, CompleteAccepted(r, b)
    PROVE  IInv'
<1>1. "accepted" \in BatchStatuses /\ "accepted" \in Working \cup Results \cup {"waiting"}
  BY DEF BatchStatuses, Results
<1>2. work'[r][b] = "accepted" /\ \A q \in Requests \ {r} : work'[q][b] = work[q][b]
  BY <1>1, WorkType DEF IInv, CompleteAccepted
<1>3. batch'[b] = "accepted"
  BY DEF IInv, TypeOK, CompleteAccepted
<1>4. \A q \in Requests : Holds(q, b) => q = r
  BY DEF CompleteAccepted, IInv, BatchInv, Holds, Working
<1>5. BatchInv(b)'
  BY <1>2, <1>3, <1>4 DEF CompleteAccepted, IInv, BatchInv, Holds, Working, history
<1> QED
  BY <1>1, <1>5, OutcomeStep
     DEF CompleteAccepted, history, tally, IInv, TypeOK

LEMMA CompleteAcceptedFailsStep ==
    ASSUME IInv, NEW r \in Requests, NEW b \in Batches, CompleteAcceptedFails(r, b)
    PROVE  IInv'
<1>1. "accepted" \in BatchStatuses /\ "refused" \in Working \cup Results \cup {"waiting"}
  BY DEF BatchStatuses, Working
<1>2. work'[r][b] = "refused" /\ \A q \in Requests \ {r} : work'[q][b] = work[q][b]
  BY <1>1, WorkType DEF IInv, CompleteAcceptedFails
<1>3. batch' = batch \/ batch' = [batch EXCEPT ![b] = "accepted"]
  BY DEF CompleteAcceptedFails, Perhaps
<1>4. batch[b] = "sending" /\ \A q \in Requests : Holds(q, b) => q = r
  BY DEF CompleteAcceptedFails, IInv, BatchInv, Holds, Working
<1>5. batch'[b] \in {"sending", "accepted"}
  BY <1>3, <1>4 DEF IInv, TypeOK
<1>6. BatchInv(b)'
  BY <1>2, <1>4, <1>5 DEF CompleteAcceptedFails, IInv, BatchInv, Holds, Working
<1>7. attempts' \in 0..MaxAttempts /\ faults' \in 0..MaxFaults
  BY FaultType DEF IInv, CompleteAcceptedFails
<1> QED
  BY <1>1, <1>3, <1>6, <1>7, OutcomeStep DEF CompleteAcceptedFails, IInv, TypeOK

\* The batch after its outcome was written: it is failed only if nothing was
\* accepted or the acceptance is among the unrecorded.
LEMMA OutcomeKept ==
    ASSUME IInv, NEW r \in Requests, NEW b \in Batches, Refused(r, b),
           batch' = batch \/ batch' = [batch EXCEPT ![b] = Outcome(r, b)],
           NEW s \in {"failed", "uncertain"}, Step(r, b, s),
           UNCHANGED <<mailed, unrecorded>>
    PROVE  BatchInv(b)'
<1>1. work'[r][b] = s /\ \A q \in Requests \ {r} : work'[q][b] = work[q][b]
  BY WorkType DEF IInv, Results
<1>2. /\ Outcome(r, b) \in {"failed", "uncertain"}
      /\ Outcome(r, b) = "failed" /\ b \notin unrecorded => mailed[b] = 0
  BY DEF IInv, BatchInv, Refused, Outcome
<1>3. batch'[b] = batch[b] \/ batch'[b] = Outcome(r, b)
  BY DEF IInv, TypeOK
<1>4. \A q \in Requests : Holds(q, b) => q = r
  BY DEF Refused, IInv, BatchInv, Holds, Working
<1> QED
  BY <1>1, <1>2, <1>3, <1>4 DEF IInv, BatchInv, Holds, Working

LEMMA CompleteOutcomeStep ==
    ASSUME IInv, NEW r \in Requests, NEW b \in Batches, CompleteOutcome(r, b)
    PROVE  IInv'
<1>1. Outcome(r, b) \in {"failed", "uncertain"}
  BY DEF Outcome
<1>2. BatchInv(b)'
  BY <1>1, OutcomeKept DEF CompleteOutcome, history
<1>3. Outcome(r, b) \in BatchStatuses /\ Outcome(r, b) \in Working \cup Results \cup {"waiting"}
  BY <1>1 DEF BatchStatuses, Results
<1> QED
  BY <1>2, <1>3, OutcomeStep DEF CompleteOutcome, history, tally, IInv, TypeOK

LEMMA CompleteOutcomeFailsStep ==
    ASSUME IInv, NEW r \in Requests, NEW b \in Batches, CompleteOutcomeFails(r, b)
    PROVE  IInv'
<1>1. batch' = batch \/ batch' = [batch EXCEPT ![b] = Outcome(r, b)]
  BY DEF CompleteOutcomeFails, Perhaps
<1>2. BatchInv(b)'
  BY <1>1, OutcomeKept DEF CompleteOutcomeFails, history
<1>3. Outcome(r, b) \in BatchStatuses /\ "uncertain" \in Working \cup Results \cup {"waiting"}
  BY DEF BatchStatuses, Results, Outcome
<1>4. attempts' \in 0..MaxAttempts /\ faults' \in 0..MaxFaults
  BY FaultType DEF IInv, CompleteOutcomeFails
<1> QED
  BY <1>1, <1>2, <1>3, <1>4, OutcomeStep DEF CompleteOutcomeFails, history, IInv, TypeOK

-----------------------------------------------------------------------------
(* The outcome of the operation and the timeline *)

\* A request records how its batches went; the counts are those it knows of.
LEMMA RecordStep ==
    ASSUME IInv, NEW r \in Requests, TypeOK', UNCHANGED <<batch, mailed, unrecorded>>,
           operation' \in {operation, Outcomes(r), Final(r)}, timeline' = timeline,
           \A q \in Requests, b \in Batches :
             work'[q][b] = work[q][b] \/ work'[q][b] = "waiting"
    PROVE  IInv'
<1>1. ASSUME operation' = operation PROVE TotalsInv'
  BY <1>1 DEF IInv, TotalsInv, AllMailed, TypeOK
<1>2. ASSUME operation' = Outcomes(r) \/ operation' = Final(r) PROVE TotalsInv'
  <2>1. operation'.accepted = Cardinality(With(r, "accepted"))
    BY <1>2 DEF Outcomes, Final
  <2>2. operation'.status = "completed" => With(r, "accepted") = Batches
    BY <1>2, OutcomeType DEF Outcomes, Final, IInv
  <2>3. With(r, "accepted") = Batches => AllMailed
    BY DEF With, IInv, BatchInv, AllMailed
  <2>4. operation'.accepted >= Cardinality(Batches) => AllMailed
    BY <2>1, HonestCount
  <2> QED
    BY <2>2, <2>3, <2>4 DEF TotalsInv, AllMailed, IInv
<1>3. TotalsInv'
  BY <1>1, <1>2
<1> QED
  BY <1>3, RequestStep

LEMMA RecordDeliveryStep ==
    ASSUME IInv, NEW r \in Requests, RecordDelivery(r) PROVE IInv'
<1>1. request' \in [Requests -> [at: {"idle", "reserve", "batches", "timeline", "final"},
                                 warning: BOOLEAN]]
  BY GotoType DEF RecordDelivery, IInv
<1>2. TypeOK'
  BY <1>1, OutcomeType DEF RecordDelivery, IInv, TypeOK, history, tally
<1> QED
  BY <1>2, RecordStep DEF RecordDelivery, history

LEMMA RecordDeliveryFailsStep ==
    ASSUME IInv, NEW r \in Requests, RecordDeliveryFails(r) PROVE IInv'
<1>1. operation' = operation \/ operation' = Outcomes(r)
  BY DEF RecordDeliveryFails, Perhaps
<1>2. TypeOK'
  BY <1>1, OutcomeType, LeaveType, FaultType
     DEF RecordDeliveryFails, IInv, TypeOK, history
<1> QED
  BY <1>1, <1>2, LeaveType, RecordStep DEF RecordDeliveryFails, history, IInv

\* The timeline of accepted batches is saved, and the operation completed
\* when its row counts all batches.
LEMMA SavedStep ==
    ASSUME IInv, NEW rows \in SUBSET Batches, Saved(rows),
           UNCHANGED <<batch, mailed>>
    PROVE  /\ operation' \in [status: OperationStatuses,
                              accepted: 0..Cardinality(Batches), recorded: BOOLEAN]
           /\ timeline' \subseteq Batches
           /\ TotalsInv'
<1>1. /\ operation'.accepted = operation.accepted
      /\ operation'.status = IF operation.accepted >= Cardinality(Batches)
                             THEN "completed" ELSE operation.status
      /\ operation' \in [status: OperationStatuses,
                         accepted: 0..Cardinality(Batches), recorded: BOOLEAN]
  BY DEF Saved, IInv, TypeOK, OperationStatuses
<1>2. timeline' \subseteq Batches /\ \A b \in timeline' : mailed[b] > 0
  BY DEF Saved, IInv, TypeOK, TotalsInv, BatchInv
<1> QED
  BY <1>1, <1>2 DEF IInv, TotalsInv, AllMailed

LEMMA SaveTimelineStep ==
    ASSUME IInv, NEW r \in Requests, SaveTimeline(r) PROVE IInv'
<1>1. request' \in [Requests -> [at: {"idle", "reserve", "batches", "timeline", "final"},
                                 warning: BOOLEAN]]
  BY GotoType DEF SaveTimeline, IInv
<1>2. /\ operation' \in [status: OperationStatuses,
                         accepted: 0..Cardinality(Batches), recorded: BOOLEAN]
      /\ timeline' \subseteq Batches /\ TotalsInv'
  BY SavedStep DEF SaveTimeline, With, history
<1>3. TypeOK'
  BY <1>1, <1>2 DEF SaveTimeline, IInv, TypeOK, history, tally
<1> QED
  BY <1>2, <1>3, RequestStep DEF SaveTimeline, history

LEMMA SaveTimelineFailsStep ==
    ASSUME IInv, NEW r \in Requests, SaveTimelineFails(r) PROVE IInv'
<1>1. request' \in [Requests -> [at: {"idle", "reserve", "batches", "timeline", "final"},
                                 warning: BOOLEAN]]
  BY DEF SaveTimelineFails, IInv, TypeOK
<1>2. /\ operation' \in [status: OperationStatuses,
                         accepted: 0..Cardinality(Batches), recorded: BOOLEAN]
      /\ timeline' \subseteq Batches /\ TotalsInv'
  <2>1. CASE Saved(With(r, "accepted"))
    BY <2>1, SavedStep DEF SaveTimelineFails, With, history
  <2>2. CASE UNCHANGED <<operation, timeline>>
    BY <2>2 DEF SaveTimelineFails, IInv, TypeOK, TotalsInv, AllMailed, history
  <2> QED
    BY <2>1, <2>2 DEF SaveTimelineFails
<1>3. TypeOK'
  BY <1>1, <1>2, FaultType DEF SaveTimelineFails, IInv, TypeOK, history
<1> QED
  BY <1>2, <1>3, RequestStep DEF SaveTimelineFails, history

LEMMA RecordFinalStep ==
    ASSUME IInv, NEW r \in Requests, RecordFinal(r) PROVE IInv'
<1>1. warned' \subseteq Batches
  BY DEF RecordFinal, With, IInv, TypeOK
<1>2. TypeOK'
  BY <1>1, OutcomeType, LeaveType DEF RecordFinal, IInv, TypeOK, tally
<1> QED
  BY <1>2, LeaveType, RecordStep DEF RecordFinal, IInv

LEMMA RecordFinalFailsStep ==
    ASSUME IInv, NEW r \in Requests, RecordFinalFails(r) PROVE IInv'
<1>1. operation' = operation \/ operation' = Final(r)
  BY DEF RecordFinalFails, Perhaps
<1>2. TypeOK'
  BY <1>1, OutcomeType, LeaveType, FaultType
     DEF RecordFinalFails, IInv, TypeOK, history
<1> QED
  BY <1>1, <1>2, LeaveType, RecordStep DEF RecordFinalFails, history, IInv

LEMMA RepairTimelinesStep == ASSUME IInv, RepairTimelines PROVE IInv'
<1>1. /\ operation' \in [status: OperationStatuses,
                         accepted: 0..Cardinality(Batches), recorded: BOOLEAN]
      /\ timeline' \subseteq Batches /\ TotalsInv'
  BY SavedStep DEF RepairTimelines, history
<1>2. TypeOK'
  BY <1>1 DEF RepairTimelines, IInv, TypeOK, history, tally
<1> QED
  BY <1>1, <1>2, RequestStep DEF RepairTimelines, history

LEMMA CrashStep ==
    ASSUME IInv, NEW r \in Requests, Crash(r) PROVE IInv'
<1>1. TypeOK'
  BY LeaveType, FaultType DEF Crash, IInv, TypeOK, history
<1>2. TotalsInv'
  BY TotalsFrame DEF IInv, Crash, history, TypeOK
<1> QED
  BY <1>1, <1>2, LeaveType, RequestStep DEF Crash, history, IInv

-----------------------------------------------------------------------------
(* The theorems *)

LEMMA InitIInv == Init => IInv
<1> SUFFICES ASSUME Init PROVE IInv
  OBVIOUS
<1>1. /\ Cardinality(Batches) \in Nat /\ Cardinality(Batches) > 0
      /\ 0 \in 0..Cardinality(Batches)
  <2>1. Cardinality({}) = 0
    BY FS_EmptySet
  <2> QED
    BY <2>1, Counted, FS_Subset, ReminderConstants
<1>2. TypeOK
  BY <1>1, ReminderConstants
     DEF Init, TypeOK, OperationStatuses, BatchStatuses, Idle, NoWork
<1>3. ASSUME NEW b \in Batches PROVE BatchInv(b)
  BY <1>3 DEF Init, BatchInv, Holds, Working, NoWork
<1>4. TotalsInv
  BY <1>1 DEF Init, TotalsInv
<1> QED
  BY <1>2, <1>3, <1>4 DEF IInv

LEMMA StutterStep == ASSUME IInv, UNCHANGED vars PROVE IInv'
BY DEF vars, history, tally, IInv, TypeOK, BatchInv, TotalsInv, AllMailed, Holds

LEMMA NextStep == ASSUME IInv, Next PROVE IInv'
<1>1. ASSUME NEW r \in Requests, Submit(r) PROVE IInv'
  BY <1>1, SubmitStep
<1>2. ASSUME NEW r \in Requests, Advance(r) PROVE IInv'
  <2>1. ASSUME NEW b \in Batches,
               \/ TakeBatch(r, b) \/ ReserveBatch(r, b) \/ Mail(r, b)
               \/ CompleteAccepted(r, b) \/ CompleteOutcome(r, b)
        PROVE  IInv'
    BY <2>1, TakeBatchStep, ReserveBatchStep, MailStep, CompleteAcceptedStep,
       CompleteOutcomeStep
  <2> QED
    BY <1>2, <2>1, ReserveOperationStep, RecordDeliveryStep, SaveTimelineStep,
       RecordFinalStep DEF Advance
<1>3. ASSUME NEW r \in Requests, Failure(r) PROVE IInv'
  <2>1. ASSUME NEW b \in Batches,
               \/ ReserveBatchFails(r, b) \/ CompleteAcceptedFails(r, b)
               \/ CompleteOutcomeFails(r, b)
        PROVE  IInv'
    BY <2>1, ReserveBatchFailsStep, CompleteAcceptedFailsStep, CompleteOutcomeFailsStep
  <2> QED
    BY <1>3, <2>1, ReserveOperationFailsStep, RecordDeliveryFailsStep,
       SaveTimelineFailsStep, RecordFinalFailsStep, CrashStep DEF Failure
<1> QED
  BY <1>1, <1>2, <1>3, RepairTimelinesStep DEF Next

\* The invariant of the ledger is inductive: who may hold a batch, what its
\* row says of the messages accepted for it, and what the operation's row says
\* of all batches (the functions of the migration and their callers).
THEOREM Invariance == Spec => []IInv
<1>1. IInv /\ [Next]_vars => IInv'
  BY NextStep, StutterStep
<1> QED
  BY InitIInv, <1>1, PTL DEF Spec

\* The variables keep their types.
THEOREM TypeCorrect == Spec => []TypeOK
<1>1. IInv => TypeOK
  BY DEF IInv
<1> QED
  BY Invariance, <1>1, PTL

\* For any number of overlapping requests, a batch is mailed and recorded by
\* one of them at most (reserve_buyer_invoice_payment_reminder_batch).
THEOREM OneSender == Spec => []OneSenderPerBatch
<1>1. IInv => OneSenderPerBatch
  BY DEF IInv, BatchInv, OneSenderPerBatch
<1> QED
  BY Invariance, <1>1, PTL

\* However often an operation is requested, a batch is accepted by Graph once,
\* unless the ledger failed to record that it was (the batch worker of
\* buyerInvoicePaymentReminderSend).
THEOREM RepeatedMail == Spec => []RepeatedMailWasUnrecorded
<1>1. IInv => RepeatedMailWasUnrecorded
  BY DEF IInv, BatchInv, RepeatedMailWasUnrecorded
<1> QED
  BY Invariance, <1>1, PTL

\* A completed operation has mailed every batch, and the timeline names mailed
\* batches only (save_buyer_invoice_payment_reminder_timeline).
THEOREM Completed == Spec => []CompletedIsMailed
<1>1. IInv => CompletedIsMailed
  BY DEF IInv, TotalsInv, AllMailed, CompletedIsMailed
<1> QED
  BY Invariance, <1>1, PTL
=============================================================================
