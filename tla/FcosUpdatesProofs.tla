------------------------- MODULE FcosUpdatesProofs -------------------------
(***************************************************************************)
(* Theorems about FcosUpdates, for any items, batches and requests, any    *)
(* finite set of recipients and any number of revisions, sends and         *)
(* failures.                                                               *)
(***************************************************************************)
EXTENDS FcosUpdates, FiniteSetTheorems, TLAPS

Started(b) == batches[b].status \in {"Sending", "Sent", "PartialFailure"}

\* A revision that is still the one an administrator's request read is that of
\* an item which still allows the edit: whatever changes more raises it.
EditInv ==
    edit # NoEdit =>
       /\ edit.rev < MaxRevision /\ edit.rev <= items[edit.item].rev
       /\ items[edit.item].status # "absent"
       /\ Unchanged(edit) => MayEdit(edit.op, edit.item)

\* A page is not newer than its draft, and of the same revision the same.
PageInv ==
    \A b \in Batches : page.batch = b =>
       /\ page.content.rev <= Saved(b).rev
       /\ page.content.rev = Saved(b).rev => page.content = Saved(b)

\* A started batch is frozen, and holds on to its items.
FrozenInv(b) ==
    Started(b) =>
       /\ reviewed[b] = Saved(b)
       /\ \A i \in InDraft(b) : /\ items[i].batch = b
                                /\ items[i].status \in {"Pending", "Sent"}

\* Rows are made for the recipients of a started batch, and only they are
\* mailed; and what says Sent was accepted.
RecipientInv(b) ==
    /\ \A r \in Recipients :
         /\ rows[b][r] # "absent" => Started(b) /\ r \in Saved(b).to
         /\ accepted[b][r] > 0 => rows[b][r] # "absent"
         /\ rows[b][r] = "Sent" => accepted[b][r] > 0
    /\ batches[b].status = "Sent" =>
         /\ Rows(b) # {} /\ \A r \in Rows(b) : rows[b][r] = "Sent"
         /\ \A i \in InDraft(b) : items[i].status = "Sent"

\* A request has the row of r in hand: it will submit to it, or has done so
\* and not recorded the answer.
Hand(s, b, r) ==
    /\ slot[s].batch = b
    /\ (slot[s].at = "deliver" /\ r \in slot[s].todo) \/ call[s][r] # "none"

SlotInv(s) ==
    /\ slot[s].at # "idle" => slot[s].batch \in Batches /\ Started(slot[s].batch)
    /\ slot[s].kind = "recovery" => /\ slot[s].at \in {"uncertain", "failed", "settle"}
                                    /\ call[s] = NoCalls
    /\ slot[s].at # "idle" /\ slot[s].kind # "recovery" =>
         slot[s].want \in {{"Pending"}, {"Failed"}, {"Uncertain"}}
    /\ call[s] # NoCalls =>
         slot[s].at \in {"deliver", "uncertain", "failed", "settle", "done"}
    /\ \A b \in Batches, r \in Recipients : Hand(s, b, r) => rows[b][r] # "absent"
    /\ \A r \in Recipients : call[s][r] = "accepted" => accepted[slot[s].batch][r] > 0
    /\ \A r \in Recipients : call[s][r] # "none" => r \notin slot[s].todo

\* A request that may still claim rows, or give up on claimed ones.
Busy(s, b) ==
    slot[s].batch = b /\ slot[s].at \in {"count", "claim", "deliver", "stop"}

\* Unless a batch was settled over a working request, one request at a time
\* works on it, and a retry starts with every row settled.
BatchInv(b) ==
    b \notin overlapped =>
       /\ \A s, t \in Slots : Busy(s, b) /\ Busy(t, b) => s = t
       /\ batches[b].status = "PartialFailure" =>
            /\ \A s \in Slots : ~Busy(s, b)
            /\ \A r \in Recipients : rows[b][r] \notin {"Pending", "Sending"}

\* ... and a row that nobody agreed to mail again is in one hand, which has
\* not had it accepted before it asks.
RowInv(b, r) ==
    b \notin overlapped /\ confirmed[b][r] = 0 =>
       /\ \A s, t \in Slots : Hand(s, b, r) /\ Hand(t, b, r) => s = t
       /\ \A s \in Slots : Hand(s, b, r) =>
            /\ rows[b][r] \notin {"Pending", "Failed"}
            /\ call[s][r] \in {"accepted", "uncertain"} \/ accepted[b][r] = 0
       /\ rows[b][r] \in {"Pending", "Failed"} => accepted[b][r] = 0
       /\ \A s, t \in Slots : Busy(t, b) /\ Hand(s, b, r) /\ rows[b][r] = "Sending"
                                => s = t
       /\ \A t \in Slots : Busy(t, b) /\ rows[b][r] = "Sending" /\ accepted[b][r] > 0
                                => call[t][r] \in {"accepted", "uncertain"}

IInv ==
    /\ TypeOK /\ EditInv /\ PageInv
    /\ \A b \in Batches : FrozenInv(b) /\ RecipientInv(b) /\ BatchInv(b)
    /\ \A s \in Slots : SlotInv(s)
    /\ \A b \in Batches, r \in Recipients : RowInv(b, r)

-----------------------------------------------------------------------------
(* Types *)

LEMMA Counts == Cardinality(Recipients) \in Nat /\ Idle \in SlotType /\ NoContent \in Content
<1>1. Cardinality(Recipients) \in Nat
  BY UpdateConstants, FS_CardinalityType
<1>2. NoContent \in Content
  BY UpdateConstants DEF NoContent, Content
<1>3. Idle \in SlotType
  BY <1>1 DEF Idle, SlotType, Steps
<1> QED
  BY <1>1, <1>2, <1>3

ItemType == [status: ItemStatuses, batch: Batches \cup {NoBatch}, rev: 0..MaxRevision]

LEMMA ItemTypes ==
    ASSUME TypeOK, NEW i \in Items
    PROVE  /\ items[i] \in ItemType /\ items[i].status \in ItemStatuses /\ items[i].rev \in 0..MaxRevision
           /\ items[i].batch \in Batches \cup {NoBatch}
           /\ items[i] = [status |-> items[i].status, batch |-> items[i].batch,
                          rev |-> items[i].rev]
  BY DEF TypeOK, ItemType

\* A write of one item.
LEMMA ItemUpdate ==
    ASSUME TypeOK, NEW i \in Items, NEW v \in ItemType, items' = [items EXCEPT ![i] = v]
    PROVE  /\ items' \in [Items -> ItemType] /\ items'[i] = v
           /\ \A j \in Items \ {i} : items'[j] = items[j]
  BY DEF TypeOK, ItemType

LEMMA BatchTypes ==
    ASSUME TypeOK, NEW b \in Batches
    PROVE  /\ batches[b].status \in BatchStatuses /\ Saved(b) \in Content
           /\ Saved(b).rev \in 0..MaxRevision
           /\ Saved(b).items \in [Items -> 0..MaxRevision]
           /\ Saved(b).to \in SUBSET Recipients
           /\ batches[b] = [status |-> batches[b].status, content |-> Saved(b)]
  BY DEF TypeOK, Saved, Content

LEMMA SlotTypes ==
    ASSUME TypeOK, NEW s \in Slots
    PROVE  /\ slot[s].at \in Steps /\ slot[s].batch \in Batches \cup {NoBatch}
           /\ slot[s].todo \in SUBSET Recipients /\ slot[s].wave \in SUBSET Recipients
           /\ slot[s].senderFailed \in BOOLEAN
           /\ slot[s].want \in SUBSET {"Pending", "Failed", "Uncertain"}
           /\ slot[s].left \in 0..Cardinality(Recipients)
           /\ slot[s].kind \in {"send", "retry", "recovery"}
           /\ slot[s] \in SlotType
  BY DEF TypeOK, SlotType

\* A step of one request, to a new record.
LEMMA SlotUpdate ==
    ASSUME TypeOK, NEW s \in Slots, NEW v \in SlotType, slot' = [slot EXCEPT ![s] = v]
    PROVE  /\ slot' \in [Slots -> SlotType] /\ slot'[s] = v
           /\ \A t \in Slots \ {s} : slot'[t] = slot[t]
  BY DEF TypeOK

LEMMA SlotAt ==
    ASSUME NEW v \in SlotType, NEW step \in Steps
    PROVE  LET w == [v EXCEPT !.at = step] IN
             /\ w \in SlotType /\ w.at = step
             /\ w.batch = v.batch /\ w.todo = v.todo /\ w.want = v.want /\ w.kind = v.kind
  BY DEF SlotType

LEMMA StepUpdate ==
    ASSUME TypeOK, NEW s \in Slots, NEW step \in Steps, Goto(s, step)
    PROVE  /\ slot' \in [Slots -> SlotType]
           /\ slot'[s] = [slot[s] EXCEPT !.at = step]
           /\ slot'[s].at = step
           /\ slot'[s].batch = slot[s].batch /\ slot'[s].todo = slot[s].todo
           /\ slot'[s].want = slot[s].want /\ slot'[s].kind = slot[s].kind
           /\ \A t \in Slots \ {s} : slot'[t] = slot[t]
<1>1. slot[s] \in SlotType /\ [slot[s] EXCEPT !.at = step] \in SlotType
  BY SlotTypes, SlotAt
<1>2. slot' = [slot EXCEPT ![s] = [slot[s] EXCEPT !.at = step]]
  BY DEF Goto
<1>3. /\ slot' \in [Slots -> SlotType] /\ slot'[s] = [slot[s] EXCEPT !.at = step]
      /\ \A t \in Slots \ {s} : slot'[t] = slot[t]
  BY <1>1, <1>2, SlotUpdate
<1> QED
  BY <1>1, <1>3, SlotAt

LEMMA StatusUpdate ==
    ASSUME TypeOK, NEW b \in Batches, NEW st \in BatchStatuses,
           batches' = [batches EXCEPT ![b].status = st]
    PROVE  /\ batches' \in [Batches -> [status: BatchStatuses, content: Content]]
           /\ batches'[b].status = st /\ batches'[b].content = batches[b].content
           /\ \A c \in Batches \ {b} : batches'[c] = batches[c]
<1>1. PICK x : x = [batches[b] EXCEPT !.status = st]
  OBVIOUS
<1>2. batches \in [Batches -> [status: BatchStatuses, content: Content]]
  BY DEF TypeOK
<1>3. /\ x \in [status: BatchStatuses, content: Content]
      /\ x.status = st /\ x.content = batches[b].content
  BY <1>1, <1>2
<1>4. batches' = [batches EXCEPT ![b] = x]
  BY <1>1, <1>2
<1> QED
  BY <1>2, <1>3, <1>4

-----------------------------------------------------------------------------
(* Items and drafts *)

LEMMA Imported ==
    ASSUME TypeOK, NEW i \in Items, Import(i)
    PROVE  /\ items' \in [Items -> ItemType]
           /\ \A j \in Items \ {i} : items'[j] = items[j]
           /\ items'[i].rev = 1 /\ items'[i].batch = items[i].batch
           /\ items[i].status = "absent" /\ items'[i].status = "Pending"
<1>1. PICK v : v = [[items[i] EXCEPT !.status = "Pending"] EXCEPT !.rev = 1]
  OBVIOUS
<1>2. items' = [items EXCEPT ![i] = v]
  BY <1>1 DEF Import, TypeOK
<1>3. 1 \in 0..MaxRevision
  BY UpdateConstants
<1>4. v \in ItemType /\ v.rev = 1 /\ v.status = "Pending" /\ v.batch = items[i].batch
  BY <1>1, <1>3, ItemTypes DEF ItemType, ItemStatuses
<1> QED
  BY <1>2, <1>4, ItemUpdate DEF Import

\* What leaves the started batches and their items alone leaves the sends alone.
LEMMA DraftFrame ==
    ASSUME IInv, TypeOK', EditInv', PageInv',
           rows' = rows, slot' = slot, call' = call, accepted' = accepted,
           confirmed' = confirmed, reviewed' = reviewed, overlapped' = overlapped,
           \A b \in Batches : /\ Started(b)' => Started(b)
                              /\ Started(b) => batches'[b] = batches[b],
           \A b \in Batches, i \in Items :
              /\ Started(b) /\ items[i].batch = b /\ items[i].status \in {"Pending", "Sent"}
              => items'[i].batch = b /\ items'[i].status = items[i].status
    PROVE  IInv'
<1>1. ASSUME NEW b \in Batches PROVE Started(b)' = Started(b)
  BY DEF Started
<1>2. ASSUME NEW b \in Batches PROVE FrozenInv(b)' /\ RecipientInv(b)'
  <2>1. FrozenInv(b) /\ RecipientInv(b)
    BY DEF IInv
  <2>2. CASE Started(b)
    <3>1. batches'[b] = batches[b] /\ Saved(b)' = Saved(b) /\ InDraft(b)' = InDraft(b)
      BY <2>2 DEF Saved, InDraft
    <3>2. \A i \in InDraft(b) : /\ items'[i].batch = b
                                /\ items'[i].status = items[i].status
      BY <2>1, <2>2 DEF FrozenInv, InDraft
    <3>3. FrozenInv(b)'
      BY <1>1, <2>1, <2>2, <3>1, <3>2 DEF FrozenInv
    <3>4. RecipientInv(b)'
      BY <1>1, <2>1, <2>2, <3>1, <3>2 DEF RecipientInv, Rows
    <3> QED
      BY <3>3, <3>4
  <2>3. CASE ~Started(b)
    <3>1. ~Started(b)' /\ batches'[b].status # "Sent"
      BY <1>1, <2>3 DEF Started
    <3> QED
      BY <2>1, <2>3, <3>1 DEF FrozenInv, RecipientInv
  <2> QED
    BY <2>2, <2>3
<1>3. ASSUME NEW b \in Batches PROVE BatchInv(b)'
  <2>1. BatchInv(b) /\ (Started(b)' => Started(b)) /\ (Started(b) => batches'[b] = batches[b])
    BY DEF IInv
  <2>2. \A s \in Slots : Busy(s, b)' = Busy(s, b)
    BY DEF Busy
  <2>3. batches'[b].status = "PartialFailure" => batches[b].status = "PartialFailure"
    BY <2>1 DEF Started
  <2> QED
    BY <2>1, <2>2, <2>3 DEF BatchInv
<1>4. ASSUME NEW s \in Slots PROVE SlotInv(s)'
  <2>1. SlotInv(s)
    BY DEF IInv
  <2>2. \A b \in Batches, r \in Recipients : Hand(s, b, r)' = Hand(s, b, r)
    BY DEF Hand
  <2>3. slot[s].batch \in Batches => Started(slot[s].batch)' = Started(slot[s].batch)
    BY <1>1
  <2> QED
    BY <2>1, <2>2, <2>3 DEF SlotInv, NoCalls
<1>5. ASSUME NEW b \in Batches, NEW r \in Recipients PROVE RowInv(b, r)'
  <2>1. RowInv(b, r)
    BY DEF IInv
  <2>2. \A s \in Slots : Hand(s, b, r)' = Hand(s, b, r) /\ Busy(s, b)' = Busy(s, b)
    BY DEF Hand, Busy
  <2> QED
    BY <2>1, <2>2 DEF RowInv
<1> QED
  BY <1>2, <1>3, <1>4, <1>5 DEF IInv

LEMMA ImportStep ==
    ASSUME IInv, NEW i \in Items, Import(i)
    PROVE  IInv'
<1>1. TypeOK /\ EditInv /\ PageInv
  BY DEF IInv
<1>2. /\ items' \in [Items -> ItemType]
      /\ \A j \in Items \ {i} : items'[j] = items[j]
      /\ items[i].status = "absent"
  BY <1>1, Imported
<1>3. /\ edit' = edit /\ batches' = batches /\ page' = page /\ rows' = rows
      /\ recent' = recent /\ slot' = slot /\ call' = call /\ accepted' = accepted
      /\ confirmed' = confirmed /\ reviewed' = reviewed /\ overlapped' = overlapped
      /\ sends' = sends /\ faults' = faults
  BY DEF Import, history, tally
<1>4. TypeOK'
  BY <1>1, <1>2, <1>3 DEF TypeOK, ItemType
<1>5. EditInv'
  <2>1. SUFFICES ASSUME edit # NoEdit PROVE EditInv'
    BY <1>3 DEF EditInv
  <2>2. edit.item \in Items /\ edit.item # i
    BY <1>1, <1>2, <2>1 DEF TypeOK, EditInv
  <2>3. items'[edit.item] = items[edit.item]
    BY <1>2, <2>2
  <2> QED
    BY <1>1, <1>3, <2>1, <2>3 DEF EditInv, Unchanged, MayEdit, Free
<1>6. PageInv'
  BY <1>1, <1>3 DEF PageInv, Saved
<1>7. ASSUME NEW b \in Batches PROVE Started(b)' = Started(b)
  BY <1>3 DEF Started
<1>8. ASSUME NEW j \in Items, items[j].status \in {"Pending", "Sent"}
      PROVE  items'[j] = items[j]
  BY <1>2, <1>8
<1> QED
  BY <1>3, <1>4, <1>5, <1>6, <1>7, <1>8, DraftFrame

LEMMA ReadItemStep ==
    ASSUME IInv, NEW i \in Items, NEW op \in Edits, ReadItem(op, i)
    PROVE  IInv'
<1>1. TypeOK /\ EditInv /\ PageInv
  BY DEF IInv
<1>2. /\ items' = items /\ batches' = batches /\ page' = page /\ rows' = rows
      /\ recent' = recent /\ slot' = slot /\ call' = call /\ accepted' = accepted
      /\ confirmed' = confirmed /\ reviewed' = reviewed /\ overlapped' = overlapped
      /\ sends' = sends /\ faults' = faults
      /\ edit' = [op |-> op, item |-> i, rev |-> items[i].rev]
      /\ items[i].rev < MaxRevision /\ MayEdit(op, i)
  BY DEF ReadItem, history, tally
<1>3. items[i].rev \in 0..MaxRevision
  BY <1>1, ItemTypes
<1>4. edit' \in [op: Edits, item: Items, rev: 0..MaxRevision]
  BY <1>2, <1>3
<1>5. TypeOK'
  BY <1>1, <1>2, <1>4 DEF TypeOK
<1>6. EditInv'
  <2>1. edit'.op = op /\ edit'.item = i /\ edit'.rev = items[i].rev
    BY <1>2
  <2>2. items[i].status # "absent"
    BY <1>2 DEF MayEdit, Free
  <2>3. MayEdit(edit.op, edit.item)'
    BY <1>2, <2>1 DEF MayEdit, Free
  <2> QED
    BY <1>2, <1>3, <2>1, <2>2, <2>3 DEF EditInv
<1>7. PageInv'
  BY <1>1, <1>2 DEF PageInv, Saved
<1>8. ASSUME NEW b \in Batches PROVE Started(b)' = Started(b)
  BY <1>2 DEF Started
<1> QED
  BY <1>2, <1>5, <1>6, <1>7, <1>8, DraftFrame

LEMMA WriteItemStep ==
    ASSUME IInv, WriteItem
    PROVE  IInv'
<1>1. TypeOK /\ EditInv /\ PageInv
  BY DEF IInv
<1>2. /\ edit' = NoEdit /\ batches' = batches /\ page' = page /\ rows' = rows
      /\ recent' = recent /\ slot' = slot /\ call' = call /\ accepted' = accepted
      /\ confirmed' = confirmed /\ reviewed' = reviewed /\ overlapped' = overlapped
      /\ sends' = sends /\ faults' = faults /\ edit # NoEdit
  BY DEF WriteItem, history, tally
<1>3. PICK i \in Items, op \in Edits, rev \in 0..MaxRevision :
         edit.item = i /\ edit.op = op /\ edit.rev = rev
  BY <1>1, <1>2 DEF TypeOK
<1>4. PICK v : v = Edited(op, i)
  OBVIOUS
<1>5. \/ items' = items
      \/ /\ items' = [items EXCEPT ![i] = v] /\ items[i].rev = rev
         /\ MayEdit(op, i) /\ rev < MaxRevision
  BY <1>1, <1>2, <1>3, <1>4 DEF WriteItem, MayWrite, Unchanged, EditInv
<1>6. /\ items' \in [Items -> ItemType]
      /\ \A j \in Items : /\ items[j].status \in {"Pending", "Sent"} /\ items[j].batch # NoBatch
                          => /\ items'[j].batch = items[j].batch
                             /\ items'[j].status = items[j].status
  <2>1. CASE items' = items
    BY <1>1, <2>1 DEF TypeOK, ItemType
  <2>2. CASE /\ items' = [items EXCEPT ![i] = v] /\ items[i].rev = rev
             /\ MayEdit(op, i) /\ rev < MaxRevision
    <3>1. PICK x : x = items[i]
      OBVIOUS
    <3>2. x \in ItemType /\ x.rev = rev /\ rev + 1 \in 0..MaxRevision
      <4>1. x \in ItemType /\ x.rev = rev
        BY <1>1, <2>2, <3>1, ItemTypes
      <4>2. rev + 1 \in 0..MaxRevision
        BY <2>2, UpdateConstants
      <4> QED
        BY <4>1, <4>2
    <3>3. \/ op = "skip" /\ v = [x EXCEPT !.status = "Skipped", !.rev = rev + 1]
          \/ op = "restore" /\ v = [x EXCEPT !.status = "Pending", !.rev = rev + 1]
          \/ op \in {"save", "sync"} /\ v = [x EXCEPT !.rev = rev + 1]
      BY <1>4, <3>1, <3>2 DEF Edited, Edits, Bump
    <3>4. v \in ItemType /\ v.batch = x.batch
      BY <3>2, <3>3 DEF ItemType, ItemStatuses
    <3>5. x.status \in {"Pending", "Sent"} /\ x.batch # NoBatch => v.status = x.status
      <4>1. CASE op = "skip"
        BY <2>2, <3>1, <4>1 DEF MayEdit, Free
      <4>2. CASE op = "restore"
        BY <2>2, <3>1, <4>2 DEF MayEdit, Free
      <4>3. CASE op \in {"save", "sync"}
        BY <3>2, <3>3, <4>3 DEF ItemType
      <4> QED
        BY <4>1, <4>2, <4>3 DEF Edits
    <3> QED
      BY <1>1, <2>2, <3>1, <3>4, <3>5, ItemUpdate
  <2> QED
    BY <1>5, <2>1, <2>2
<1>7. TypeOK'
  BY <1>1, <1>2, <1>6 DEF TypeOK, ItemType
<1>8. EditInv' /\ PageInv'
  BY <1>1, <1>2 DEF EditInv, PageInv, Saved
<1>9. ASSUME NEW b \in Batches PROVE Started(b)' = Started(b) /\ b # NoBatch
  BY <1>2, UpdateConstants DEF Started
<1> QED
  BY <1>2, <1>6, <1>7, <1>8, <1>9, DraftFrame

\* What a save or a cancellation writes to an item: it leaves its status and
\* raises its revision.
LEMMA SavedItems ==
    ASSUME TypeOK, NEW b \in Batches, NEW chosen \in SUBSET Items, NEW i \in Items,
           items[i].rev < MaxRevision
    PROVE  /\ SavedItem(b, chosen, i) \in ItemType
           /\ SavedItem(b, chosen, i).status = items[i].status
           /\ SavedItem(b, chosen, i).rev = items[i].rev + 1
           /\ items[i].rev + 1 \in 0..MaxRevision
<1>1. PICK x : x = items[i]
  OBVIOUS
<1>2. PICK to \in Batches \cup {NoBatch} : to = IF i \in chosen THEN b ELSE NoBatch
  OBVIOUS
<1>3. x \in ItemType
  BY <1>1, ItemTypes
<1>4. x.rev + 1 \in 0..MaxRevision
  <2>1. x.rev \in 0..MaxRevision
    BY <1>3 DEF ItemType
  <2> QED
    BY <1>1, <2>1, UpdateConstants
<1>5. SavedItem(b, chosen, i) = [x EXCEPT !.batch = to, !.rev = x.rev + 1]
  BY <1>1, <1>2 DEF SavedItem, Bump
<1> QED
  BY <1>1, <1>3, <1>4, <1>5 DEF ItemType

\* The items after one: those it touches are saved.
LEMMA TouchedItems ==
    ASSUME IInv, NEW b \in Batches, NEW chosen \in SUBSET Items,
           NEW T \in SUBSET Touched(b, chosen),
           \A i \in chosen : Selectable(b, i),
           \A i \in Touched(b, chosen) : items[i].rev < MaxRevision,
           items' = [i \in Items |-> IF i \in T THEN SavedItem(b, chosen, i) ELSE items[i]],
           edit' = edit
    PROVE  /\ items' \in [Items -> ItemType]
           /\ \A i \in Items : items[i].batch \notin {b, NoBatch} => items'[i] = items[i]
           /\ EditInv'
<1>1. TypeOK /\ EditInv
  BY DEF IInv
<1>2. ASSUME NEW i \in Items
      PROVE  /\ items'[i] \in ItemType /\ items'[i].status = items[i].status
             /\ items'[i] = items[i] \/ items'[i].rev = items[i].rev + 1
             /\ items[i].rev \in 0..MaxRevision
  <2>1. items[i] \in ItemType /\ items[i].rev \in 0..MaxRevision
    BY <1>1, ItemTypes
  <2>2. CASE i \in T
    <3>1. items[i].rev < MaxRevision
      BY <2>2
    <3> QED
      BY <1>1, <2>1, <2>2, <3>1, SavedItems
  <2>3. CASE i \notin T
    BY <2>1, <2>3
  <2> QED
    BY <2>2, <2>3
<1>3. items' \in [Items -> ItemType]
  <2>1. items' = [i \in Items |-> items'[i]]
    OBVIOUS
  <2> QED
    BY <1>2, <2>1
<1>4. ASSUME NEW i \in Items, items[i].batch \notin {b, NoBatch}
      PROVE  items'[i] = items[i]
  BY <1>4 DEF Touched, Selectable
<1>5. EditInv'
  <2>1. SUFFICES ASSUME edit # NoEdit PROVE EditInv'
    BY DEF EditInv
  <2>2. PICK i \in Items, op \in Edits, rev \in 0..MaxRevision :
           edit.item = i /\ edit.op = op /\ edit.rev = rev
    BY <1>1, <2>1 DEF TypeOK
  <2>3. /\ rev < MaxRevision /\ rev <= items[i].rev /\ items[i].status # "absent"
        /\ items[i].rev = rev => MayEdit(op, i)
    BY <1>1, <2>1, <2>2 DEF EditInv, Unchanged
  <2>4. /\ rev <= items'[i].rev /\ items'[i].status # "absent"
        /\ items'[i].rev = rev => MayEdit(op, i)'
    <3>1. CASE items'[i] = items[i]
      BY <2>3, <3>1 DEF MayEdit, Free
    <3>2. CASE items'[i].rev = items[i].rev + 1
      BY <1>2, <2>3, <3>2
    <3> QED
      BY <1>2, <3>1, <3>2
  <2> QED
    BY <2>2, <2>3, <2>4 DEF EditInv, Unchanged
<1> QED
  BY <1>3, <1>4, <1>5

LEMMA SavedRevision ==
    ASSUME TypeOK, NEW b \in Batches
    PROVE  /\ Saved(b).rev <= Saved(b).rev
           /\ Saved(b).rev < MaxRevision =>
                 Saved(b).rev + 1 \in 0..MaxRevision /\ Saved(b).rev + 1 > Saved(b).rev
<1>1. PICK n \in 0..MaxRevision : n = Saved(b).rev
  BY BatchTypes
<1>2. MaxRevision \in Nat
  BY UpdateConstants
<1> QED
  BY <1>1, <1>2

\* A write of one batch that is not started, and of its items.
LEMMA DraftWritten ==
    ASSUME IInv, NEW b \in Batches, ~Started(b),
           NEW st \in {"Draft", "Cancelled"}, NEW c \in Content,
           batches' = [batches EXCEPT ![b] = [status |-> st, content |-> c]],
           c.rev > Saved(b).rev,
           items' \in [Items -> ItemType], EditInv',
           \A i \in Items : items[i].batch \notin {b, NoBatch} => items'[i] = items[i],
           edit' = edit, page' = page,
           UNCHANGED <<rows, recent, slot, call, history, tally>>
    PROVE  IInv'
<1>1. TypeOK /\ PageInv
  BY DEF IInv
<1>2. /\ rows' = rows /\ recent' = recent /\ slot' = slot /\ call' = call
      /\ accepted' = accepted /\ confirmed' = confirmed /\ reviewed' = reviewed
      /\ overlapped' = overlapped /\ sends' = sends /\ faults' = faults
  BY DEF history, tally
<1>3. [status |-> st, content |-> c] \in [status: BatchStatuses, content: Content]
  BY DEF BatchStatuses
<1>4. /\ batches' \in [Batches -> [status: BatchStatuses, content: Content]]
      /\ batches'[b].status = st /\ batches'[b].content = c
      /\ \A d \in Batches \ {b} : batches'[d] = batches[d]
  BY <1>1, <1>3 DEF TypeOK
<1>5. TypeOK'
  BY <1>1, <1>2, <1>4 DEF TypeOK, ItemType
<1>6. PageInv'
  <2>1. ASSUME NEW d \in Batches, page.batch = d
        PROVE  /\ page.content.rev <= Saved(d)'.rev
               /\ page.content.rev = Saved(d)'.rev => page.content = Saved(d)'
    <3>1. CASE d = b
      <4>1. page.content.rev <= Saved(b).rev
        BY <1>1, <2>1, <3>1 DEF PageInv
      <4>2. Saved(b).rev \in Nat /\ c.rev \in Nat /\ page.content.rev \in Nat
        BY <1>1, BatchTypes DEF TypeOK, Content
      <4> QED
        BY <1>4, <3>1, <4>1, <4>2 DEF Saved
    <3>2. CASE d # b
      BY <1>1, <1>4, <2>1, <3>2 DEF PageInv, Saved
    <3> QED
      BY <3>1, <3>2
  <2> QED
    BY <2>1 DEF PageInv
<1>7. ASSUME NEW d \in Batches
      PROVE  (Started(d)' => Started(d)) /\ (Started(d) => batches'[d] = batches[d] /\ d # b)
  BY <1>4 DEF Started
<1>8. ASSUME NEW d \in Batches, NEW i \in Items, Started(d), items[i].batch = d
      PROVE  items'[i] = items[i]
  BY <1>7, <1>8, UpdateConstants
<1> QED
  BY <1>2, <1>5, <1>6, <1>7, <1>8, DraftFrame

LEMMA SaveBatchStep ==
    ASSUME IInv, NEW b \in Batches, NEW chosen \in SUBSET Items,
           NEW to \in SUBSET Recipients, SaveBatch(b, chosen, to)
    PROVE  IInv'
<1>1. TypeOK
  BY DEF IInv
<1>2. /\ \A i \in chosen : Selectable(b, i)
      /\ \A i \in Touched(b, chosen) : items[i].rev < MaxRevision
      /\ items' = [i \in Items |-> IF i \in Touched(b, chosen)
                                   THEN SavedItem(b, chosen, i) ELSE items[i]]
      /\ edit' = edit /\ page' = page /\ ~Started(b) /\ Saved(b).rev < MaxRevision
  BY DEF SaveBatch, Started
<1>3. /\ items' \in [Items -> ItemType] /\ EditInv'
      /\ \A i \in Items : items[i].batch \notin {b, NoBatch} => items'[i] = items[i]
  BY <1>2, TouchedItems
<1>4. PICK f : f = [i \in Items |-> IF i \in chosen THEN Bump(i) ELSE 0]
  OBVIOUS
<1>5. f \in [Items -> 0..MaxRevision]
  <2>1. ASSUME NEW i \in chosen PROVE Bump(i) \in 0..MaxRevision
    BY <1>1, <1>2, SavedItems DEF Touched, Bump
  <2>2. 0 \in 0..MaxRevision
    BY UpdateConstants
  <2> QED
    BY <1>4, <2>1, <2>2
<1>6. Saved(b).rev + 1 \in 0..MaxRevision /\ Saved(b).rev + 1 > Saved(b).rev
  BY <1>1, <1>2, SavedRevision
<1>7. PICK c : c = [rev |-> Saved(b).rev + 1, items |-> f, to |-> to]
  OBVIOUS
<1>8. c \in Content /\ c.rev > Saved(b).rev
  BY <1>5, <1>6, <1>7 DEF Content
<1>9. batches' = [batches EXCEPT ![b] = [status |-> "Draft", content |-> c]]
  BY <1>4, <1>7 DEF SaveBatch
<1>10. UNCHANGED <<rows, recent, slot, call, history, tally>>
  BY DEF SaveBatch
<1> QED
  BY <1>2, <1>3, <1>8, <1>9, <1>10, DraftWritten

LEMMA CancelBatchStep ==
    ASSUME IInv, NEW b \in Batches, CancelBatch(b)
    PROVE  IInv'
<1>1. TypeOK
  BY DEF IInv
<1>2. PICK T : T = {i \in Touched(b, {}) : items[i].status = "Pending"}
  OBVIOUS
<1>3. /\ \A i \in Touched(b, {}) : items[i].rev < MaxRevision
      /\ items' = [i \in Items |-> IF i \in T THEN SavedItem(b, {}, i) ELSE items[i]]
      /\ edit' = edit /\ page' = page /\ ~Started(b) /\ Saved(b).rev < MaxRevision
  BY <1>2 DEF CancelBatch, Started
<1>4. /\ items' \in [Items -> ItemType] /\ EditInv'
      /\ \A i \in Items : items[i].batch \notin {b, NoBatch} => items'[i] = items[i]
  <2>1. T \in SUBSET Touched(b, {}) /\ {} \in SUBSET Items
    BY <1>2
  <2> QED
    BY <1>3, <2>1, TouchedItems
<1>5. Saved(b).rev + 1 \in 0..MaxRevision /\ Saved(b).rev + 1 > Saved(b).rev
  BY <1>1, <1>3, SavedRevision
<1>6. PICK x : x = Saved(b)
  OBVIOUS
<1>7. PICK c : c = [x EXCEPT !.rev = x.rev + 1]
  OBVIOUS
<1>8. c \in Content /\ c.rev > Saved(b).rev
  BY <1>1, <1>5, <1>6, <1>7, BatchTypes DEF Content
<1>9. batches' = [batches EXCEPT ![b] = [status |-> "Cancelled", content |-> c]]
  <2>1. batches[b] = [status |-> batches[b].status, content |-> x]
    BY <1>1, <1>6, BatchTypes
  <2>2. PICK y : y = [batches[b] EXCEPT !.status = "Cancelled"]
    OBVIOUS
  <2>3. y = [status |-> "Cancelled", content |-> x]
    BY <2>1, <2>2
  <2>4. PICK z : z = [y EXCEPT !.content.rev = @ + 1]
    OBVIOUS
  <2>5. z = [status |-> "Cancelled", content |-> c]
    BY <1>7, <2>3, <2>4
  <2>6. batches \in [Batches -> [status: BatchStatuses, content: Content]]
    BY <1>1 DEF TypeOK
  <2>7. batches' = [batches EXCEPT ![b] = z]
    BY <2>2, <2>4, <2>6 DEF CancelBatch
  <2> QED
    BY <2>5, <2>7
<1>10. UNCHANGED <<rows, recent, slot, call, history, tally>>
  BY DEF CancelBatch
<1> QED
  BY <1>3, <1>4, <1>8, <1>9, <1>10, DraftWritten

LEMMA OpenBatchStep ==
    ASSUME IInv, NEW b \in Batches, OpenBatch(b)
    PROVE  IInv'
<1>1. TypeOK /\ EditInv /\ PageInv
  BY DEF IInv
<1>2. /\ items' = items /\ batches' = batches /\ edit' = edit /\ rows' = rows
      /\ recent' = recent /\ slot' = slot /\ call' = call /\ accepted' = accepted
      /\ confirmed' = confirmed /\ reviewed' = reviewed /\ overlapped' = overlapped
      /\ sends' = sends /\ faults' = faults
      /\ page' = [batch |-> b, content |-> Saved(b)]
  BY DEF OpenBatch, history, tally
<1>3. page' \in [batch: Batches \cup {NoBatch}, content: Content]
  BY <1>1, <1>2, BatchTypes
<1>4. TypeOK'
  BY <1>1, <1>2, <1>3 DEF TypeOK
<1>5. PageInv'
  <2>1. Saved(b).rev <= Saved(b).rev
    BY <1>1, SavedRevision
  <2> QED
    BY <1>2, <2>1 DEF PageInv, Saved
<1>6. EditInv'
  BY <1>1, <1>2 DEF EditInv, Unchanged, MayEdit, Free
<1>7. ASSUME NEW d \in Batches PROVE Started(d)' = Started(d)
  BY <1>2 DEF Started
<1> QED
  BY <1>2, <1>4, <1>5, <1>6, <1>7, DraftFrame

-----------------------------------------------------------------------------
(* Steps of one request *)

\* The request s works on b: it leaves the other requests, the other batches
\* and their items alone, and undoes nothing of b.
Works(s, b) ==
    /\ slot[s].batch \in {b, NoBatch} /\ slot'[s].batch \in {b, NoBatch}
    /\ \A t \in Slots \ {s} : slot'[t] = slot[t] /\ call'[t] = call[t]
    /\ \A c \in Batches \ {b} :
         /\ batches'[c] = batches[c] /\ rows'[c] = rows[c] /\ reviewed'[c] = reviewed[c]
         /\ accepted'[c] = accepted[c] /\ confirmed'[c] = confirmed[c]
         /\ c \in overlapped' <=> c \in overlapped
    /\ \A i \in Items : \/ items'[i] = items[i]
                        \/ items[i].batch = b /\ items'[i].batch = b
    /\ Started(b) => Started(b)'
    /\ \A r \in Recipients : /\ rows[b][r] # "absent" => rows'[b][r] # "absent"
                             /\ accepted[b][r] > 0 => accepted'[b][r] > 0

LEMMA OtherBatch ==
    ASSUME IInv, NEW s \in Slots, NEW b \in Batches, Works(s, b),
           NEW c \in Batches \ {b}
    PROVE  /\ FrozenInv(c)' /\ RecipientInv(c)' /\ BatchInv(c)'
           /\ \A r \in Recipients : RowInv(c, r)'
<1>1. /\ FrozenInv(c) /\ RecipientInv(c) /\ BatchInv(c)
      /\ \A r \in Recipients : RowInv(c, r)
  BY DEF IInv
<1>2. /\ batches'[c] = batches[c] /\ rows'[c] = rows[c] /\ reviewed'[c] = reviewed[c]
      /\ accepted'[c] = accepted[c] /\ confirmed'[c] = confirmed[c]
      /\ c \in overlapped' <=> c \in overlapped
  BY DEF Works
<1>3. /\ Started(c)' = Started(c) /\ Saved(c)' = Saved(c) /\ InDraft(c)' = InDraft(c)
      /\ Rows(c)' = Rows(c)
  BY <1>2 DEF Started, Saved, InDraft, Rows
<1>4. ASSUME NEW i \in InDraft(c), Started(c) PROVE items'[i] = items[i]
  BY <1>1, <1>4 DEF Works, FrozenInv, InDraft
<1>5. FrozenInv(c)'
  BY <1>1, <1>2, <1>3, <1>4 DEF FrozenInv
<1>6. RecipientInv(c)'
  <2>1. \A r \in Recipients : /\ rows'[c][r] # "absent" => Started(c)' /\ r \in Saved(c)'.to
                              /\ accepted'[c][r] > 0 => rows'[c][r] # "absent"
                              /\ rows'[c][r] = "Sent" => accepted'[c][r] > 0
    BY <1>1, <1>2, <1>3 DEF RecipientInv
  <2>2. batches'[c].status = "Sent" => 
         /\ Rows(c)' # {} /\ \A r \in Rows(c)' : rows'[c][r] = "Sent"
         /\ \A i \in InDraft(c)' : items'[i].status = "Sent"
    <3>1. batches'[c].status = "Sent" => Started(c)
      BY <1>2 DEF Started
    <3> QED
      BY <1>1, <1>2, <1>3, <1>4, <3>1 DEF RecipientInv
  <2> QED
    BY <2>1, <2>2 DEF RecipientInv
<1>7. ASSUME NEW t \in Slots
      PROVE  /\ Busy(t, c)' = Busy(t, c)
             /\ \A r \in Recipients : Hand(t, c, r)' = Hand(t, c, r)
             /\ Busy(t, c) => call'[t] = call[t]
             /\ \A r \in Recipients : Hand(t, c, r) => call'[t] = call[t]
  <2>1. CASE t = s
    <3>1. slot[t].batch # c /\ slot'[t].batch # c
      BY <2>1, UpdateConstants DEF Works
    <3> QED
      BY <3>1 DEF Busy, Hand
  <2>2. CASE t # s
    BY <2>2 DEF Works, Busy, Hand
  <2> QED
    BY <2>1, <2>2
<1>8. BatchInv(c)'
  BY <1>1, <1>2, <1>7 DEF BatchInv
<1>9. ASSUME NEW r \in Recipients PROVE RowInv(c, r)'
  <2>1. RowInv(c, r)
    BY <1>1
  <2> QED
    BY <1>2, <1>7, <2>1 DEF RowInv
<1> QED
  BY <1>5, <1>6, <1>8, <1>9

LEMMA OtherSlot ==
    ASSUME IInv, NEW s \in Slots, NEW b \in Batches, Works(s, b), NEW t \in Slots \ {s}
    PROVE  SlotInv(t)'
<1>1. SlotInv(t) /\ TypeOK
  BY DEF IInv
<1>2. slot'[t] = slot[t] /\ call'[t] = call[t]
  BY DEF Works
<1>3. \A c \in Batches : Started(c) => Started(c)'
  BY DEF Works, Started
<1>4. \A c \in Batches, r \in Recipients :
         /\ rows[c][r] # "absent" => rows'[c][r] # "absent"
         /\ accepted[c][r] > 0 => accepted'[c][r] > 0
  BY DEF Works
<1>5. \A c \in Batches, r \in Recipients : Hand(t, c, r)' = Hand(t, c, r)
  BY <1>2 DEF Hand
<1>6. ASSUME NEW r \in Recipients, call[t][r] = "accepted"
      PROVE  slot[t].batch \in Batches
  <2>1. call[t] # NoCalls
    BY <1>6 DEF NoCalls
  <2> QED
    BY <1>1, <2>1 DEF SlotInv
<1>7. \A r \in Recipients : call[t][r] = "accepted" => accepted'[slot[t].batch][r] > 0
  BY <1>1, <1>4, <1>6 DEF SlotInv
<1> QED
  BY <1>1, <1>2, <1>3, <1>4, <1>5, <1>7 DEF SlotInv, NoCalls

\* So only b and s themselves are left to look at.
LEMMA OneBatch ==
    ASSUME IInv, NEW s \in Slots, NEW b \in Batches, Works(s, b),
           TypeOK', EditInv', PageInv',
           FrozenInv(b)', RecipientInv(b)', BatchInv(b)', SlotInv(s)',
           \A r \in Recipients : RowInv(b, r)'
    PROVE  IInv'
<1>1. \A c \in Batches : /\ FrozenInv(c)' /\ RecipientInv(c)' /\ BatchInv(c)'
                         /\ \A r \in Recipients : RowInv(c, r)'
  BY OtherBatch
<1>2. \A t \in Slots : SlotInv(t)'
  BY OtherSlot
<1> QED
  BY <1>1, <1>2 DEF IInv

\* A request that only moves on: it takes no row in hand, does not start to
\* work again, and keeps the answers of the rows it has.
Quiet(s, b) ==
    /\ UNCHANGED <<drafting, rows, accepted, confirmed, overlapped>>
    /\ \A t \in Slots \ {s} : slot'[t] = slot[t] /\ call'[t] = call[t]
    /\ slot[s].batch \in {b, NoBatch} /\ slot'[s].batch \in {b, NoBatch}
    /\ \A r \in Recipients : Hand(s, b, r)' =>
         /\ Hand(s, b, r)
         /\ call[s][r] \in {"accepted", "uncertain"} => call'[s][r] = call[s][r]
    /\ Busy(s, b)' =>
         /\ Busy(s, b)
         /\ \A r \in Recipients :
              call[s][r] \in {"accepted", "uncertain"} => call'[s][r] = call[s][r]

LEMMA QuietStep ==
    ASSUME IInv, TypeOK', NEW s \in Slots, NEW b \in Batches, Quiet(s, b), SlotInv(s)'
    PROVE  IInv'
<1>1. /\ TypeOK /\ EditInv /\ PageInv /\ FrozenInv(b) /\ RecipientInv(b) /\ BatchInv(b)
      /\ \A r \in Recipients : RowInv(b, r)
  BY DEF IInv
<1>2. /\ items' = items /\ edit' = edit /\ batches' = batches /\ page' = page
      /\ reviewed' = reviewed /\ rows' = rows /\ accepted' = accepted
      /\ confirmed' = confirmed /\ overlapped' = overlapped
  BY DEF Quiet, drafting
<1>3. Works(s, b)
  BY <1>2 DEF Quiet, Works, Started
<1>4. EditInv' /\ PageInv'
  BY <1>1, <1>2 DEF EditInv, PageInv, Unchanged, MayEdit, Free, Saved
<1>5. FrozenInv(b)' /\ RecipientInv(b)'
  BY <1>1, <1>2 DEF FrozenInv, RecipientInv, Started, Saved, InDraft, Rows
<1>6. ASSUME NEW t \in Slots
      PROVE  /\ Busy(t, b)' =>
                  /\ Busy(t, b)
                  /\ \A r \in Recipients : call[t][r] \in {"accepted", "uncertain"} =>
                                              call'[t][r] = call[t][r]
             /\ \A r \in Recipients : Hand(t, b, r)' =>
                  /\ Hand(t, b, r)
                  /\ call[t][r] \in {"accepted", "uncertain"} => call'[t][r] = call[t][r]
  <2>1. CASE t = s
    BY <2>1 DEF Quiet
  <2>2. CASE t # s
    BY <2>2 DEF Quiet, Busy, Hand
  <2> QED
    BY <2>1, <2>2
<1>7. BatchInv(b)'
  BY <1>1, <1>2, <1>6 DEF BatchInv
<1>8. ASSUME NEW r \in Recipients PROVE RowInv(b, r)'
  <2>1. RowInv(b, r)
    BY <1>1
  <2> QED
    BY <1>2, <1>6, <2>1 DEF RowInv
<1> QED
  BY <1>3, <1>4, <1>5, <1>7, <1>8, OneBatch

\* A request in progress works on a started batch.
LEMMA Active ==
    ASSUME IInv, NEW s \in Slots, slot[s].at # "idle"
    PROVE  /\ slot[s].batch \in Batches /\ Started(slot[s].batch)
           /\ slot[s].batch # NoBatch /\ SlotInv(s)
           /\ slot[s].kind = "recovery" => slot[s].at \in {"uncertain", "failed", "settle"}
           /\ call[s] # NoCalls =>
                slot[s].at \in {"deliver", "uncertain", "failed", "settle", "done"}
  BY UpdateConstants DEF IInv, SlotInv

LEMMA CallType ==
    ASSUME TypeOK, NEW s \in Slots
    PROVE  /\ call[s] \in [Recipients -> {"none", "due"} \cup Answers]
           /\ \A r \in Recipients : NoCalls[r] = "none"
           /\ call[s] = NoCalls => \A r \in Recipients : call[s][r] = "none"
           /\ (\A r \in Recipients : call[s][r] = "none") => call[s] = NoCalls
  BY DEF TypeOK, NoCalls

\* Only the place of s in its code changes.
LEMMA StepOn ==
    ASSUME IInv, NEW s \in Slots, slot[s].at # "idle", NEW step \in Steps \ {"idle"},
           Goto(s, step), UNCHANGED <<drafting, rows, accepted, confirmed, overlapped>>,
           recent' = recent, call' = call, sends' = sends, faults' \in 0..MaxFaults,
           call[s] # NoCalls => step \in {"deliver", "uncertain", "failed", "settle", "done"},
           slot[s].kind = "recovery" => step \in {"uncertain", "failed", "settle"},
           step = "deliver" => slot[s].at = "deliver",
           step \in {"count", "claim", "deliver", "stop"} =>
              slot[s].at \in {"count", "claim", "deliver", "stop"}
    PROVE  IInv'
<1>1. TypeOK /\ SlotInv(s) /\ slot[s].batch \in Batches
  BY Active DEF IInv
<1>b. PICK b \in Batches : b = slot[s].batch
  BY <1>1
<1>2. /\ slot' \in [Slots -> SlotType] /\ slot'[s].at = step
      /\ slot'[s].batch = slot[s].batch /\ slot'[s].todo = slot[s].todo
      /\ slot'[s].want = slot[s].want /\ slot'[s].kind = slot[s].kind
      /\ \A t \in Slots \ {s} : slot'[t] = slot[t]
  BY <1>1, StepUpdate
<1>3. /\ items' = items /\ edit' = edit /\ batches' = batches /\ page' = page
      /\ reviewed' = reviewed /\ rows' = rows /\ accepted' = accepted
      /\ confirmed' = confirmed /\ overlapped' = overlapped
  BY DEF drafting
<1>4. TypeOK'
  BY <1>1, <1>2, <1>3 DEF TypeOK
<1>5. ASSUME NEW c \in Batches, NEW r \in Recipients, Hand(s, c, r)'
      PROVE  Hand(s, c, r)
  BY <1>2, <1>5 DEF Hand
<1>6. Quiet(s, b)
  BY <1>1, <1>b, <1>2, <1>5 DEF Quiet, Busy
<1>7. SlotInv(s)'
  BY <1>1, <1>2, <1>3, <1>5 DEF SlotInv, Started, NoCalls
<1> QED
  BY <1>4, <1>6, <1>7, QuietStep

\* The invocation has replied: it is over, or waits for its last submissions.
LEMMA StepEnds ==
    ASSUME IInv, NEW s \in Slots, slot[s].at # "idle",
           slot' = [slot EXCEPT ![s] = Finished(s)],
           UNCHANGED <<drafting, rows, accepted, confirmed, overlapped>>,
           recent' = recent, call' = call, sends' = sends, faults' \in 0..MaxFaults
    PROVE  IInv'
<1>1. TypeOK /\ SlotInv(s) /\ slot[s].batch \in Batches
  BY Active DEF IInv
<1>b. PICK b \in Batches : b = slot[s].batch
  BY <1>1
<1>2. /\ Finished(s) \in SlotType
      /\ call[s] = NoCalls => Finished(s) = Idle
      /\ call[s] # NoCalls =>
           /\ Finished(s).at = "done" /\ Finished(s).batch = slot[s].batch
           /\ Finished(s).want = slot[s].want /\ Finished(s).kind = slot[s].kind
           /\ Finished(s).todo = slot[s].todo
  <2>1. slot[s] \in SlotType /\ Idle \in SlotType /\ "done" \in Steps
    BY <1>1, SlotTypes, Counts DEF Steps
  <2> QED
    BY <2>1, SlotAt DEF Finished
<1>3. /\ slot' \in [Slots -> SlotType] /\ slot'[s] = Finished(s)
      /\ \A t \in Slots \ {s} : slot'[t] = slot[t]
  BY <1>1, <1>2, SlotUpdate
<1>4. /\ items' = items /\ edit' = edit /\ batches' = batches /\ page' = page
      /\ reviewed' = reviewed /\ rows' = rows /\ accepted' = accepted
      /\ confirmed' = confirmed /\ overlapped' = overlapped
  BY DEF drafting
<1>5. TypeOK'
  BY <1>1, <1>3, <1>4 DEF TypeOK
<1>6. /\ slot'[s].batch \in {slot[s].batch, NoBatch} /\ slot'[s].at \in {"idle", "done"}
      /\ \A c \in Batches : slot'[s].batch = c => slot[s].batch = c
  BY <1>2, <1>3, UpdateConstants DEF Idle
<1>7. ASSUME NEW c \in Batches, NEW r \in Recipients, Hand(s, c, r)'
      PROVE  Hand(s, c, r)
  BY <1>6, <1>7 DEF Hand
<1>8. Quiet(s, b)
  BY <1>1, <1>b, <1>3, <1>6, <1>7 DEF Quiet, Busy
<1>9. SlotInv(s)'
  <2>1. CASE call[s] = NoCalls
    <3>1. slot'[s].at = "idle" /\ slot'[s].kind = "send"
      BY <1>2, <1>3, <2>1 DEF Idle
    <3>2. \A r \in Recipients : call'[s][r] # "accepted"
      BY <1>1, <2>1, CallType
    <3> QED
      BY <1>1, <1>4, <1>7, <2>1, <3>1, <3>2 DEF SlotInv, NoCalls
  <2>2. CASE call[s] # NoCalls
    BY <1>1, <1>2, <1>3, <1>4, <1>7, <2>2 DEF SlotInv, Started, NoCalls
  <2> QED
    BY <2>1, <2>2
<1> QED
  BY <1>5, <1>8, <1>9, QuietStep

LEMMA CountStep ==
    ASSUME IInv, NEW s \in Slots, Count(s)
    PROVE  IInv'
<1>1. TypeOK /\ SlotInv(s) /\ slot[s].batch \in Batches /\ call[s] = NoCalls
  BY Active DEF IInv, Count
<1>b. PICK b \in Batches : b = slot[s].batch
  BY <1>1
<1>2. PICK v, n, step : /\ n = Cardinality(Eligible(s))
                        /\ step = IF n = 0 THEN "finalize" ELSE "claim"
                        /\ v = [slot[s] EXCEPT !.left = n, !.at = step]
  OBVIOUS
<1>3. n \in 0..Cardinality(Recipients)
  <2>1. IsFiniteSet(Recipients) /\ Eligible(s) \subseteq Recipients
    BY UpdateConstants DEF Eligible
  <2> QED
    BY <1>2, <2>1, FS_Subset, FS_CardinalityType
<1>4. step \in {"finalize", "claim"} /\ step \in Steps
  BY <1>2 DEF Steps
<1>5. /\ v \in SlotType /\ v.at = step /\ v.batch = slot[s].batch
      /\ v.want = slot[s].want /\ v.kind = slot[s].kind
  <2>1. slot[s] \in SlotType
    BY <1>1, SlotTypes
  <2> QED
    BY <1>2, <1>3, <1>4, <2>1 DEF SlotType
<1>6. slot' = [slot EXCEPT ![s] = v]
  BY <1>1, <1>2 DEF Count, TypeOK
<1>7. /\ slot' \in [Slots -> SlotType] /\ slot'[s] = v
      /\ \A t \in Slots \ {s} : slot'[t] = slot[t]
  BY <1>1, <1>5, <1>6, SlotUpdate
<1>8. /\ items' = items /\ edit' = edit /\ batches' = batches /\ page' = page
      /\ reviewed' = reviewed /\ rows' = rows /\ accepted' = accepted
      /\ confirmed' = confirmed /\ overlapped' = overlapped /\ call' = call
      /\ recent' = recent /\ sends' = sends /\ faults' = faults /\ slot[s].at = "count"
  BY DEF drafting, Count, tally
<1>9. TypeOK'
  BY <1>1, <1>7, <1>8 DEF TypeOK
<1>10. \A r \in Recipients : call[s][r] = "none"
  BY <1>1, CallType
<1>11. \A c \in Batches, r \in Recipients : ~Hand(s, c, r)'
  BY <1>4, <1>5, <1>7, <1>8, <1>10 DEF Hand
<1>12. Quiet(s, b)
  BY <1>1, <1>b, <1>5, <1>7, <1>8, <1>10, <1>11 DEF Quiet, Busy, Count
<1>13. SlotInv(s)'
  BY <1>1, <1>4, <1>5, <1>7, <1>8, <1>10, <1>11 DEF SlotInv, Started, NoCalls
<1> QED
  BY <1>9, <1>12, <1>13, QuietStep

LEMMA EndWavesStep ==
    ASSUME IInv, NEW s \in Slots, EndWaves(s)
    PROVE  IInv'
<1>1. slot[s].at = "deliver" /\ call[s] = NoCalls /\ TypeOK
  BY DEF EndWaves, WaveDone, IInv
<1>2. PICK step : step = IF slot[s].senderFailed THEN "stop"
                         ELSE IF slot[s].left > 0 THEN "claim" ELSE "finalize"
  OBVIOUS
<1>3. step \in {"stop", "claim", "finalize"} /\ step \in Steps
  BY <1>2 DEF Steps
<1>4. Goto(s, step)
  BY <1>2 DEF EndWaves
<1>5. slot[s].kind # "recovery"
  BY <1>1, Active
<1>6. /\ UNCHANGED <<drafting, rows, accepted, confirmed, overlapped>>
      /\ recent' = recent /\ call' = call /\ sends' = sends /\ faults' \in 0..MaxFaults
  BY <1>1 DEF EndWaves, tally, TypeOK
<1> QED
  BY <1>1, <1>3, <1>4, <1>5, <1>6, StepOn

LEMMA ReplyStep ==
    ASSUME IInv, NEW s \in Slots, Reply(s)
    PROVE  IInv'
<1>1. /\ UNCHANGED <<drafting, rows, accepted, confirmed, overlapped>>
      /\ recent' = recent /\ call' = call /\ sends' = sends /\ faults' \in 0..MaxFaults
      /\ slot[s].at # "idle" /\ slot' = [slot EXCEPT ![s] = Finished(s)]
  BY DEF Reply, tally, TypeOK, IInv
<1> QED
  BY <1>1, StepEnds

LEMMA DbFailsStep ==
    ASSUME IInv, NEW s \in Slots, DbFails(s)
    PROVE  IInv'
<1>1. /\ UNCHANGED <<drafting, rows, accepted, confirmed, overlapped>>
      /\ recent' = recent /\ call' = call /\ sends' = sends /\ slot[s].at # "idle"
  BY DEF DbFails
<1>2. faults' \in 0..MaxFaults
  BY UpdateConstants DEF DbFails, TypeOK, IInv
<1>3. CASE /\ slot[s].at \in {"count", "claim", "stop", "finalize", "reply"}
           /\ Goto(s, "uncertain")
  BY <1>1, <1>2, <1>3, StepOn DEF Steps
<1>4. CASE slot' = [slot EXCEPT ![s] = Finished(s)]
  BY <1>1, <1>2, <1>4, StepEnds
<1> QED
  BY <1>3, <1>4 DEF DbFails

LEMMA NextWaveStep ==
    ASSUME IInv, NEW s \in Slots, NextWave(s)
    PROVE  IInv'
<1>1. /\ TypeOK /\ SlotInv(s) /\ slot[s].at = "deliver" /\ call[s] = NoCalls
      /\ slot[s].batch \in Batches
  BY Active DEF IInv, NextWave, WaveDone
<1>2. PICK b \in Batches : b = slot[s].batch
  BY <1>1
<1>3. PICK wave \in SUBSET slot[s].todo :
         /\ slot' = [slot EXCEPT ![s].wave = wave, ![s].todo = @ \ wave]
         /\ call' = [call EXCEPT ![s] = [r \in Recipients |->
                        IF r \in wave THEN "due" ELSE "none"]]
  BY DEF NextWave
<1>4. PICK v : v = [slot[s] EXCEPT !.wave = wave, !.todo = slot[s].todo \ wave]
  OBVIOUS
<1>5. /\ v \in SlotType /\ v.at = "deliver" /\ v.batch = b /\ v.want = slot[s].want
      /\ v.kind = slot[s].kind /\ v.todo = slot[s].todo \ wave
  <2>1. slot[s] \in SlotType /\ wave \subseteq Recipients /\ slot[s].todo \subseteq Recipients
    BY <1>1, SlotTypes
  <2> QED
    BY <1>1, <1>2, <1>4, <2>1 DEF SlotType
<1>6. slot' = [slot EXCEPT ![s] = v]
  BY <1>1, <1>3, <1>4 DEF TypeOK
<1>7. /\ slot' \in [Slots -> SlotType] /\ slot'[s] = v
      /\ \A t \in Slots \ {s} : slot'[t] = slot[t]
  BY <1>1, <1>5, <1>6, SlotUpdate
<1>8. /\ call' \in [Slots -> [Recipients -> {"none", "due"} \cup Answers]]
      /\ \A r \in Recipients : call'[s][r] = IF r \in wave THEN "due" ELSE "none"
      /\ \A t \in Slots \ {s} : call'[t] = call[t]
  BY <1>1, <1>3 DEF TypeOK
<1>9. /\ items' = items /\ edit' = edit /\ batches' = batches /\ page' = page
      /\ reviewed' = reviewed /\ rows' = rows /\ accepted' = accepted
      /\ confirmed' = confirmed /\ overlapped' = overlapped
      /\ recent' = recent /\ sends' = sends /\ faults' = faults
  BY DEF drafting, NextWave, tally
<1>10. TypeOK'
  BY <1>1, <1>7, <1>8, <1>9 DEF TypeOK
<1>11. \A r \in Recipients : call[s][r] = "none"
  BY <1>1, CallType
<1>12. ASSUME NEW c \in Batches, NEW r \in Recipients, Hand(s, c, r)'
       PROVE  Hand(s, c, r)
  BY <1>1, <1>2, <1>3, <1>5, <1>7, <1>8, <1>12 DEF Hand
<1>13. Quiet(s, b)
  BY <1>1, <1>2, <1>5, <1>7, <1>8, <1>9, <1>11, <1>12 DEF Quiet, Busy, NextWave
<1>14. SlotInv(s)'
  <2>1. \A r \in Recipients : call'[s][r] # "accepted"
    BY <1>8
  <2>2. \A c \in Batches, r \in Recipients : Hand(s, c, r)' => rows'[c][r] # "absent"
    BY <1>1, <1>9, <1>12 DEF SlotInv
  <2>3. \A r \in Recipients : call'[s][r] # "none" => r \notin slot'[s].todo
    BY <1>5, <1>7, <1>8
  <2> QED
    BY <1>1, <1>2, <1>5, <1>7, <1>9, <2>1, <2>2, <2>3 DEF SlotInv, Started
<1> QED
  BY <1>10, <1>13, <1>14, QuietStep

\* A request with a call under way is delivering, or has given up or replied.
LEMMA Calling ==
    ASSUME IInv, NEW s \in Slots, NEW r \in Recipients, call[s][r] # "none"
    PROVE  /\ call[s] \in [Recipients -> {"none", "due"} \cup Answers]
           /\ slot[s].at \in {"deliver", "uncertain", "failed", "settle", "done"}
           /\ slot[s].kind # "recovery" /\ slot[s].batch \in Batches
<1>1. TypeOK /\ SlotInv(s)
  BY DEF IInv
<1>2. call[s] \in [Recipients -> {"none", "due"} \cup Answers] /\ call[s] # NoCalls
  BY <1>1, CallType
<1>3. slot[s].at \in {"deliver", "uncertain", "failed", "settle", "done"}
  BY <1>1, <1>2 DEF SlotInv
<1> QED
  BY <1>1, <1>2, <1>3 DEF SlotInv

\* The call is over.
LEMMA CallOver ==
    ASSUME TypeOK, NEW s \in Slots, NEW r \in Recipients,
           call' = [call EXCEPT ![s] = [call[s] EXCEPT ![r] = "none"]]
    PROVE  /\ call' \in [Slots -> [Recipients -> {"none", "due"} \cup Answers]]
           /\ call'[s] = [call[s] EXCEPT ![r] = "none"] /\ call'[s][r] = "none"
           /\ \A q \in Recipients \ {r} : call'[s][q] = call[s][q]
           /\ \A t \in Slots \ {s} : call'[t] = call[t]
<1>1. call \in [Slots -> [Recipients -> {"none", "due"} \cup Answers]]
  BY DEF TypeOK
<1>2. PICK calls : calls = [call[s] EXCEPT ![r] = "none"]
  OBVIOUS
<1>3. /\ calls \in [Recipients -> {"none", "due"} \cup Answers] /\ calls[r] = "none"
      /\ \A q \in Recipients \ {r} : calls[q] = call[s][q]
  BY <1>1, <1>2
<1>4. call' = [call EXCEPT ![s] = calls]
  BY <1>2
<1> QED
  BY <1>1, <1>2, <1>3, <1>4

LEMMA RecordFailsStep ==
    ASSUME IInv, NEW s \in Slots, NEW r \in Recipients, RecordFails(s, r)
    PROVE  IInv'
<1>1. TypeOK /\ SlotInv(s) /\ call[s][r] # "none"
  BY DEF IInv, RecordFails, Answered, Answers
<1>2. PICK calls, step : /\ calls = [call[s] EXCEPT ![r] = "none"]
                         /\ step = IF slot[s].at = "deliver" THEN "uncertain" ELSE slot[s].at
  OBVIOUS
<1>3. PICK v : v = AfterCall(s, calls, step, FALSE)
  OBVIOUS
<1>4. call' = [call EXCEPT ![s] = calls] /\ slot' = [slot EXCEPT ![s] = v]
  BY <1>2, <1>3 DEF RecordFails
<1>5. /\ call' \in [Slots -> [Recipients -> {"none", "due"} \cup Answers]]
      /\ call'[s] = calls /\ calls \in [Recipients -> {"none", "due"} \cup Answers]
      /\ call'[s][r] = "none"
      /\ \A q \in Recipients \ {r} : call'[s][q] = call[s][q]
      /\ \A t \in Slots \ {s} : call'[t] = call[t]
      /\ slot[s].at \in {"deliver", "uncertain", "failed", "settle", "done"}
      /\ slot[s].kind # "recovery" /\ slot[s].batch \in Batches
  <2>1. call' = [call EXCEPT ![s] = [call[s] EXCEPT ![r] = "none"]]
    BY <1>2, <1>4
  <2>2. /\ call' \in [Slots -> [Recipients -> {"none", "due"} \cup Answers]]
        /\ call'[s] = [call[s] EXCEPT ![r] = "none"] /\ call'[s][r] = "none"
        /\ \A q \in Recipients \ {r} : call'[s][q] = call[s][q]
        /\ \A t \in Slots \ {s} : call'[t] = call[t]
    BY <1>1, <2>1, CallOver
  <2>3. /\ slot[s].at \in {"deliver", "uncertain", "failed", "settle", "done"}
        /\ slot[s].kind # "recovery" /\ slot[s].batch \in Batches
    BY <1>1, Calling
  <2>4. call'[s] \in [Recipients -> {"none", "due"} \cup Answers]
    BY <2>2
  <2> QED
    BY <1>2, <2>2, <2>3, <2>4
<1>6. PICK b \in Batches : b = slot[s].batch
  BY <1>5
<1>7. step \in {"uncertain", "failed", "settle", "done"} /\ step \in Steps
  BY <1>2, <1>5 DEF Steps
<1>8. /\ v \in SlotType
      /\ \/ v = Idle /\ calls = NoCalls
         \/ /\ v.at = step /\ v.batch = b /\ v.todo = slot[s].todo
            /\ v.want = slot[s].want /\ v.kind = slot[s].kind
  <2>1. PICK f \in BOOLEAN : f = (slot[s].senderFailed \/ FALSE)
    OBVIOUS
  <2>2. v = IF step = "done" /\ calls = NoCalls THEN Idle
            ELSE [slot[s] EXCEPT !.at = step, !.senderFailed = f]
    BY <1>3, <2>1 DEF AfterCall
  <2>3. slot[s] \in SlotType /\ Idle \in SlotType
    BY <1>1, SlotTypes, Counts
  <2>4. PICK w : w = [slot[s] EXCEPT !.at = step, !.senderFailed = f]
    OBVIOUS
  <2>5. /\ w \in SlotType /\ w.at = step /\ w.batch = b /\ w.todo = slot[s].todo
        /\ w.want = slot[s].want /\ w.kind = slot[s].kind
    BY <1>6, <1>7, <2>1, <2>3, <2>4 DEF SlotType
  <2> QED
    BY <2>2, <2>3, <2>4, <2>5
<1>9. /\ slot' \in [Slots -> SlotType] /\ slot'[s] = v
      /\ \A t \in Slots \ {s} : slot'[t] = slot[t]
  BY <1>1, <1>4, <1>8, SlotUpdate
<1>10. /\ items' = items /\ edit' = edit /\ batches' = batches /\ page' = page
       /\ reviewed' = reviewed /\ rows' = rows /\ accepted' = accepted
       /\ confirmed' = confirmed /\ overlapped' = overlapped
       /\ recent' = recent /\ sends' = sends
  BY DEF drafting, RecordFails
<1>11. faults' \in 0..MaxFaults
  BY <1>1, UpdateConstants DEF RecordFails, TypeOK
<1>12. TypeOK'
  BY <1>1, <1>5, <1>9, <1>10, <1>11 DEF TypeOK
<1>13. v.at \in {"idle", "uncertain", "failed", "settle", "done"} /\ v.batch \in {b, NoBatch}
  BY <1>7, <1>8 DEF Idle
<1>14. ASSUME NEW c \in Batches, NEW q \in Recipients, Hand(s, c, q)'
       PROVE  Hand(s, c, q) /\ call'[s][q] = call[s][q]
  <2>1. slot'[s].batch = c /\ call'[s][q] # "none"
    BY <1>9, <1>13, <1>14 DEF Hand
  <2>2. c = b /\ q # r
    BY <1>5, <1>9, <1>13, <2>1, UpdateConstants
  <2> QED
    BY <1>5, <1>6, <2>1, <2>2 DEF Hand
<1>15. Quiet(s, b)
  BY <1>5, <1>6, <1>9, <1>10, <1>13, <1>14 DEF Quiet, Busy, drafting
<1>16. SlotInv(s)'
  <2>1. \A c \in Batches, q \in Recipients : Hand(s, c, q)' => rows'[c][q] # "absent"
    BY <1>1, <1>10, <1>14 DEF SlotInv
  <2>2. CASE v = Idle /\ calls = NoCalls
    <3>1. slot'[s].at = "idle" /\ slot'[s].kind = "send"
      BY <1>9, <2>2 DEF Idle
    <3>2. call'[s] = NoCalls /\ NoCalls' = NoCalls
      BY <1>5, <2>2 DEF NoCalls
    <3>3. \A q \in Recipients : call'[s][q] = "none"
      BY <3>2 DEF NoCalls
    <3> QED
      BY <2>1, <3>1, <3>2, <3>3 DEF SlotInv
  <2>3. CASE /\ v.at = step /\ v.batch = b /\ v.todo = slot[s].todo
             /\ v.want = slot[s].want /\ v.kind = slot[s].kind
    <3>1. \A q \in Recipients : call'[s][q] = "accepted" => accepted'[b][q] > 0
      BY <1>1, <1>5, <1>6, <1>10 DEF SlotInv
    <3>2. slot'[s].at = step /\ slot'[s].batch = b /\ slot'[s].want = slot[s].want
          /\ slot'[s].kind = slot[s].kind
      BY <1>9, <2>3
    <3>3. Started(b)' /\ slot[s].at # "idle"
      BY <1>1, <1>5, <1>6, <1>10 DEF SlotInv, Started
    <3>4. slot[s].want \in {{"Pending"}, {"Failed"}, {"Uncertain"}}
      BY <1>1, <1>5, <3>3 DEF SlotInv
    <3>5. \A q \in Recipients : call'[s][q] # "none" => q \notin slot'[s].todo
      BY <1>1, <1>5, <1>9, <2>3 DEF SlotInv
    <3> QED
      BY <1>5, <1>7, <2>1, <3>1, <3>2, <3>3, <3>4, <3>5 DEF SlotInv
  <2> QED
    BY <1>8, <2>2, <2>3
<1> QED
  BY <1>12, <1>15, <1>16, QuietStep

LEMMA CrashStep ==
    ASSUME IInv, NEW s \in Slots, Crash(s)
    PROVE  IInv'
<1>1. TypeOK /\ SlotInv(s) /\ slot[s].at # "idle" /\ slot[s].batch \in Batches
  BY Active DEF IInv, Crash, Running
<1>2. PICK b \in Batches : b = slot[s].batch
  BY <1>1
<1>3. /\ slot' \in [Slots -> SlotType] /\ slot'[s] = Idle
      /\ \A t \in Slots \ {s} : slot'[t] = slot[t]
  BY <1>1, SlotUpdate, Counts DEF Crash
<1>4. /\ call' \in [Slots -> [Recipients -> {"none", "due"} \cup Answers]]
      /\ call'[s] = NoCalls /\ \A t \in Slots \ {s} : call'[t] = call[t]
  BY <1>1 DEF Crash, TypeOK, NoCalls
<1>5. /\ items' = items /\ edit' = edit /\ batches' = batches /\ page' = page
      /\ reviewed' = reviewed /\ rows' = rows /\ accepted' = accepted
      /\ confirmed' = confirmed /\ overlapped' = overlapped
      /\ recent' = recent /\ sends' = sends
  BY DEF drafting, Crash
<1>6. faults' \in 0..MaxFaults
  BY <1>1, UpdateConstants DEF Crash, TypeOK
<1>7. TypeOK'
  BY <1>1, <1>3, <1>4, <1>5, <1>6 DEF TypeOK
<1>8. slot'[s].at = "idle" /\ slot'[s].batch = NoBatch /\ slot'[s].kind = "send"
  BY <1>3 DEF Idle
<1>9. \A c \in Batches, r \in Recipients : ~Hand(s, c, r)'
  BY <1>8, UpdateConstants DEF Hand
<1>10. Quiet(s, b)
  BY <1>2, <1>3, <1>4, <1>5, <1>8, <1>9 DEF Quiet, Busy, drafting
<1>11. SlotInv(s)'
  <2>1. \A r \in Recipients : call'[s][r] = "none"
    BY <1>4 DEF NoCalls
  <2>2. call'[s] = NoCalls /\ NoCalls' = NoCalls
    BY <1>4 DEF NoCalls
  <2> QED
    BY <1>8, <1>9, <2>1, <2>2 DEF SlotInv
<1> QED
  BY <1>7, <1>10, <1>11, QuietStep

\* A request begins.
LEMMA Begun ==
    ASSUME IInv, NEW s \in Slots, NEW b \in Batches,
           NEW kind \in {"send", "retry", "recovery"}, NEW step \in Steps \ {"idle"},
           NEW want \in SUBSET {"Pending", "Failed", "Uncertain"},
           Begin(s, b, kind, step, want), call' = call
    PROVE  /\ slot' \in [Slots -> SlotType] /\ slot'[s].at = step /\ slot'[s].batch = b
           /\ slot'[s].kind = kind /\ slot'[s].want = want /\ slot'[s].todo = {}
           /\ \A t \in Slots \ {s} : slot'[t] = slot[t]
           /\ slot[s].at = "idle" /\ slot[s].batch = NoBatch
           /\ call[s] = NoCalls /\ \A r \in Recipients : call[s][r] = "none"
           /\ \A c \in Batches, r \in Recipients : ~Hand(s, c, r) /\ ~Hand(s, c, r)'
           /\ \A c \in Batches : ~Busy(s, c)
           /\ sends' \in 0..MaxSends
<1>1. TypeOK /\ SlotInv(s)
  BY DEF IInv
<1>2. slot[s].at = "idle" /\ slot[s].batch = NoBatch
  BY DEF Begin, Idle
<1>3. call[s] = NoCalls
  BY <1>1, <1>2 DEF SlotInv
<1>4. \A r \in Recipients : call[s][r] = "none"
  BY <1>1, <1>3, CallType
<1>5. PICK v : v = [Idle EXCEPT !.at = step, !.kind = kind, !.batch = b, !.want = want]
  OBVIOUS
<1>6. /\ v \in SlotType /\ v.at = step /\ v.batch = b /\ v.kind = kind /\ v.want = want
      /\ v.todo = {}
  <2>1. Idle \in SlotType /\ Idle.todo = {}
    BY Counts DEF Idle
  <2> QED
    BY <1>5, <2>1 DEF SlotType
<1>7. /\ slot' \in [Slots -> SlotType] /\ slot'[s] = v
      /\ \A t \in Slots \ {s} : slot'[t] = slot[t]
  BY <1>1, <1>5, <1>6, SlotUpdate DEF Begin
<1>8. sends' \in 0..MaxSends
  BY <1>1, UpdateConstants DEF Begin, TypeOK
<1>9. \A c \in Batches, r \in Recipients : ~Hand(s, c, r) /\ ~Hand(s, c, r)'
  BY <1>2, <1>4, <1>6, <1>7, UpdateConstants DEF Hand
<1>10. \A c \in Batches : ~Busy(s, c)
  BY <1>2 DEF Busy
<1> QED
  BY <1>2, <1>3, <1>4, <1>6, <1>7, <1>8, <1>9, <1>10

\* A retry, or a recovery, changes nothing before its first statement.
LEMMA BegunStep ==
    ASSUME IInv, NEW s \in Slots, NEW b \in Batches, Started(b),
           NEW kind \in {"retry", "recovery"}, NEW step \in {"restart", "uncertain"},
           NEW want \in SUBSET {"Pending", "Failed", "Uncertain"},
           kind = "recovery" => step = "uncertain",
           kind # "recovery" => want \in {{"Failed"}, {"Uncertain"}},
           Begin(s, b, kind, step, want),
           UNCHANGED <<drafting, rows, recent, call, accepted, confirmed, overlapped, faults>>
    PROVE  IInv'
<1>1. TypeOK /\ SlotInv(s)
  BY DEF IInv
<1>2. step \in Steps \ {"idle"}
  BY DEF Steps
<1>3. /\ items' = items /\ edit' = edit /\ batches' = batches /\ page' = page
      /\ reviewed' = reviewed /\ rows' = rows /\ accepted' = accepted
      /\ confirmed' = confirmed /\ overlapped' = overlapped
      /\ recent' = recent /\ faults' = faults /\ call' = call
  BY DEF drafting
<1>4. /\ slot' \in [Slots -> SlotType] /\ slot'[s].at = step /\ slot'[s].batch = b
      /\ slot'[s].kind = kind /\ slot'[s].want = want
      /\ \A t \in Slots \ {s} : slot'[t] = slot[t]
      /\ slot[s].batch = NoBatch
      /\ call[s] = NoCalls /\ \A r \in Recipients : call[s][r] = "none"
      /\ \A c \in Batches, r \in Recipients : ~Hand(s, c, r)'
      /\ sends' \in 0..MaxSends
  BY <1>2, <1>3, Begun
<1>5. TypeOK'
  BY <1>1, <1>3, <1>4 DEF TypeOK
<1>6. Quiet(s, b)
  BY <1>3, <1>4 DEF Quiet, Busy, drafting
<1>7. SlotInv(s)'
  <2>1. Started(b)' /\ call'[s] = NoCalls /\ NoCalls' = NoCalls
    BY <1>3, <1>4 DEF Started, NoCalls
  <2> QED
    BY <1>3, <1>4, <2>1 DEF SlotInv
<1> QED
  BY <1>5, <1>6, <1>7, QuietStep

LEMMA RetryStep ==
    ASSUME IInv, NEW s \in Slots, NEW b \in Batches, NEW status \in {"Failed", "Uncertain"},
           Retry(s, b, status)
    PROVE  IInv'
<1>1. /\ Started(b) /\ Begin(s, b, "retry", "restart", {status})
      /\ UNCHANGED <<drafting, rows, recent, call, accepted, confirmed, overlapped, faults>>
  BY DEF Retry, Started
<1> QED
  BY <1>1, BegunStep

LEMMA RecoverStep ==
    ASSUME IInv, NEW s \in Slots, NEW b \in Batches, Recover(s, b)
    PROVE  IInv'
<1>1. /\ Started(b) /\ Begin(s, b, "recovery", "uncertain", {})
      /\ UNCHANGED <<drafting, rows, recent, call, accepted, confirmed, overlapped, faults>>
  BY DEF Recover, Started
<1> QED
  BY <1>1, BegunStep

-----------------------------------------------------------------------------
(* Starting, claiming and submitting *)

LEMMA NotEdited ==
    ASSUME IInv, items' = items, edit' = edit, page' = page,
           \A b \in Batches : Saved(b)' = Saved(b)
    PROVE  EditInv' /\ PageInv'
  BY DEF IInv, EditInv, PageInv, Unchanged, MayEdit, Free

LEMMA SlotKept ==
    ASSUME NEW t \in Slots, slot'[t] = slot[t], call'[t] = call[t]
    PROVE  \A b \in Batches : /\ Busy(t, b)' = Busy(t, b)
                              /\ \A r \in Recipients : Hand(t, b, r)' = Hand(t, b, r)
  BY DEF Busy, Hand

LEMMA AgeStep ==
    ASSUME IInv, NEW b \in Batches, Age(b)
    PROVE  IInv'
<1>1. /\ items' = items /\ edit' = edit /\ batches' = batches /\ page' = page
      /\ reviewed' = reviewed /\ rows' = rows /\ accepted' = accepted
      /\ confirmed' = confirmed /\ overlapped' = overlapped
      /\ slot' = slot /\ call' = call /\ sends' = sends /\ faults' = faults
      /\ recent' = recent \ {b}
  BY DEF drafting, Age, tally
<1>2. TypeOK'
  BY <1>1 DEF TypeOK, IInv
<1>3. \A c \in Batches : Started(c)' = Started(c) /\ Saved(c)' = Saved(c)
  BY <1>1 DEF Started, Saved
<1>4. EditInv' /\ PageInv'
  BY <1>1, <1>3, NotEdited
<1> QED
  BY <1>1, <1>2, <1>3, <1>4, DraftFrame

LEMMA SendStep ==
    ASSUME IInv, NEW s \in Slots, NEW b \in Batches, Send(s, b)
    PROVE  IInv'
<1>1. /\ TypeOK /\ EditInv /\ PageInv /\ FrozenInv(b) /\ RecipientInv(b) /\ SlotInv(s)
      /\ \A t \in Slots : SlotInv(t)
  BY DEF IInv
<1>2. /\ batches[b].status = "Draft" /\ page.batch = b
      /\ page.content.rev = Saved(b).rev
      /\ \A i \in InDraft(b) : items[i].status = "Pending" /\ items[i].batch = b
      /\ \A r \in Recipients : rows[b][r] = "absent"
  BY DEF Send, Startable
<1>3. /\ items' = items /\ edit' = edit /\ call' = call /\ accepted' = accepted
      /\ confirmed' = confirmed /\ overlapped' = overlapped /\ faults' = faults
      /\ recent' = recent \cup {b} /\ page' = NoPage
      /\ batches' = [batches EXCEPT ![b].status = "Sending"]
      /\ reviewed' = [reviewed EXCEPT ![b] = page.content]
      /\ rows' = [rows EXCEPT ![b] = [r \in Recipients |->
                    IF r \in Saved(b).to THEN "Pending" ELSE "absent"]]
  BY DEF Send
<1>4. /\ slot' \in [Slots -> SlotType] /\ slot'[s].at = "count" /\ slot'[s].batch = b
      /\ slot'[s].kind = "send" /\ slot'[s].want = {"Pending"}
      /\ \A t \in Slots \ {s} : slot'[t] = slot[t]
      /\ slot[s].batch = NoBatch /\ call[s] = NoCalls
      /\ \A r \in Recipients : call[s][r] = "none"
      /\ \A c \in Batches, r \in Recipients : ~Hand(s, c, r)'
      /\ sends' \in 0..MaxSends
  <2>1. "count" \in Steps \ {"idle"}
    BY DEF Steps
  <2>2. Begin(s, b, "send", "count", {"Pending"})
    BY DEF Send
  <2> QED
    BY <1>3, <2>1, <2>2, Begun
<1>5. /\ batches' \in [Batches -> [status: BatchStatuses, content: Content]]
      /\ batches'[b].status = "Sending" /\ batches'[b].content = batches[b].content
      /\ \A c \in Batches \ {b} : batches'[c] = batches[c]
  BY <1>1, <1>3, StatusUpdate DEF BatchStatuses
<1>6. /\ rows' \in [Batches -> [Recipients -> RowStatuses]]
      /\ \A c \in Batches \ {b} : rows'[c] = rows[c]
      /\ \A r \in Recipients : rows'[b][r] = IF r \in Saved(b).to THEN "Pending" ELSE "absent"
  <2>1. [r \in Recipients |-> IF r \in Saved(b).to THEN "Pending" ELSE "absent"]
          \in [Recipients -> RowStatuses]
    BY DEF RowStatuses
  <2> QED
    BY <1>1, <1>3, <2>1 DEF TypeOK
<1>7. /\ reviewed' \in [Batches -> Content] /\ reviewed'[b] = page.content
      /\ \A c \in Batches \ {b} : reviewed'[c] = reviewed[c]
  <2>1. page.content \in Content /\ reviewed \in [Batches -> Content]
    BY <1>1 DEF TypeOK
  <2> QED
    BY <1>3, <2>1
<1>8. page' \in [batch: Batches \cup {NoBatch}, content: Content] /\ page'.batch = NoBatch
  BY <1>3, Counts DEF NoPage
<1>9. TypeOK'
  BY <1>1, <1>3, <1>4, <1>5, <1>6, <1>7, <1>8 DEF TypeOK
<1>10. \A c \in Batches : Saved(c)' = Saved(c)
  BY <1>5 DEF Saved
<1>11. EditInv'
  BY <1>1, <1>3 DEF EditInv, Unchanged, MayEdit, Free
<1>12. PageInv'
  BY <1>8, UpdateConstants DEF PageInv
<1>13. /\ Started(b)' /\ ~Started(b) /\ InDraft(b)' = InDraft(b)
       /\ \A r \in Recipients : ~(accepted[b][r] > 0)
  BY <1>1, <1>2, <1>5 DEF Started, InDraft, RecipientInv
<1>14. Works(s, b)
  BY <1>2, <1>3, <1>4, <1>5, <1>6, <1>7, <1>13 DEF Works
<1>15. FrozenInv(b)'
  <2>1. reviewed'[b] = Saved(b)'
    BY <1>1, <1>2, <1>7, <1>10 DEF PageInv
  <2> QED
    BY <1>2, <1>3, <1>13, <2>1 DEF FrozenInv
<1>16. RecipientInv(b)'
  BY <1>3, <1>5, <1>6, <1>10, <1>13 DEF RecipientInv
<1>17. ASSUME NEW t \in Slots
       PROVE  (Busy(t, b)' => t = s) /\ \A r \in Recipients : ~Hand(t, b, r)'
  <2>1. CASE t = s
    BY <1>4, <2>1
  <2>2. CASE t # s
    <3>1. slot'[t] = slot[t] /\ call'[t] = call[t] /\ SlotInv(t)
      BY <1>1, <1>3, <1>4, <2>2
    <3>2. ~Busy(t, b)
      BY <1>13, <3>1 DEF Busy, SlotInv
    <3>3. \A r \in Recipients : ~Hand(t, b, r)
      BY <1>2, <3>1 DEF SlotInv
    <3> QED
      BY <3>1, <3>2, <3>3, SlotKept
  <2> QED
    BY <2>1, <2>2
<1>18. BatchInv(b)'
  BY <1>5, <1>17 DEF BatchInv
<1>19. ASSUME NEW r \in Recipients PROVE RowInv(b, r)'
  <2>1. accepted'[b][r] = 0 /\ rows'[b][r] # "Sending"
    <3>1. accepted[b][r] \in Nat
      BY <1>1 DEF TypeOK
    <3> QED
      BY <1>3, <1>6, <1>13, <3>1
  <2> QED
    BY <1>17, <2>1 DEF RowInv
<1>20. SlotInv(s)'
  <2>1. NoCalls' = NoCalls /\ call'[s] = NoCalls
    BY <1>3, <1>4 DEF NoCalls
  <2> QED
    BY <1>3, <1>4, <1>13, <2>1 DEF SlotInv
<1> QED
  BY <1>9, <1>11, <1>12, <1>14, <1>15, <1>16, <1>18, <1>19, <1>20, OneBatch

LEMMA RestartStep ==
    ASSUME IInv, NEW s \in Slots, Restart(s)
    PROVE  IInv'
<1>1. TypeOK /\ SlotInv(s) /\ slot[s].at = "restart" /\ call[s] = NoCalls
  BY Active DEF IInv, Restart
<1>2. PICK b \in Batches : b = slot[s].batch
  BY <1>1, Active
<1>3. /\ items' = items /\ edit' = edit /\ page' = page /\ reviewed' = reviewed
      /\ rows' = rows /\ accepted' = accepted /\ confirmed' = confirmed
      /\ overlapped' = overlapped /\ recent' = recent /\ call' = call
      /\ sends' = sends /\ faults' = faults
  BY DEF Restart, history, tally
<1>4. CASE batches[b].status # "PartialFailure"
  <2>1. slot' = [slot EXCEPT ![s] = Finished(s)] /\ batches' = batches
    BY <1>1, <1>2, <1>4 DEF Restart, Finished
  <2>2. faults' \in 0..MaxFaults
    BY <1>1, <1>3 DEF TypeOK
  <2> QED
    BY <1>1, <1>3, <2>1, <2>2, StepEnds DEF drafting
<1>5. CASE batches[b].status = "PartialFailure"
  <2>1. FrozenInv(b) /\ RecipientInv(b) /\ BatchInv(b) /\ \A r \in Recipients : RowInv(b, r)
    BY DEF IInv
  <2>2. batches' = [batches EXCEPT ![b].status = "Sending"] /\ Goto(s, "count")
    BY <1>2, <1>5 DEF Restart
  <2>3. /\ batches' \in [Batches -> [status: BatchStatuses, content: Content]]
        /\ batches'[b].status = "Sending" /\ batches'[b].content = batches[b].content
        /\ \A c \in Batches \ {b} : batches'[c] = batches[c]
    BY <1>1, <2>2, StatusUpdate DEF BatchStatuses
  <2>4. /\ slot' \in [Slots -> SlotType] /\ slot'[s].at = "count" /\ slot'[s].batch = b
        /\ slot'[s].want = slot[s].want /\ slot'[s].kind = slot[s].kind
        /\ slot'[s].todo = slot[s].todo
        /\ \A t \in Slots \ {s} : slot'[t] = slot[t]
    BY <1>1, <1>2, <2>2, StepUpdate DEF Steps
  <2>5. TypeOK'
    BY <1>1, <1>3, <2>3, <2>4 DEF TypeOK
  <2>6. /\ \A c \in Batches : Saved(c)' = Saved(c)
        /\ Started(b)' /\ Started(b) /\ InDraft(b)' = InDraft(b)
    BY <1>5, <2>3 DEF Saved, Started, InDraft
  <2>7. EditInv' /\ PageInv'
    BY <1>3, <2>6, NotEdited
  <2>8. Works(s, b)
    BY <1>2, <1>3, <2>3, <2>4, <2>6 DEF Works
  <2>9. FrozenInv(b)'
    BY <1>3, <2>1, <2>6 DEF FrozenInv
  <2>10. RecipientInv(b)'
    BY <1>3, <2>1, <2>3, <2>6 DEF RecipientInv
  <2>11. /\ \A r \in Recipients : call[s][r] = "none"
         /\ \A c \in Batches, r \in Recipients : ~Hand(s, c, r)'
    BY <1>1, <1>3, <2>4, CallType DEF Hand
  <2>12. ASSUME NEW t \in Slots \ {s}
         PROVE  /\ Busy(t, b)' = Busy(t, b) /\ call'[t] = call[t]
                /\ \A r \in Recipients : Hand(t, b, r)' = Hand(t, b, r)
    BY <1>3, <2>4, SlotKept
  <2>13. BatchInv(b)'
    BY <1>3, <1>5, <2>1, <2>3, <2>12 DEF BatchInv
  <2>14. ASSUME NEW r \in Recipients PROVE RowInv(b, r)'
    <3>1. RowInv(b, r) /\ (b \notin overlapped => rows[b][r] # "Sending")
      BY <1>5, <2>1 DEF BatchInv
    <3> QED
      BY <1>3, <2>11, <2>12, <3>1 DEF RowInv
  <2>15. SlotInv(s)'
    <3>1. NoCalls' = NoCalls /\ call'[s] = NoCalls /\ slot[s].kind # "recovery"
      BY <1>1, <1>3, Active DEF NoCalls
    <3> QED
      BY <1>1, <1>3, <2>4, <2>6, <2>11, <3>1 DEF SlotInv
  <2> QED
    BY <2>5, <2>7, <2>8, <2>9, <2>10, <2>13, <2>14, <2>15, OneBatch
<1> QED
  BY <1>4, <1>5

\* What the claim leaves of the request.
LEMMA ClaimedSlot ==
    ASSUME IInv, NEW s \in Slots, Claim(s)
    PROVE  /\ slot' \in [Slots -> SlotType] /\ slot'[s].at \in {"finalize", "deliver"}
           /\ slot'[s].batch = slot[s].batch /\ slot'[s].todo = Eligible(s)
           /\ slot'[s].want = slot[s].want /\ slot'[s].kind = slot[s].kind
           /\ \A t \in Slots \ {s} : slot'[t] = slot[t]
<1>1. TypeOK
  BY DEF IInv
<1>2. PICK n : n = Cardinality(Eligible(s))
  OBVIOUS
<1>3. PICK at, left, v :
         /\ at = IF n = 0 THEN "finalize" ELSE "deliver"
         /\ left = IF n > slot[s].left THEN 0 ELSE slot[s].left - n
         /\ v = [slot[s] EXCEPT !.at = at, !.todo = Eligible(s), !.wave = {}, !.left = left]
  OBVIOUS
<1>4. left \in 0..Cardinality(Recipients)
  <2>1. IsFiniteSet(Recipients) /\ Eligible(s) \subseteq Recipients
    BY UpdateConstants DEF Eligible
  <2>2. n \in Nat /\ Cardinality(Recipients) \in Nat
    BY <1>2, <2>1, FS_Subset, FS_CardinalityType
  <2>3. slot[s].left \in 0..Cardinality(Recipients)
    BY <1>1, SlotTypes
  <2> QED
    BY <1>3, <2>2, <2>3
<1>5. at \in {"finalize", "deliver"} /\ at \in Steps
  BY <1>3 DEF Steps
<1>6. slot[s] \in SlotType /\ Eligible(s) \subseteq Recipients
  BY <1>1, SlotTypes DEF Eligible
<1>7. /\ v \in SlotType /\ v.at = at /\ v.batch = slot[s].batch /\ v.todo = Eligible(s)
      /\ v.want = slot[s].want /\ v.kind = slot[s].kind
  BY <1>3, <1>4, <1>5, <1>6 DEF SlotType
<1>8. slot' = [slot EXCEPT ![s] = v]
  BY <1>1, <1>2, <1>3 DEF Claim, TypeOK
<1> QED
  BY <1>1, <1>5, <1>7, <1>8, SlotUpdate

LEMMA ClaimStep ==
    ASSUME IInv, NEW s \in Slots, Claim(s)
    PROVE  IInv'
<1>1. TypeOK /\ SlotInv(s) /\ slot[s].at = "claim" /\ call[s] = NoCalls
  BY Active DEF IInv, Claim
<1>2. PICK b \in Batches : b = slot[s].batch
  BY <1>1, Active
<1>3. PICK claimed \in SUBSET Recipients : claimed = Eligible(s)
  BY DEF Eligible
<1>4. /\ FrozenInv(b) /\ RecipientInv(b) /\ BatchInv(b) /\ Started(b)
      /\ \A r \in Recipients : RowInv(b, r)
  BY <1>1, <1>2, Active DEF IInv
<1>5. /\ items' = items /\ edit' = edit /\ page' = page /\ reviewed' = reviewed
      /\ batches' = batches /\ accepted' = accepted /\ overlapped' = overlapped
      /\ recent' = recent /\ call' = call /\ sends' = sends /\ faults' = faults
  BY DEF Claim, drafting, tally
<1>6. /\ rows' \in [Batches -> [Recipients -> RowStatuses]]
      /\ \A c \in Batches \ {b} : rows'[c] = rows[c]
      /\ \A r \in Recipients : rows'[b][r] = IF r \in claimed THEN "Sending" ELSE rows[b][r]
  <2>1. rows' = [rows EXCEPT ![b] = [r \in Recipients |->
                    IF r \in claimed THEN "Sending" ELSE rows[b][r]]]
    BY <1>2, <1>3 DEF Claim
  <2> QED
    BY <1>1, <2>1 DEF TypeOK, RowStatuses
<1>7. /\ confirmed' \in [Batches -> [Recipients -> Nat]]
      /\ \A c \in Batches \ {b} : confirmed'[c] = confirmed[c]
      /\ \A r \in Recipients :
           confirmed'[b][r] = IF r \in claimed /\ slot[s].want = {"Uncertain"}
                              THEN confirmed[b][r] + 1 ELSE confirmed[b][r]
  <2>1. confirmed' = [confirmed EXCEPT ![b] = [r \in Recipients |->
                         IF r \in claimed /\ slot[s].want = {"Uncertain"}
                         THEN confirmed[b][r] + 1 ELSE confirmed[b][r]]]
    BY <1>2, <1>3 DEF Claim
  <2> QED
    BY <1>1, <2>1 DEF TypeOK
<1>8. /\ slot' \in [Slots -> SlotType] /\ slot'[s].at \in {"finalize", "deliver"}
      /\ slot'[s].batch = b /\ slot'[s].todo = claimed
      /\ slot'[s].want = slot[s].want /\ slot'[s].kind = slot[s].kind
      /\ \A t \in Slots \ {s} : slot'[t] = slot[t]
  BY <1>2, <1>3, ClaimedSlot
<1>9. TypeOK'
  BY <1>1, <1>5, <1>6, <1>7, <1>8 DEF TypeOK
<1>10. /\ EditInv' /\ PageInv' /\ Started(b)' /\ Saved(b)' = Saved(b)
       /\ InDraft(b)' = InDraft(b)
  BY <1>4, <1>5, NotEdited DEF Started, Saved, InDraft
<1>11. /\ \A r \in Recipients : call[s][r] = "none"
       /\ \A r \in Recipients : Hand(s, b, r)' => r \in claimed
       /\ \A c \in Batches \ {b}, r \in Recipients : ~Hand(s, c, r)'
       /\ Busy(s, b)
  BY <1>1, <1>2, <1>5, <1>8, CallType DEF Hand, Busy
<1>12. slot[s].want \in {{"Pending"}, {"Failed"}, {"Uncertain"}} /\ slot[s].kind # "recovery"
  BY <1>1, Active DEF SlotInv
<1>13. ASSUME NEW r \in claimed
       PROVE  /\ slot[s].want = {rows[b][r]} /\ rows[b][r] \in {"Pending", "Failed", "Uncertain"}
              /\ r \in Recipients
  BY <1>2, <1>3, <1>12 DEF Eligible
<1>14. Works(s, b)
  BY <1>2, <1>5, <1>6, <1>7, <1>8, <1>10 DEF Works
<1>15. FrozenInv(b)'
  BY <1>4, <1>5, <1>10 DEF FrozenInv
<1>16. RecipientInv(b)'
  <2>1. \A r \in Recipients : /\ rows'[b][r] # "absent" => rows[b][r] # "absent"
                              /\ rows[b][r] # "absent" => rows'[b][r] # "absent"
                              /\ rows'[b][r] = "Sent" => rows[b][r] = "Sent"
    BY <1>6, <1>13
  <2>2. Rows(b)' = Rows(b)
    BY <2>1 DEF Rows
  <2>3. batches[b].status = "Sent" => \A r \in Rows(b) : rows'[b][r] = "Sent"
    BY <1>4, <1>6, <1>13 DEF RecipientInv, Rows
  <2> QED
    BY <1>4, <1>5, <1>10, <2>1, <2>2, <2>3 DEF RecipientInv
<1>17. ASSUME NEW t \in Slots \ {s}
       PROVE  /\ Busy(t, b)' = Busy(t, b) /\ call'[t] = call[t]
              /\ \A r \in Recipients : Hand(t, b, r)' = Hand(t, b, r)
  BY <1>5, <1>8, SlotKept
<1>18. BatchInv(b)'
  BY <1>4, <1>5, <1>11, <1>17 DEF BatchInv
<1>19. ASSUME NEW r \in Recipients PROVE RowInv(b, r)'
  <2>1. SUFFICES ASSUME b \notin overlapped, confirmed'[b][r] = 0 PROVE RowInv(b, r)'
    BY <1>5 DEF RowInv
  <2>2. RowInv(b, r) /\ confirmed[b][r] \in Nat
    BY <1>1, <1>4 DEF TypeOK
  <2>3. CASE r \in claimed
    <3>1. rows[b][r] \in {"Pending", "Failed"} /\ confirmed[b][r] = 0
      <4>1. slot[s].want # {"Uncertain"} /\ confirmed[b][r] = 0
        BY <1>7, <2>1, <2>2, <2>3
      <4> QED
        BY <1>13, <2>3, <4>1
    <3>2. /\ \A t \in Slots \ {s} : ~Hand(t, b, r)'
          /\ accepted'[b][r] = 0
      BY <1>5, <1>17, <2>1, <2>2, <3>1 DEF RowInv
    <3>3. \A t \in Slots \ {s} : ~Busy(t, b)'
      BY <1>4, <1>11, <1>17, <2>1 DEF BatchInv
    <3>4. rows'[b][r] = "Sending"
      BY <1>6, <2>3
    <3> QED
      BY <3>2, <3>3, <3>4 DEF RowInv
  <2>4. CASE r \notin claimed
    <3>1. rows'[b][r] = rows[b][r] /\ confirmed[b][r] = 0 /\ ~Hand(s, b, r)'
      BY <1>6, <1>7, <1>11, <2>1, <2>4
    <3> QED
      BY <1>5, <1>11, <1>17, <2>1, <2>2, <3>1 DEF RowInv
  <2> QED
    BY <2>3, <2>4
<1>20. SlotInv(s)'
  <2>1. NoCalls' = NoCalls /\ call'[s] = NoCalls
    BY <1>1, <1>5 DEF NoCalls
  <2>2. \A c \in Batches, r \in Recipients : Hand(s, c, r)' => rows'[c][r] # "absent"
    BY <1>6, <1>11
  <2> QED
    BY <1>5, <1>8, <1>10, <1>11, <1>12, <2>1, <2>2 DEF SlotInv
<1> QED
  BY <1>9, <1>10, <1>14, <1>15, <1>16, <1>18, <1>19, <1>20, OneBatch

LEMMA PostStep ==
    ASSUME IInv, NEW s \in Slots, NEW r \in Recipients, Post(s, r)
    PROVE  IInv'
<1>1. TypeOK /\ SlotInv(s) /\ call[s][r] = "due" /\ call[s] # NoCalls
  BY CallType DEF IInv, Post
<1>2. slot[s].at # "idle" /\ slot[s].kind # "recovery"
  BY <1>1 DEF SlotInv
<1>3. PICK b \in Batches : b = slot[s].batch
  BY <1>2, Active
<1>4. /\ FrozenInv(b) /\ RecipientInv(b) /\ BatchInv(b) /\ Started(b)
      /\ \A q \in Recipients : RowInv(b, q)
  BY <1>2, <1>3, Active DEF IInv
<1>5. PICK answer \in Answers, taken \in BOOLEAN :
         /\ answer = "accepted" => taken
         /\ answer \in {"rejected", "senderFailure"} => ~taken
         /\ call' = [call EXCEPT ![s][r] = answer]
         /\ accepted' = IF taken THEN [accepted EXCEPT ![slot[s].batch][r] = @ + 1]
                        ELSE accepted
  BY DEF Post
<1>6. /\ items' = items /\ edit' = edit /\ page' = page /\ reviewed' = reviewed
      /\ batches' = batches /\ rows' = rows /\ overlapped' = overlapped
      /\ confirmed' = confirmed /\ slot' = slot
      /\ recent' = recent /\ sends' = sends /\ faults' = faults
  BY DEF Post, drafting, tally
<1>7. /\ call' \in [Slots -> [Recipients -> {"none", "due"} \cup Answers]]
      /\ call'[s][r] = answer
      /\ \A q \in Recipients \ {r} : call'[s][q] = call[s][q]
      /\ \A t \in Slots \ {s} : call'[t] = call[t]
  BY <1>1, <1>5 DEF TypeOK
<1>8. /\ accepted' \in [Batches -> [Recipients -> Nat]]
      /\ accepted'[b][r] = IF taken THEN accepted[b][r] + 1 ELSE accepted[b][r]
      /\ \A q \in Recipients \ {r} : accepted'[b][q] = accepted[b][q]
      /\ \A c \in Batches \ {b} : accepted'[c] = accepted[c]
  <2>1. accepted \in [Batches -> [Recipients -> Nat]]
    BY <1>1 DEF TypeOK
  <2>2. CASE taken
    BY <1>3, <1>5, <2>1, <2>2
  <2>3. CASE ~taken
    BY <1>5, <2>1, <2>3
  <2> QED
    BY <2>2, <2>3
<1>9. TypeOK'
  BY <1>1, <1>6, <1>7, <1>8 DEF TypeOK
<1>10. /\ EditInv' /\ PageInv' /\ Started(b)' /\ Saved(b)' = Saved(b)
       /\ InDraft(b)' = InDraft(b) /\ Rows(b)' = Rows(b)
  BY <1>4, <1>6, NotEdited DEF Started, Saved, InDraft, Rows
<1>11. \A q \in Recipients : accepted[b][q] \in Nat
  BY <1>1 DEF TypeOK
<1>12. Works(s, b)
  BY <1>3, <1>6, <1>7, <1>8, <1>10, <1>11 DEF Works
<1>13. FrozenInv(b)'
  BY <1>4, <1>6, <1>10 DEF FrozenInv
<1>14. Hand(s, b, r) /\ rows[b][r] # "absent" /\ answer # "none" /\ answer # "due"
  BY <1>1, <1>3, <1>5 DEF Hand, SlotInv, Answers
<1>15. RecipientInv(b)'
  <2>1. \A q \in Recipients : /\ accepted'[b][q] > 0 => rows'[b][q] # "absent"
                              /\ rows'[b][q] = "Sent" => accepted'[b][q] > 0
    BY <1>4, <1>6, <1>8, <1>11, <1>14 DEF RecipientInv
  <2> QED
    BY <1>4, <1>6, <1>10, <2>1 DEF RecipientInv
<1>16. \A c \in Batches, q \in Recipients : Hand(s, c, q)' = Hand(s, c, q)
  BY <1>1, <1>6, <1>7, <1>14 DEF Hand
<1>17. \A t \in Slots : /\ Busy(t, b)' = Busy(t, b)
                        /\ \A q \in Recipients : Hand(t, b, q)' = Hand(t, b, q)
  BY <1>6, <1>7, <1>16 DEF Busy, Hand
<1>18. BatchInv(b)'
  BY <1>4, <1>6, <1>17 DEF BatchInv
<1>19. ASSUME NEW q \in Recipients PROVE RowInv(b, q)'
  <2>1. CASE q # r
    <3>1. /\ accepted'[b][q] = accepted[b][q] /\ RowInv(b, q)
          /\ \A t \in Slots : call'[t][q] = call[t][q]
      BY <1>4, <1>7, <1>8, <2>1
    <3> QED
      BY <1>6, <1>17, <3>1 DEF RowInv
  <2>2. CASE q = r
    <3>1. SUFFICES ASSUME b \notin overlapped, confirmed[b][r] = 0 PROVE RowInv(b, r)'
      BY <1>6, <2>2 DEF RowInv
    <3>2. RowInv(b, r)
      BY <1>4
    <3>3. /\ \A t \in Slots : Hand(t, b, r) => t = s
          /\ rows[b][r] \notin {"Pending", "Failed"}
          /\ accepted[b][r] = 0
          /\ \A t \in Slots : Busy(t, b) /\ rows[b][r] = "Sending" => t = s
      BY <1>1, <1>14, <3>1, <3>2 DEF RowInv
    <3>4. call'[s][r] \in {"accepted", "uncertain"} \/ accepted'[b][r] = 0
      BY <1>5, <1>7, <1>8, <3>3 DEF Answers
    <3> QED
      BY <1>6, <1>17, <3>3, <3>4 DEF RowInv
  <2> QED
    BY <2>1, <2>2
<1>20. SlotInv(s)'
  <2>1. \A c \in Batches, q \in Recipients : Hand(s, c, q)' => rows'[c][q] # "absent"
    BY <1>1, <1>6, <1>16 DEF SlotInv
  <2>2. ASSUME NEW q \in Recipients, call'[s][q] = "accepted" PROVE accepted'[b][q] > 0
    <3>1. CASE q = r
      <4>1. answer = "accepted"
        BY <1>7, <2>2, <3>1
      <4> QED
        BY <1>5, <1>8, <1>11, <3>1, <4>1
    <3>2. CASE q # r
      <4>1. call[s][q] = "accepted" /\ accepted'[b][q] = accepted[b][q]
        BY <1>7, <1>8, <2>2, <3>2
      <4> QED
        BY <1>1, <1>3, <4>1 DEF SlotInv
    <3> QED
      BY <3>1, <3>2
  <2>3. \A q \in Recipients : call'[s][q] # "none" => q \notin slot'[s].todo
    BY <1>1, <1>6, <1>7 DEF SlotInv
  <2>4. slot[s].at \in {"deliver", "uncertain", "failed", "settle", "done"}
    BY <1>1 DEF SlotInv
  <2> QED
    BY <1>1, <1>2, <1>3, <1>6, <1>10, <2>1, <2>2, <2>3, <2>4 DEF SlotInv
<1> QED
  BY <1>9, <1>10, <1>12, <1>13, <1>15, <1>18, <1>19, <1>20, OneBatch

-----------------------------------------------------------------------------
(* Answers, interruptions and the end of a send *)

\* Rows of a batch move from one status to another, and s goes on.
LEMMA MoveStep ==
    ASSUME IInv, NEW s \in Slots, NEW b \in Batches, b = slot[s].batch,
           NEW from \in {"Pending", "Sending"}, NEW to \in {"Failed", "Uncertain"},
           NEW step \in {"finalize", "failed", "settle"},
           Move(b, from, to), Goto(s, step),
           slot[s].at \in {"stop", "uncertain", "failed"},
           step = "finalize" => slot[s].at = "stop",
           overlapped' \in {overlapped, overlapped \cup {b}},
           UNCHANGED <<drafting, recent, call, accepted, confirmed, tally>>,
           \A r \in Recipients :
              b \notin overlapped /\ confirmed[b][r] = 0 /\ rows[b][r] = from =>
                 \/ to = "Uncertain"
                 \/ accepted[b][r] = 0 /\ \A t \in Slots : ~Hand(t, b, r)
    PROVE  IInv'
<1>1. /\ TypeOK /\ SlotInv(s) /\ FrozenInv(b) /\ RecipientInv(b) /\ BatchInv(b)
      /\ Started(b) /\ \A r \in Recipients : RowInv(b, r)
  BY Active DEF IInv
<1>2. /\ items' = items /\ edit' = edit /\ page' = page /\ reviewed' = reviewed
      /\ batches' = batches /\ accepted' = accepted /\ confirmed' = confirmed
      /\ recent' = recent /\ call' = call /\ sends' = sends /\ faults' = faults
  BY DEF drafting, tally
<1>3. /\ rows' \in [Batches -> [Recipients -> RowStatuses]]
      /\ \A c \in Batches \ {b} : rows'[c] = rows[c]
      /\ \A r \in Recipients : rows'[b][r] = IF rows[b][r] = from THEN to ELSE rows[b][r]
  BY <1>1 DEF Move, TypeOK, RowStatuses
<1>4. /\ slot' \in [Slots -> SlotType] /\ slot'[s].at = step /\ slot'[s].batch = b
      /\ slot'[s].want = slot[s].want /\ slot'[s].kind = slot[s].kind
      /\ slot'[s].todo = slot[s].todo
      /\ \A t \in Slots \ {s} : slot'[t] = slot[t]
  BY <1>1, StepUpdate DEF Steps
<1>5. /\ overlapped' \subseteq Batches
      /\ \A c \in Batches \ {b} : c \in overlapped' <=> c \in overlapped
      /\ b \notin overlapped' => b \notin overlapped
  BY <1>1 DEF TypeOK
<1>6. TypeOK'
  BY <1>1, <1>2, <1>3, <1>4, <1>5 DEF TypeOK
<1>7. /\ EditInv' /\ PageInv' /\ Started(b)' /\ Saved(b)' = Saved(b)
      /\ InDraft(b)' = InDraft(b)
  BY <1>1, <1>2, NotEdited DEF Started, Saved, InDraft
<1>8. Works(s, b)
  BY <1>2, <1>3, <1>4, <1>5, <1>7 DEF Works
<1>9. FrozenInv(b)'
  BY <1>1, <1>2, <1>7 DEF FrozenInv
<1>10. RecipientInv(b)'
  <2>1. \A r \in Recipients : /\ rows'[b][r] # "absent" <=> rows[b][r] # "absent"
                              /\ rows'[b][r] = "Sent" <=> rows[b][r] = "Sent"
    BY <1>3
  <2>2. Rows(b)' = Rows(b)
    BY <2>1 DEF Rows
  <2> QED
    BY <1>1, <1>2, <1>7, <2>1, <2>2 DEF RecipientInv, Rows
<1>11. ASSUME NEW t \in Slots
       PROVE  /\ Busy(t, b)' => Busy(t, b)
              /\ \A r \in Recipients : Hand(t, b, r)' => Hand(t, b, r)
  <2>1. CASE t = s
    BY <1>2, <1>4, <2>1 DEF Busy, Hand
  <2>2. CASE t # s
    BY <1>2, <1>4, <2>2, SlotKept
  <2> QED
    BY <2>1, <2>2
<1>12. BatchInv(b)'
  BY <1>1, <1>2, <1>3, <1>5, <1>11 DEF BatchInv
<1>13. ASSUME NEW r \in Recipients PROVE RowInv(b, r)'
  <2>1. SUFFICES ASSUME b \notin overlapped, confirmed[b][r] = 0 PROVE RowInv(b, r)'
    BY <1>2, <1>5 DEF RowInv
  <2>2. RowInv(b, r)
    BY <1>1
  <2>3. CASE rows[b][r] = from
    <3>1. /\ rows'[b][r] = to
          /\ to = "Uncertain" \/ (accepted[b][r] = 0 /\ \A t \in Slots : ~Hand(t, b, r))
      BY <1>3, <2>1, <2>3
    <3> QED
      BY <1>2, <1>11, <2>1, <2>2, <3>1 DEF RowInv
  <2>4. CASE rows[b][r] # from
    <3>1. rows'[b][r] = rows[b][r]
      BY <1>3, <2>4
    <3> QED
      BY <1>2, <1>11, <2>1, <2>2, <3>1 DEF RowInv
  <2> QED
    BY <2>3, <2>4
<1>14. SlotInv(s)'
  <2>1. \A c \in Batches, r \in Recipients : Hand(s, c, r)' => rows'[c][r] # "absent"
    <3>1. \A c \in Batches, r \in Recipients : Hand(s, c, r)' => Hand(s, c, r)
      BY <1>2, <1>4 DEF Hand
    <3> QED
      BY <1>1, <1>3, <3>1 DEF SlotInv
  <2>2. /\ slot[s].kind = "recovery" => step # "finalize"
        /\ call[s] # NoCalls => step # "finalize"
    BY <1>1, Active
  <2>3. NoCalls' = NoCalls
    BY DEF NoCalls
  <2> QED
    BY <1>1, <1>2, <1>4, <1>7, <2>1, <2>2, <2>3 DEF SlotInv
<1> QED
  BY <1>6, <1>7, <1>8, <1>9, <1>10, <1>12, <1>13, <1>14, OneBatch

\* A sender failure: the claimed rows of this request were not submitted.
LEMMA StopStep ==
    ASSUME IInv, NEW s \in Slots, Stop(s)
    PROVE  IInv'
<1>1. TypeOK /\ SlotInv(s) /\ slot[s].at = "stop" /\ call[s] = NoCalls
  BY Active DEF IInv, Stop
<1>2. PICK b \in Batches : b = slot[s].batch
  BY <1>1, Active
<1>3. /\ Move(b, "Sending", "Failed") /\ Goto(s, "finalize")
      /\ overlapped' \in {overlapped, overlapped \cup {b}}
      /\ UNCHANGED <<drafting, recent, call, accepted, confirmed, tally>>
  BY <1>2 DEF Stop
<1>4. ASSUME NEW r \in Recipients, b \notin overlapped, confirmed[b][r] = 0,
             rows[b][r] = "Sending"
      PROVE  accepted[b][r] = 0 /\ \A t \in Slots : ~Hand(t, b, r)
  <2>1. RowInv(b, r) /\ accepted[b][r] \in Nat
    BY <1>1 DEF IInv, TypeOK
  <2>2. Busy(s, b) /\ call[s][r] = "none" /\ ~Hand(s, b, r)
    BY <1>1, <1>2, CallType DEF Busy, Hand
  <2>3. \A t \in Slots : ~Hand(t, b, r)
    BY <1>4, <2>1, <2>2 DEF RowInv
  <2>4. ~(accepted[b][r] > 0)
    BY <1>4, <2>1, <2>2 DEF RowInv
  <2> QED
    BY <2>1, <2>3, <2>4
<1> QED
  BY <1>1, <1>2, <1>3, <1>4, MoveStep

LEMMA MarkUncertainStep ==
    ASSUME IInv, NEW s \in Slots, MarkUncertain(s)
    PROVE  IInv'
<1>1. slot[s].at = "uncertain"
  BY DEF MarkUncertain
<1>2. PICK b \in Batches : b = slot[s].batch
  BY <1>1, Active
<1>3. /\ Move(b, "Sending", "Uncertain") /\ Goto(s, "failed")
      /\ overlapped' \in {overlapped, overlapped \cup {b}}
      /\ UNCHANGED <<drafting, recent, call, accepted, confirmed, tally>>
  BY <1>2 DEF MarkUncertain, Overlap
<1> QED
  BY <1>1, <1>2, <1>3, MoveStep

LEMMA MarkFailedStep ==
    ASSUME IInv, NEW s \in Slots, MarkFailed(s)
    PROVE  IInv'
<1>1. slot[s].at = "failed"
  BY DEF MarkFailed
<1>2. PICK b \in Batches : b = slot[s].batch
  BY <1>1, Active
<1>3. /\ Move(b, "Pending", "Failed") /\ Goto(s, "settle")
      /\ overlapped' \in {overlapped, overlapped \cup {b}}
      /\ UNCHANGED <<drafting, recent, call, accepted, confirmed, tally>>
  BY <1>2 DEF MarkFailed
<1>4. ASSUME NEW r \in Recipients, b \notin overlapped, confirmed[b][r] = 0,
             rows[b][r] = "Pending"
      PROVE  accepted[b][r] = 0 /\ \A t \in Slots : ~Hand(t, b, r)
  BY <1>4 DEF IInv, RowInv
<1> QED
  BY <1>1, <1>2, <1>3, <1>4, MoveStep

LEMMA RecordStep ==
    ASSUME IInv, NEW s \in Slots, NEW r \in Recipients, Record(s, r)
    PROVE  IInv'
<1>1. TypeOK /\ SlotInv(s) /\ call[s][r] \in Answers /\ call[s][r] # "none"
  BY DEF IInv, Record, Answered, Answers
<1>2. PICK calls : calls = [call[s] EXCEPT ![r] = "none"]
  OBVIOUS
<1>3. PICK f \in BOOLEAN : f = (slot[s].senderFailed \/ call[s][r] = "senderFailure")
  OBVIOUS
<1>4. PICK v : v = IF slot[s].at = "done" /\ calls = NoCalls THEN Idle
                   ELSE [slot[s] EXCEPT !.at = slot[s].at, !.senderFailed = f]
  OBVIOUS
<1>5. call' = [call EXCEPT ![s] = [call[s] EXCEPT ![r] = "none"]]
  BY DEF Record
<1>6. slot' = [slot EXCEPT ![s] = v]
  BY <1>2, <1>3, <1>4 DEF Record, AfterCall
<1>7. /\ call' \in [Slots -> [Recipients -> {"none", "due"} \cup Answers]]
      /\ call'[s] = calls /\ call'[s][r] = "none"
      /\ \A q \in Recipients \ {r} : call'[s][q] = call[s][q]
      /\ \A t \in Slots \ {s} : call'[t] = call[t]
      /\ slot[s].at \in {"deliver", "uncertain", "failed", "settle", "done"}
      /\ slot[s].kind # "recovery" /\ slot[s].batch \in Batches
  <2>1. /\ call' \in [Slots -> [Recipients -> {"none", "due"} \cup Answers]]
        /\ call'[s] = [call[s] EXCEPT ![r] = "none"] /\ call'[s][r] = "none"
        /\ \A q \in Recipients \ {r} : call'[s][q] = call[s][q]
        /\ \A t \in Slots \ {s} : call'[t] = call[t]
    BY <1>1, <1>5, CallOver
  <2>2. /\ slot[s].at \in {"deliver", "uncertain", "failed", "settle", "done"}
        /\ slot[s].kind # "recovery" /\ slot[s].batch \in Batches
    BY <1>1, Calling
  <2> QED
    BY <1>2, <2>1, <2>2
<1>8. PICK b \in Batches : b = slot[s].batch
  BY <1>7
<1>9. /\ v \in SlotType
      /\ \/ v = Idle /\ calls = NoCalls
         \/ /\ v.at = slot[s].at /\ v.batch = b /\ v.todo = slot[s].todo
            /\ v.want = slot[s].want /\ v.kind = slot[s].kind
  <2>1. PICK w, step : /\ step = slot[s].at
                       /\ w = [slot[s] EXCEPT !.at = step, !.senderFailed = f]
    OBVIOUS
  <2>2. slot[s] \in SlotType /\ Idle \in SlotType /\ step \in Steps
    BY <1>1, <2>1, SlotTypes, Counts
  <2>3. /\ w \in SlotType /\ w.at = step /\ w.batch = b /\ w.todo = slot[s].todo
        /\ w.want = slot[s].want /\ w.kind = slot[s].kind
    BY <1>3, <1>8, <2>1, <2>2 DEF SlotType
  <2> QED
    BY <1>4, <2>1, <2>2, <2>3
<1>10. /\ slot' \in [Slots -> SlotType] /\ slot'[s] = v
       /\ \A t \in Slots \ {s} : slot'[t] = slot[t]
  BY <1>1, <1>6, <1>9, SlotUpdate
<1>11. /\ items' = items /\ edit' = edit /\ page' = page /\ reviewed' = reviewed
       /\ batches' = batches /\ accepted' = accepted /\ overlapped' = overlapped
       /\ confirmed' = confirmed
       /\ recent' = recent /\ sends' = sends /\ faults' = faults
  BY DEF Record, drafting, tally
<1>12. PICK status \in Outcome(call[s][r]) :
          rows' = IF rows[b][r] = "Sending" THEN [rows EXCEPT ![b][r] = status] ELSE rows
  BY <1>8 DEF Record
<1>13. /\ status \in {"Sent", "Uncertain", "Failed"}
       /\ status = "Sent" => call[s][r] = "accepted"
       /\ status = "Failed" => call[s][r] \notin {"accepted", "uncertain"}
  BY <1>12 DEF Outcome
<1>14. /\ rows' \in [Batches -> [Recipients -> RowStatuses]]
       /\ rows'[b][r] = IF rows[b][r] = "Sending" THEN status ELSE rows[b][r]
       /\ \A q \in Recipients \ {r} : rows'[b][q] = rows[b][q]
       /\ \A c \in Batches \ {b} : rows'[c] = rows[c]
  <2>1. rows \in [Batches -> [Recipients -> RowStatuses]] /\ status \in RowStatuses
    BY <1>1, <1>13 DEF TypeOK, RowStatuses
  <2> QED
    BY <1>12, <2>1
<1>15. TypeOK'
  BY <1>1, <1>7, <1>10, <1>11, <1>14 DEF TypeOK
<1>16. /\ FrozenInv(b) /\ RecipientInv(b) /\ BatchInv(b) /\ Started(b)
       /\ \A q \in Recipients : RowInv(b, q)
  BY <1>7, <1>8, Active DEF IInv
<1>17. /\ EditInv' /\ PageInv' /\ Started(b)' /\ Saved(b)' = Saved(b)
       /\ InDraft(b)' = InDraft(b)
  BY <1>11, <1>16, NotEdited DEF Started, Saved, InDraft
<1>18. /\ v.at \in {"idle", slot[s].at} /\ v.batch \in {b, NoBatch}
       /\ v.at = "idle" => calls = NoCalls
  BY <1>7, <1>9 DEF Idle
<1>19. Works(s, b)
  BY <1>7, <1>8, <1>10, <1>11, <1>13, <1>14, <1>17, <1>18 DEF Works
<1>20. FrozenInv(b)'
  BY <1>11, <1>16, <1>17 DEF FrozenInv
<1>21. Hand(s, b, r) /\ rows[b][r] # "absent" /\ r \notin slot[s].todo
  BY <1>1, <1>8 DEF Hand, SlotInv
<1>22. RecipientInv(b)'
  <2>1. \A q \in Recipients :
           /\ rows'[b][q] # "absent" <=> rows[b][q] # "absent"
           /\ rows'[b][q] = "Sent" => accepted[b][q] > 0
           /\ rows[b][q] = "Sent" => rows'[b][q] = "Sent"
    <3>1. call[s][r] = "accepted" => accepted[b][r] > 0
      BY <1>1, <1>8 DEF SlotInv
    <3> QED
      BY <1>13, <1>14, <1>16, <3>1 DEF RecipientInv
  <2>2. Rows(b)' = Rows(b)
    BY <2>1 DEF Rows
  <2> QED
    BY <1>11, <1>16, <1>17, <2>1, <2>2 DEF RecipientInv, Rows
<1>23. ASSUME NEW c \in Batches, NEW q \in Recipients, Hand(s, c, q)'
       PROVE  c = b /\ Hand(s, b, q) /\ q # r /\ call'[s][q] = call[s][q]
  <2>1. CASE v = Idle /\ calls = NoCalls
    <3>1. slot'[s].batch = NoBatch
      BY <1>10, <2>1 DEF Idle
    <3> QED
      BY <1>23, <3>1, UpdateConstants DEF Hand
  <2>2. CASE v.at = slot[s].at /\ v.batch = b /\ v.todo = slot[s].todo
    BY <1>7, <1>8, <1>10, <1>21, <1>23, <2>2 DEF Hand
  <2> QED
    BY <1>9, <2>1, <2>2
<1>24. /\ Busy(s, b)' => Busy(s, b)
       /\ \A t \in Slots \ {s} :
            /\ Busy(t, b)' = Busy(t, b) /\ call'[t] = call[t]
            /\ \A q \in Recipients : Hand(t, b, q)' = Hand(t, b, q)
  <2>1. Busy(s, b)' => Busy(s, b)
    BY <1>8, <1>10, <1>18 DEF Busy
  <2> QED
    BY <1>7, <1>10, <2>1, SlotKept
<1>25. BatchInv(b)'
  <2>1. \A q \in Recipients : rows'[b][q] \in {"Pending", "Sending"} =>
                                 rows[b][q] \in {"Pending", "Sending"}
    BY <1>13, <1>14
  <2> QED
    BY <1>11, <1>16, <1>24, <2>1 DEF BatchInv
<1>26. ASSUME NEW q \in Recipients PROVE RowInv(b, q)'
  <2>1. CASE q # r
    <3>1. RowInv(b, q) /\ rows'[b][q] = rows[b][q] /\ call'[s][q] = call[s][q]
      BY <1>7, <1>14, <1>16, <2>1
    <3> QED
      BY <1>11, <1>23, <1>24, <3>1 DEF RowInv
  <2>2. CASE q = r
    <3>1. SUFFICES ASSUME b \notin overlapped, confirmed[b][r] = 0 PROVE RowInv(b, r)'
      BY <1>11, <2>2 DEF RowInv
    <3>2. RowInv(b, r)
      BY <1>16
    <3>3. /\ \A t \in Slots : ~Hand(t, b, r)'
          /\ rows[b][r] \notin {"Pending", "Failed"}
          /\ call[s][r] \in {"accepted", "uncertain"} \/ accepted[b][r] = 0
      BY <1>21, <1>23, <1>24, <3>1, <3>2 DEF RowInv
    <3>4. /\ rows'[b][r] # "Sending"
          /\ rows'[b][r] \in {"Pending", "Failed"} => accepted'[b][r] = 0
      BY <1>11, <1>13, <1>14, <3>3
    <3> QED
      BY <3>3, <3>4 DEF RowInv
  <2> QED
    BY <2>1, <2>2
<1>27. SlotInv(s)'
  <2>1. \A c \in Batches, q \in Recipients : Hand(s, c, q)' => rows'[c][q] # "absent"
    BY <1>1, <1>13, <1>14, <1>23 DEF SlotInv
  <2>2. CASE v = Idle /\ calls = NoCalls
    <3>1. slot'[s].at = "idle" /\ slot'[s].kind = "send"
      BY <1>10, <2>2 DEF Idle
    <3>2. call'[s] = NoCalls /\ NoCalls' = NoCalls
      BY <1>7, <2>2 DEF NoCalls
    <3>3. \A q \in Recipients : call'[s][q] = "none"
      BY <3>2 DEF NoCalls
    <3> QED
      BY <2>1, <3>1, <3>2, <3>3 DEF SlotInv
  <2>3. CASE /\ v.at = slot[s].at /\ v.batch = b /\ v.todo = slot[s].todo
             /\ v.want = slot[s].want /\ v.kind = slot[s].kind
    <3>1. \A q \in Recipients : call'[s][q] = "accepted" => accepted'[b][q] > 0
      BY <1>1, <1>7, <1>8, <1>11 DEF SlotInv
    <3>2. /\ slot'[s].at = slot[s].at /\ slot'[s].batch = b
          /\ slot'[s].want = slot[s].want /\ slot'[s].kind = slot[s].kind
      BY <1>10, <2>3
    <3>3. slot[s].want \in {{"Pending"}, {"Failed"}, {"Uncertain"}}
      BY <1>1, <1>7 DEF SlotInv
    <3>4. \A q \in Recipients : call'[s][q] # "none" => q \notin slot'[s].todo
      BY <1>1, <1>7, <1>10, <2>3 DEF SlotInv
    <3> QED
      BY <1>7, <1>17, <2>1, <3>1, <3>2, <3>3, <3>4 DEF SlotInv
  <2> QED
    BY <1>9, <2>2, <2>3
<1> QED
  BY <1>15, <1>17, <1>19, <1>20, <1>22, <1>25, <1>26, <1>27, OneBatch

LEMMA FinalizeStep ==
    ASSUME IInv, NEW s \in Slots, Finalize(s)
    PROVE  IInv'
<1>1. TypeOK /\ SlotInv(s) /\ EditInv /\ PageInv /\ slot[s].at \in {"finalize", "settle"}
  BY DEF IInv, Finalize
<1>2. PICK b \in Batches : b = slot[s].batch
  BY <1>1, Active
<1>3. PICK st : st = Summary(b)
  OBVIOUS
<1>4. /\ st \in {"Sending", "Sent", "PartialFailure"}
      /\ st = "Sent" => Rows(b) # {} /\ \A r \in Rows(b) : rows[b][r] = "Sent"
      /\ st = "PartialFailure" =>
           \A r \in Recipients : rows[b][r] \notin {"Pending", "Sending"}
  BY <1>3 DEF Summary, Rows
<1>5. /\ edit' = edit /\ page' = page /\ reviewed' = reviewed /\ rows' = rows
      /\ accepted' = accepted /\ confirmed' = confirmed
      /\ recent' = recent /\ call' = call /\ sends' = sends /\ faults' = faults
      /\ batches' = [batches EXCEPT ![b].status = st]
      /\ overlapped' = Overlap(s)
  BY <1>2, <1>3 DEF Finalize, tally
<1>6. /\ batches' \in [Batches -> [status: BatchStatuses, content: Content]]
      /\ batches'[b].status = st /\ batches'[b].content = batches[b].content
      /\ \A c \in Batches \ {b} : batches'[c] = batches[c]
  <2>1. st \in BatchStatuses
    BY <1>4 DEF BatchStatuses
  <2> QED
    BY <1>1, <1>5, <2>1, StatusUpdate
<1>7. /\ items' \in [Items -> ItemType]
      /\ \A i \in Items :
           \/ items'[i] = items[i] /\ (st = "Sent" /\ items[i].batch = b => items[i].status # "Pending")
           \/ /\ items[i].batch = b /\ items[i].status = "Pending" /\ st = "Sent"
              /\ items'[i].batch = b /\ items'[i].rev = items[i].rev
              /\ items'[i].status = "Sent"
  <2>1. items' = [i \in Items |->
                     IF st = "Sent" /\ items[i].batch = b /\ items[i].status = "Pending"
                     THEN [items[i] EXCEPT !.status = "Sent"] ELSE items[i]]
    BY <1>2, <1>3 DEF Finalize
  <2>2. ASSUME NEW i \in Items
        PROVE  /\ items'[i] \in ItemType
               /\ \/ /\ items'[i] = items[i]
                     /\ st = "Sent" /\ items[i].batch = b => items[i].status # "Pending"
                  \/ /\ items[i].batch = b /\ items[i].status = "Pending" /\ st = "Sent"
                     /\ items'[i].batch = b /\ items'[i].rev = items[i].rev
                     /\ items'[i].status = "Sent"
    <3>1. items[i] \in ItemType
      BY <1>1, ItemTypes
    <3>2. CASE st = "Sent" /\ items[i].batch = b /\ items[i].status = "Pending"
      <4>1. items'[i] = [items[i] EXCEPT !.status = "Sent"]
        BY <2>1, <3>2
      <4> QED
        BY <3>1, <3>2, <4>1 DEF ItemType, ItemStatuses
    <3>3. CASE ~(st = "Sent" /\ items[i].batch = b /\ items[i].status = "Pending")
      BY <2>1, <3>1, <3>3
    <3> QED
      BY <3>2, <3>3
  <2>3. items' = [i \in Items |-> items'[i]]
    BY <2>1
  <2> QED
    BY <2>2, <2>3
<1>8. PICK v : v = IF slot[s].at = "finalize" THEN [slot[s] EXCEPT !.at = "reply"]
                   ELSE Finished(s)
  OBVIOUS
<1>9. slot' = [slot EXCEPT ![s] = v]
  BY <1>1, <1>8 DEF Finalize, TypeOK
<1>10. /\ v \in SlotType
       /\ \/ v = Idle /\ call[s] = NoCalls
          \/ /\ v.at = "reply" /\ slot[s].at = "finalize" /\ v.batch = b
             /\ v.todo = slot[s].todo /\ v.want = slot[s].want /\ v.kind = slot[s].kind
          \/ /\ v.at = "done" /\ call[s] # NoCalls /\ v.batch = b
             /\ v.todo = slot[s].todo /\ v.want = slot[s].want /\ v.kind = slot[s].kind
  <2>1. /\ slot[s] \in SlotType /\ Idle \in SlotType
        /\ "reply" \in Steps /\ "done" \in Steps
    BY <1>1, SlotTypes, Counts DEF Steps
  <2> QED
    BY <1>2, <1>8, <2>1, SlotAt DEF Finished
<1>11. /\ slot' \in [Slots -> SlotType] /\ slot'[s] = v
       /\ \A t \in Slots \ {s} : slot'[t] = slot[t]
  BY <1>1, <1>9, <1>10, SlotUpdate
<1>12. /\ overlapped' \subseteq Batches
       /\ \A c \in Batches \ {b} : c \in overlapped' <=> c \in overlapped
       /\ b \notin overlapped' =>
            b \notin overlapped /\ \A t \in Slots \ {s} : ~Working(t, b)
  BY <1>1, <1>2, <1>5 DEF TypeOK, Overlap
<1>13. TypeOK'
  BY <1>1, <1>5, <1>6, <1>7, <1>11, <1>12 DEF TypeOK, ItemType
<1>14. /\ FrozenInv(b) /\ RecipientInv(b) /\ BatchInv(b) /\ Started(b)
       /\ \A r \in Recipients : RowInv(b, r)
  BY <1>1, <1>2, Active DEF IInv
<1>15. /\ Started(b)' /\ Rows(b)' = Rows(b) /\ InDraft(b)' = InDraft(b)
       /\ \A c \in Batches : Saved(c)' = Saved(c)
  BY <1>4, <1>5, <1>6 DEF Started, Rows, InDraft, Saved
<1>16. EditInv'
  <2>1. SUFFICES ASSUME edit # NoEdit PROVE EditInv'
    BY <1>5 DEF EditInv
  <2>2. PICK i \in Items, op \in Edits, rev \in 0..MaxRevision :
           edit.item = i /\ edit.op = op /\ edit.rev = rev
    BY <1>1, <2>1 DEF TypeOK
  <2>3. CASE items'[i] = items[i]
    BY <1>1, <1>5, <2>1, <2>2, <2>3 DEF EditInv, Unchanged, MayEdit, Free
  <2>4. CASE /\ items[i].batch = b /\ items[i].status = "Pending"
             /\ items'[i].rev = items[i].rev /\ items'[i].status = "Sent"
    <3>1. items[i].rev = rev => MayEdit(op, i)
      BY <1>1, <2>1, <2>2 DEF EditInv, Unchanged
    <3>2. ~Free(i)
      BY <2>4, UpdateConstants DEF Free
    <3>3. items[i].rev = rev => op = "sync"
      BY <2>4, <3>1, <3>2 DEF MayEdit
    <3>4. items'[i].rev = rev => MayEdit(op, i)'
      BY <2>4, <3>3 DEF MayEdit
    <3> QED
      BY <1>1, <1>5, <2>1, <2>2, <2>4, <3>4 DEF EditInv, Unchanged
  <2> QED
    BY <1>7, <2>3, <2>4
<1>17. PageInv'
  BY <1>1, <1>5, <1>15 DEF PageInv
<1>18. Works(s, b)
  <2>1. v.batch \in {b, NoBatch}
    BY <1>10 DEF Idle
  <2> QED
    BY <1>2, <1>5, <1>6, <1>7, <1>11, <1>12, <1>15, <2>1 DEF Works
<1>19. FrozenInv(b)'
  BY <1>5, <1>7, <1>14, <1>15 DEF FrozenInv, InDraft
<1>20. RecipientInv(b)'
  <2>1. st = "Sent" => \A i \in InDraft(b) : items'[i].status = "Sent"
    BY <1>7, <1>14 DEF FrozenInv, InDraft
  <2> QED
    BY <1>4, <1>5, <1>6, <1>14, <1>15, <2>1 DEF RecipientInv
<1>21. v.at \in {"idle", "reply", "done"} /\ \A c \in Batches : v.batch = c => c = b
  BY <1>10, UpdateConstants DEF Idle
<1>22. ASSUME NEW c \in Batches, NEW r \in Recipients, Hand(s, c, r)'
       PROVE  Hand(s, c, r) /\ call'[s] = call[s]
  BY <1>2, <1>5, <1>11, <1>21, <1>22 DEF Hand
<1>23. /\ ~Busy(s, b)'
       /\ \A t \in Slots \ {s} :
            /\ Busy(t, b)' = Busy(t, b) /\ call'[t] = call[t]
            /\ \A r \in Recipients : Hand(t, b, r)' = Hand(t, b, r)
  <2>1. ~Busy(s, b)'
    BY <1>11, <1>21 DEF Busy
  <2> QED
    BY <1>5, <1>11, <2>1, SlotKept
<1>24. BatchInv(b)'
  <2>1. SUFFICES ASSUME b \notin overlapped' PROVE BatchInv(b)'
    BY DEF BatchInv
  <2>2. ASSUME NEW t \in Slots \ {s} PROVE ~Busy(t, b)'
    <3>1. ~Working(t, b) /\ SlotInv(t)
      BY <1>12, <2>1 DEF IInv
    <3>2. ~Busy(t, b)
      BY <3>1 DEF Working, Busy, SlotInv
    <3> QED
      BY <1>23, <3>2
  <2> QED
    BY <1>4, <1>5, <1>6, <1>23, <2>2 DEF BatchInv
<1>25. ASSUME NEW r \in Recipients PROVE RowInv(b, r)'
  <2>1. RowInv(b, r) /\ (b \notin overlapped' => b \notin overlapped)
    BY <1>12, <1>14
  <2> QED
    BY <1>5, <1>22, <1>23, <2>1 DEF RowInv
<1>26. SlotInv(s)'
  <2>1. \A c \in Batches, r \in Recipients : Hand(s, c, r)' => rows'[c][r] # "absent"
    BY <1>1, <1>5, <1>22 DEF SlotInv
  <2>2. NoCalls' = NoCalls /\ call'[s] = call[s]
    BY <1>5 DEF NoCalls
  <2>3. CASE v = Idle /\ call[s] = NoCalls
    <3>1. slot'[s].at = "idle" /\ slot'[s].kind = "send"
      BY <1>11, <2>3 DEF Idle
    <3>2. \A r \in Recipients : call'[s][r] = "none"
      BY <1>1, <2>2, <2>3, CallType
    <3> QED
      BY <2>1, <2>2, <2>3, <3>1, <3>2 DEF SlotInv
  <2>4. CASE /\ v.at = "reply" /\ slot[s].at = "finalize" /\ v.batch = b
             /\ v.todo = slot[s].todo /\ v.want = slot[s].want /\ v.kind = slot[s].kind
    <3>1. slot[s].kind # "recovery" /\ call[s] = NoCalls
      BY <1>1, <2>4, Active
    <3>2. \A r \in Recipients : call'[s][r] = "none"
      BY <1>1, <2>2, <3>1, CallType
    <3> QED
      BY <1>1, <1>11, <1>15, <2>1, <2>2, <2>4, <3>1, <3>2 DEF SlotInv
  <2>5. CASE /\ v.at = "done" /\ call[s] # NoCalls /\ v.batch = b
             /\ v.todo = slot[s].todo /\ v.want = slot[s].want /\ v.kind = slot[s].kind
    BY <1>1, <1>2, <1>5, <1>11, <1>15, <2>1, <2>2, <2>5 DEF SlotInv
  <2> QED
    BY <1>10, <2>3, <2>4, <2>5
<1> QED
  BY <1>13, <1>16, <1>17, <1>18, <1>19, <1>20, <1>24, <1>25, <1>26, OneBatch

-----------------------------------------------------------------------------
(* The invariant *)

LEMMA Initially == Init => IInv
<1> SUFFICES ASSUME Init PROVE IInv
  OBVIOUS
<1>1. TypeOK
  <2>1. /\ items \in [Items -> [status: ItemStatuses, batch: Batches \cup {NoBatch},
                                rev: 0..MaxRevision]]
    <3>1. 0 \in 0..MaxRevision
      BY UpdateConstants
    <3>2. [status |-> "absent", batch |-> NoBatch, rev |-> 0]
            \in [status: ItemStatuses, batch: Batches \cup {NoBatch}, rev: 0..MaxRevision]
      BY <3>1 DEF ItemStatuses
    <3> QED
      BY <3>2 DEF Init
  <2>2. batches \in [Batches -> [status: BatchStatuses, content: Content]]
    BY Counts DEF Init, BatchStatuses
  <2>3. page \in [batch: Batches \cup {NoBatch}, content: Content]
    BY Counts DEF Init, NoPage
  <2>4. /\ rows \in [Batches -> [Recipients -> RowStatuses]]
        /\ call \in [Slots -> [Recipients -> {"none", "due"} \cup Answers]]
    BY DEF Init, RowStatuses, NoCalls
  <2>5. slot \in [Slots -> SlotType] /\ reviewed \in [Batches -> Content]
    BY Counts DEF Init
  <2>6. /\ accepted \in [Batches -> [Recipients -> Nat]]
        /\ confirmed \in [Batches -> [Recipients -> Nat]]
    BY DEF Init
  <2>7. /\ sends \in 0..MaxSends /\ faults \in 0..MaxFaults
        /\ recent \subseteq Batches /\ overlapped \subseteq Batches /\ edit = NoEdit
    BY UpdateConstants DEF Init
  <2> QED
    BY <2>1, <2>2, <2>3, <2>4, <2>5, <2>6, <2>7 DEF TypeOK
<1>2. /\ \A b \in Batches : ~Started(b) /\ batches[b].status = "absent"
      /\ \A b \in Batches, r \in Recipients : rows[b][r] = "absent" /\ accepted[b][r] = 0
      /\ \A s \in Slots : slot[s].at = "idle" /\ slot[s].batch = NoBatch
                          /\ slot[s].kind = "send"
      /\ \A s \in Slots : call[s] = NoCalls /\ \A r \in Recipients : call[s][r] = "none"
  BY DEF Init, Started, Idle, NoCalls
<1>3. EditInv /\ PageInv
  BY UpdateConstants DEF Init, EditInv, PageInv, NoPage
<1>4. \A s \in Slots, b \in Batches : ~Busy(s, b) /\ \A r \in Recipients : ~Hand(s, b, r)
  BY <1>2 DEF Busy, Hand
<1>5. \A b \in Batches : FrozenInv(b) /\ RecipientInv(b) /\ BatchInv(b)
  BY <1>2, <1>4 DEF FrozenInv, RecipientInv, BatchInv
<1>6. \A s \in Slots : SlotInv(s)
  BY <1>2, <1>4 DEF SlotInv
<1>7. \A b \in Batches, r \in Recipients : RowInv(b, r)
  BY <1>2, <1>4 DEF RowInv
<1> QED
  BY <1>1, <1>3, <1>5, <1>6, <1>7 DEF IInv

LEMMA Unmoved == IInv /\ UNCHANGED vars => IInv'
<1> SUFFICES ASSUME IInv, UNCHANGED vars PROVE IInv'
  OBVIOUS
<1>1. /\ items' = items /\ edit' = edit /\ batches' = batches /\ page' = page
      /\ rows' = rows /\ recent' = recent /\ slot' = slot /\ call' = call
      /\ accepted' = accepted /\ confirmed' = confirmed /\ reviewed' = reviewed
      /\ overlapped' = overlapped /\ sends' = sends /\ faults' = faults
  BY DEF vars
<1>2. TypeOK'
  BY <1>1 DEF IInv, TypeOK
<1>3. \A b \in Batches : Started(b)' = Started(b) /\ Saved(b)' = Saved(b)
  BY <1>1 DEF Started, Saved
<1>4. EditInv' /\ PageInv'
  BY <1>1, <1>3, NotEdited
<1> QED
  BY <1>1, <1>2, <1>3, <1>4, DraftFrame

LEMMA Inductive == IInv /\ [Next]_vars => IInv'
<1> SUFFICES ASSUME IInv, [Next]_vars PROVE IInv'
  OBVIOUS
<1>1. CASE Drafting
  BY <1>1, ImportStep, ReadItemStep, WriteItemStep, SaveBatchStep, CancelBatchStep,
     OpenBatchStep DEF Drafting
<1>2. CASE \E s \in Slots, b \in Batches : Send(s, b) \/ Recover(s, b)
  BY <1>2, SendStep, RecoverStep
<1>3. CASE \E s \in Slots, b \in Batches, status \in {"Failed", "Uncertain"} :
              Retry(s, b, status)
  BY <1>3, RetryStep
<1>4. ASSUME NEW s \in Slots, Advance(s) PROVE IInv'
  BY <1>4, RestartStep, CountStep, ClaimStep, NextWaveStep, EndWavesStep, StopStep,
     MarkUncertainStep, MarkFailedStep, FinalizeStep, ReplyStep, PostStep, RecordStep
     DEF Advance
<1>5. CASE \E b \in Batches : Age(b)
  BY <1>5, AgeStep
<1>6. CASE \E s \in Slots, r \in Recipients : RecordFails(s, r)
  BY <1>6, RecordFailsStep
<1>7. CASE \E s \in Slots : DbFails(s) \/ Crash(s)
  BY <1>7, DbFailsStep, CrashStep
<1>8. CASE UNCHANGED vars
  BY <1>8, Unmoved
<1> QED
  BY <1>1, <1>2, <1>3, <1>4, <1>5, <1>6, <1>7, <1>8 DEF Next

LEMMA Invariance == Spec => []IInv
  BY Initially, Inductive, PTL DEF Spec

\* The state of the model is of its types: a request never has a batch, a row
\* or an outcome that the tables and the code do not know.
THEOREM TypeCorrect == Spec => []TypeOK
<1>1. IInv => TypeOK
  BY DEF IInv
<1> QED
  BY <1>1, Invariance, PTL

\* Sent of a row, a batch or an item is never said of what Graph did not
\* accept, whichever requests claim, answer, interrupt and finalize the rows of
\* the batch at once (finalize_fcos_update_delivery, deliverOne and the
\* recovery of interrupted sends).
THEOREM SentIsTrue == Spec => []SentIsAccepted
<1>1. IInv => SentIsAccepted
  BY DEF IInv, RecipientInv, SentIsAccepted
<1> QED
  BY <1>1, Invariance, PTL

\* Nothing is mailed but what the General Manager had on the page, and to the
\* recipients shown there: start_fcos_update_saved_delivery accepts a page only
\* while it is the saved draft, and no edit reaches a started batch.
THEOREM ReviewedIsMailed == Spec => []MailedIsReviewed
<1>1. IInv => MailedIsReviewed
  BY DEF IInv, FrozenInv, RecipientInv, Mailed, MailedIsReviewed
<1> QED
  BY <1>1, Invariance, PTL

\* An item is mailed in one batch at most and never when it was skipped: a
\* started batch holds its items, whatever request read them before.
THEOREM ItemsMailedOnce == Spec => []OneMailPerItem
<1>1. IInv => OneMailPerItem
  <2> SUFFICES ASSUME IInv PROVE OneMailPerItem
    OBVIOUS
  <2>1. ASSUME NEW b \in Batches, Mailed(b), NEW i \in InDraft(b)
        PROVE  items[i].batch = b /\ items[i].status \in {"Pending", "Sent"}
    BY <2>1 DEF IInv, FrozenInv, RecipientInv, Mailed
  <2> QED
    BY <2>1 DEF OneMailPerItem
<1> QED
  BY <1>1, Invariance, PTL

\* A Failed row of a batch that no recovery settled over a working request was
\* not accepted, unless a person agreed to mail it again: a retry that asks for
\* no confirmation sends no second message.
THEOREM FailedRowsUnsent == Spec => []FailedIsUnsent
<1>1. IInv => FailedIsUnsent
  BY DEF IInv, RowInv, FailedIsUnsent
<1> QED
  BY <1>1, Invariance, PTL
=============================================================================
