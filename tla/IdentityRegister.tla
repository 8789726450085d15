-------------------------- MODULE IdentityRegister --------------------------
(***************************************************************************)
(* What the identity federation promises about one FCUNO identity: FCOS    *)
(* holds the newest revision it was told of, an event is acknowledged only *)
(* when its revision is held or outdated, the identity belongs to one FCOS *)
(* account for ever, and only that account is ever let in, once some       *)
(* revision permitted it.  FcunoIdentity is shown to implement it.         *)
(***************************************************************************)
EXTENDS Naturals

CONSTANTS Revisions,    \* the revisions FCUNO gives the identity
          Permitted,    \* those that are active and entitled to FCOS
          Accounts,     \* the FCOS accounts that sign in with it
          NoAccount     \* the identity is not claimed yet

VARIABLES revision,     \* the revision FCOS holds, 0 before the first
          owner,        \* the account that claimed the identity
          acknowledged, \* the revisions FCUNO need not send again
          admitted      \* the accounts that were let in

vars == <<revision, owner, acknowledged, admitted>>

Init ==
    /\ revision = 0
    /\ owner = NoAccount
    /\ acknowledged = {}
    /\ admitted = {}

(* A newer revision replaces the one that is held. *)
Hold(r) ==
    /\ r > revision
    /\ revision' = r
    /\ UNCHANGED <<owner, acknowledged, admitted>>

(* A revision that is held or outdated is acknowledged. *)
Acknowledge(r) ==
    /\ r <= revision
    /\ acknowledged' = acknowledged \union {r}
    /\ UNCHANGED <<revision, owner, admitted>>

(* The first account that signs in claims the identity. *)
Own(a) ==
    /\ revision # 0
    /\ owner = NoAccount
    /\ owner' = a
    /\ UNCHANGED <<revision, acknowledged, admitted>>

(* The owner is let in. *)
Admit(a) ==
    /\ owner = a
    /\ \E r \in Permitted : r <= revision
    /\ admitted' = admitted \union {a}
    /\ UNCHANGED <<revision, owner, acknowledged>>

Next ==
    \/ \E r \in Revisions : Hold(r) \/ Acknowledge(r)
    \/ \E a \in Accounts : Own(a) \/ Admit(a)

Spec == Init /\ [][Next]_vars
=============================================================================
