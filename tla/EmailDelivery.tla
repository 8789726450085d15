---------------------------- MODULE EmailDelivery ----------------------------
(***************************************************************************)
(* What the Email Router's outbox promises for one outgoing draft, without *)
(* workers, rows or failures: a draft is offered for sending; it is sent   *)
(* once, and once more for every time a person has reviewed Sent Items and *)
(* asked for it; the message may leave at any time after the first request *)
(* to send; the outcome is settled only after it left, and for good.       *)
(***************************************************************************)
EXTENDS Naturals

CONSTANT Actions \* outgoing mail actions (redirect, reply, forward)

VARIABLES stage,     \* "none", "ready" to be sent, or "attempted"
          posts,     \* requests to send
          reviews,   \* times a person asked to send again
          delivered, \* the message has left
          settled    \* the outcome is final

vars == <<stage, posts, reviews, delivered, settled>>

Init == /\ stage = [a \in Actions |-> "none"]
        /\ posts = [a \in Actions |-> 0]
        /\ reviews = [a \in Actions |-> 0]
        /\ delivered = [a \in Actions |-> FALSE]
        /\ settled = [a \in Actions |-> FALSE]

Offer(a) == /\ stage[a] = "none"
            /\ stage' = [stage EXCEPT ![a] = "ready"]
            /\ UNCHANGED <<posts, reviews, delivered, settled>>

Claim(a) == /\ stage[a] = "ready"
            /\ stage' = [stage EXCEPT ![a] = "attempted"]
            /\ UNCHANGED <<posts, reviews, delivered, settled>>

\* Every claim allows one request; a review is preceded by a claim.
Claims(a) == reviews[a] + (IF stage[a] = "attempted" THEN 1 ELSE 0)

Post(a) == /\ posts[a] < Claims(a)
           /\ posts' = [posts EXCEPT ![a] = @ + 1]
           /\ UNCHANGED <<stage, reviews, delivered, settled>>

Deliver(a) == /\ posts[a] > 0
              /\ delivered' = [delivered EXCEPT ![a] = TRUE]
              /\ UNCHANGED <<stage, posts, reviews, settled>>

Review(a) == /\ stage[a] = "attempted"
             /\ ~settled[a]
             /\ stage' = [stage EXCEPT ![a] = "ready"]
             /\ reviews' = [reviews EXCEPT ![a] = @ + 1]
             /\ UNCHANGED <<posts, delivered, settled>>

Settle(a) == /\ stage[a] # "none"
             /\ delivered[a]
             /\ stage' = [stage EXCEPT ![a] = "attempted"]
             /\ settled' = [settled EXCEPT ![a] = TRUE]
             /\ UNCHANGED <<posts, reviews, delivered>>

Next == \E a \in Actions : \/ Offer(a) \/ Claim(a) \/ Post(a) \/ Deliver(a)
                           \/ Review(a) \/ Settle(a)

Spec == Init /\ [][Next]_vars
=============================================================================
