---------------------------- MODULE WebhookInbox ----------------------------
(***************************************************************************)
(* The webhooks the platform receives.  A delivery is stored under a hash  *)
(* of its body and stays as it is: nothing processes it yet.  The sender   *)
(* tries again when it did not get the answer.  Signatures are left out: a *)
(* request whose signature is wrong or stale changes nothing.              *)
(***************************************************************************)
EXTENDS Notifications

CONSTANT Bodies

VARIABLES
  webhook_inbox,  \* id -> body: UNIQUE(endpoint, body_hash), with one endpoint
  answers         \* body -> the delivery ids the sender was given for it

rowsOf(body) == {d \in DOMAIN webhook_inbox : webhook_inbox[d] = body}

\* Mutant: the constraint is over (sender, body), and senders may be NULL.
deliver_always(id, body) ==
  /\ draws(id)
  /\ webhook_inbox' = Put(webhook_inbox, id, body)
  /\ answers' = [answers EXCEPT ![body] = @ \union {id}]

\* INSERT OR IGNORE, then a look for the row that was in the way.
deliver(id, body) ==
  \/ /\ rowsOf(body) = {}
     /\ draws(id)
     /\ webhook_inbox' = Put(webhook_inbox, id, body)
     /\ answers' = [answers EXCEPT ![body] = @ \union {id}]
  \/ /\ rowsOf(body) # {}
     /\ answers' = [answers EXCEPT ![body] = @ \union rowsOf(body)]
     /\ UNCHANGED <<webhook_inbox, minted>>
=============================================================================
