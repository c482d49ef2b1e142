--------------------------- MODULE UnlockProtocol ---------------------------
(***************************************************************************)
(* What the platform promises about a candidate's contact details, without *)
(* tables or handlers: a recommendation is offered to one employer, who    *)
(* has to ask; only after the candidate's side has granted that request is *)
(* the contact released, once and to that employer.  A negotiation can be  *)
(* closed at any point, and what is closed stays closed.                   *)
(***************************************************************************)
EXTENDS FiniteSets

CONSTANTS Rec, Employers, NoOne

VARIABLES
  phase,     \* how far the negotiation over a recommendation has come
  owner,     \* the employer it was offered to
  released   \* the pairs <<recommendation, employer>> whose contact went out

Phase == {"none", "offered", "asked", "granted", "released", "closed"}

Init ==
  /\ phase = [r \in Rec |-> "none"]
  /\ owner = [r \in Rec |-> NoOne]
  /\ released = {}

advance(r, from, to) == phase[r] = from /\ phase' = [phase EXCEPT ![r] = to]

Offer(r, e) ==
  /\ advance(r, "none", "offered")
  /\ owner' = [owner EXCEPT ![r] = e]
  /\ UNCHANGED released

Ask(r)   == advance(r, "offered", "asked") /\ UNCHANGED <<owner, released>>
Grant(r) == advance(r, "asked", "granted") /\ UNCHANGED <<owner, released>>

Release(r) ==
  /\ advance(r, "granted", "released")
  /\ released' = released \union {<<r, owner[r]>>}
  /\ UNCHANGED owner

\* One party walks away, or a candidate's erasure ends all of theirs at once.
Close(S) ==
  /\ \A r \in S : phase[r] # "none"
  /\ phase' = [r \in Rec |-> IF r \in S THEN "closed" ELSE phase[r]]
  /\ UNCHANGED <<owner, released>>

Next ==
  \/ \E r \in Rec : \/ \E e \in Employers : Offer(r, e)
                    \/ Ask(r) \/ Grant(r) \/ Release(r)
  \/ \E S \in SUBSET Rec : Close(S)

Spec == Init /\ [][Next]_<<phase, owner, released>>

=============================================================================
