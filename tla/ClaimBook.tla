------------------------------ MODULE ClaimBook ------------------------------
(***************************************************************************)
(* What the memory of one capability promises its readers, apart from any  *)
(* table, clock or plan: Claims are recorded in Proposals, a Proposal is   *)
(* decided once and as a whole, an accepted Claim leaves the accepted view *)
(* only when one replacement Claim enters it, and nothing that was decided *)
(* is ever decided again (operational_memory/core.py, the projection;      *)
(* om_native_writes.py, promote, replace and reject).                      *)
(***************************************************************************)
EXTENDS Naturals

CONSTANT Claims

VARIABLES
    owner,    \* the Proposal each recorded Claim belongs to, a set of Claims, or {}
    status    \* what became of it

Statuses == {"absent", "pending", "accepted", "superseded", "rejected"}

Members(prop) == {c \in Claims : owner[c] = prop}

BookInit ==
    /\ owner = [c \in Claims |-> {}]
    /\ status = [c \in Claims |-> "absent"]

\* Unrecorded Claims S join the Proposal prop, which none of its members has left.
Joins(prop, S) ==
    /\ prop # {}
    /\ \A c \in Members(prop) : status[c] = "pending"
    /\ Members(prop) \cup S # {}
    /\ owner' = [c \in Claims |-> IF c \in S THEN prop ELSE owner[c]]

Record(prop, S) ==
    /\ Joins(prop, S)
    /\ status' = [c \in Claims |-> IF c \in S THEN "pending" ELSE status[c]]

\* Recording and accepting are one step for a writer that needs no review.
Accept(prop, S) ==
    /\ Joins(prop, S)
    /\ status' = [c \in Claims |->
                     IF c \in Members(prop) \cup S THEN "accepted" ELSE status[c]]

\* One Claim, the only one of its Proposal, takes the place of an accepted one.
Replace(prop, S, old) ==
    /\ Joins(prop, S)
    /\ status[old] = "accepted"
    /\ \E c \in Claims :
         /\ Members(prop) \cup S = {c}
         /\ status' = [status EXCEPT ![c] = "accepted", ![old] = "superseded"]

Reject(prop) ==
    /\ Members(prop) # {}
    /\ Joins(prop, {})
    /\ status' = [c \in Claims |-> IF c \in Members(prop) THEN "rejected" ELSE status[c]]

BookStep ==
    \E prop \in SUBSET Claims, S \in SUBSET {c \in Claims : status[c] = "absent"} :
        \/ Record(prop, S)
        \/ Accept(prop, S)
        \/ \E old \in Claims : Replace(prop, S, old)
        \/ Reject(prop)

\* Every step of the book changes it.
Changes == owner' # owner \/ status' # status
BookNext == Changes /\ BookStep

BookSpec == BookInit /\ [][BookNext]_<<owner, status>>
=============================================================================
