---------------------------- MODULE StayContract ----------------------------
(***************************************************************************)
(* What the booking subsystem promises about one stay, with no word about  *)
(* requests, jobs, webhooks or saves: a stay is agreed once, is honoured   *)
(* only after the money was taken, never runs ahead of the calendar, and a *)
(* stay that has been settled or released is never put on hold again.      *)
(***************************************************************************)
EXTENDS Integers

CONSTANTS
    Stay,       \* the stays
    Terms       \* the dates a stay may have

VARIABLES
    clock,
    terms,      \* the dates of each stay
    money,      \* has the guest paid?
    contract    \* where the stay is in its life

abstractVars == <<clock, terms, money, contract>>

\* What the calendar and the money allow a settled stay to be.
MaySettle(s, c) ==
    /\ money[s]
    /\ \/ c = "PAID_PENDING"
       \/ c = "PROCESSING" /\ terms[s].checkIn <= clock
       \/ c = "FINISHED" /\ terms[s].checkOut <= clock

Init ==
    /\ clock = 0
    /\ terms \in [Stay -> Terms]
    /\ money = [s \in Stay |-> FALSE]
    /\ contract = [s \in Stay |-> "ABSENT"]

Agree(s) ==
    /\ contract[s] = "ABSENT"
    /\ contract' = [contract EXCEPT ![s] = "PENDING"]
    /\ UNCHANGED <<clock, terms, money>>

Pay(s) ==
    /\ contract[s] # "ABSENT"
    /\ money' = [money EXCEPT ![s] = TRUE]
    /\ UNCHANGED <<clock, terms, contract>>

\* The records of a settled stay may also be corrected backwards.
Settle(s) ==
    /\ contract[s] # "ABSENT"
    /\ \E c \in {"PAID_PENDING", "PROCESSING", "FINISHED"} :
         MaySettle(s, c) /\ contract' = [contract EXCEPT ![s] = c]
    /\ UNCHANGED <<clock, terms, money>>

Release(s) ==
    /\ contract[s] # "ABSENT"
    /\ contract' = [contract EXCEPT ![s] = "CANCELLED"]
    /\ UNCHANGED <<clock, terms, money>>

Pass ==
    /\ clock' = clock + 1
    /\ UNCHANGED <<terms, money, contract>>

Next == Pass \/ \E s \in Stay : Agree(s) \/ Pay(s) \/ Settle(s) \/ Release(s)

Spec == Init /\ [][Next]_abstractVars

=============================================================================
