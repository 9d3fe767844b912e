--------------------------- MODULE RideLifecycle ---------------------------
(***************************************************************************)
(* What a ride promises to the people who read its row: the transitions    *)
(* README.md:58-60 names, one at a time, with nothing said of handlers,    *)
(* drivers' positions or the database.                                     *)
(***************************************************************************)
EXTENDS Sequences, Naturals

CONSTANTS Drivers, Null

VARIABLE ledger    \* the rides in the order of their ids

Entry(type) == [type |-> type, status |-> "requested", driver |-> Null,
                paymentStatus |-> "unpaid"]

LifecycleInit == ledger = <<>>

Request == \E type \in {"online", "scheduled"} :
              ledger' = Append(ledger, Entry(type))

Match(id) ==
    /\ ledger[id].status = "requested"
    /\ \/ \E d \in Drivers :
             ledger' = [ledger EXCEPT ![id].status = "assigned", ![id].driver = d]
       \/ ledger' = [ledger EXCEPT ![id].status = "no_driver"]

Move(id, from, to) ==
    /\ ledger[id].type = "online"
    /\ ledger[id].status \in from
    /\ ledger' = [ledger EXCEPT ![id].status = to]

Undone == {"requested", "assigned", "accepted", "started", "no_driver"}

Transition(id) ==
    \/ Match(id)
    \/ Move(id, {"assigned"}, "accepted")
    \/ Move(id, {"accepted"}, "started")
    \/ Move(id, {"started"}, "completed")
    \/ Move(id, Undone, "cancelled_by_rider")
    \/ Move(id, {"assigned", "accepted", "started"}, "cancelled_by_driver")

Pay(id) ==
    /\ ledger[id].status = "completed"
    /\ ledger[id].paymentStatus = "unpaid"
    /\ ledger' = [ledger EXCEPT ![id].paymentStatus = "paid"]

LifecycleNext == Request \/ \E id \in DOMAIN ledger : Transition(id) \/ Pay(id)

LifecycleSpec == LifecycleInit /\ [][LifecycleNext]_ledger
=============================================================================
