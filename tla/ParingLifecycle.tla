--------------------------- MODULE ParingLifecycle ---------------------------
(***************************************************************************)
(* What an offline pairing promises to the driver who asked for it and to  *)
(* the rider who sends its code (README.md:76-82): it is worth rides with  *)
(* that driver, one where it keeps the promise of README.md:79, each       *)
(* recorded as it is spent.  Nothing is said of handlers, clocks or        *)
(* digits.                                                                 *)
(***************************************************************************)
EXTENDS Sequences, Naturals, FiniteSets

CONSTANTS
    Drivers,
    Uses       \* how many rides a pairing is worth

VARIABLES
    ledger,    \* the pairings in the order of their ids
    records    \* the offline rides in the order of theirs

LifecycleInit == ledger = <<>> /\ records = <<>>

Issue ==
    /\ \E d \in Drivers : ledger' = Append(ledger, [driver |-> d, status |-> "active"])
    /\ UNCHANGED records

Expire(ids) ==
    /\ \A id \in ids : ledger[id].status = "active"
    /\ ledger' = [id \in DOMAIN ledger |->
                    IF id \in ids THEN [ledger[id] EXCEPT !.status = "expired"]
                                  ELSE ledger[id]]
    /\ UNCHANGED records

\* A request that found the pairing in time may record its ride after the end.
Spend(id) ==
    /\ Cardinality({i \in DOMAIN records : records[i].paring = id}) < Uses
    /\ ledger' = [ledger EXCEPT ![id].status = "used"]
    /\ records' = Append(records, [driver |-> ledger[id].driver, paring |-> id])

LifecycleNext ==
    \/ Issue
    \/ \E ids \in SUBSET DOMAIN ledger : Expire(ids)
    \/ \E id \in DOMAIN ledger : Spend(id)

LifecycleSpec == LifecycleInit /\ [][LifecycleNext]_<<ledger, records>>
=============================================================================
