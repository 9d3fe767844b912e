----------------------------- MODULE MCAccounts -----------------------------
(* Small instances of Accounts and Logins for TLC. *)
EXTENDS Logins, TLC

\* Tasks, visitors, mobiles and addresses are interchangeable.
MCSymmetry ==
    Permutations(Tasks) \cup Permutations(Visitors)
        \cup Permutations(Mobiles) \cup Permutations(Emails)
=============================================================================
