------------------------------ MODULE Accounts ------------------------------
(***************************************************************************)
(* Registration: riderRegister and driverRegister of src/service/auth.ts   *)
(* and the queries of src/repo/user.ts.                                    *)
(*                                                                         *)
(* As in RideService, a task is a handler suspended on an await:           *)
(*   "insert"        the password hash and the INSERT       auth.ts:53,65  *)
(*   "insertUser"    the transaction's first INSERT         user.ts:51     *)
(*   "insertDriver"  its second INSERT                      user.ts:52     *)
(*   "commit"        its COMMIT                             user.ts:68     *)
(* What a transaction has written stays in its task until it commits: no   *)
(* other connection sees it.  Mobiles are in the form normalizeMobile      *)
(* gives them before the first query; names and passwords are left out.    *)
(***************************************************************************)
EXTENDS Integers, FiniteSets

CONSTANTS
    Mobiles,       \* E.164 numbers
    Emails,        \* lower-case addresses
    NoEmail,       \* the empty string the validation puts for no address
    Null,          \* the row of a handler that writes none
    Tasks,         \* handlers that can be suspended at the same time
    MaxUsers,      \* bound on users.id, for model checking
    Faults         \* may a database call fail or the process die?

ASSUME AccountsAssumption ==
    /\ Mobiles \cap Emails = {}
    /\ NoEmail \notin Emails \cup Mobiles
    /\ Null \notin [id : Nat, type : {"rider", "driver"}, mobile : Mobiles,
                    email : Emails \cup {NoEmail}]
    /\ IsFiniteSet(Tasks)
    /\ MaxUsers \in Nat
    /\ Faults \in BOOLEAN

VARIABLES
    users,      \* the "users" table, as committed
    drivers,    \* the userId column of the "drivers" table, as committed
    lastId,     \* AUTO_INCREMENT of "users": a rollback does not take it back
    task        \* the suspended handlers

vars == <<users, drivers, lastId, task>>

UserType == {"rider", "driver"}

UserRow == [id : Nat, type : UserType, mobile : Mobiles, email : Emails \cup {NoEmail}]

AccountTask ==
    [pc   : {"idle", "insert", "insertUser", "insertDriver", "commit"},
     user : UserRow \cup {Null}]    \* the row to write, with id 0 until it has one

IdleTask == [pc |-> "idle", user |-> Null]

Init ==
    /\ users = {}
    /\ drivers = {}
    /\ lastId = 0
    /\ task = [t \in Tasks |-> IdleTask]

-----------------------------------------------------------------------------
Busy == {t \in Tasks : task[t].pc # "idle"}

Goto(t, pc, user) == task' = [task EXCEPT ![t] = [pc |-> pc, user |-> user]]

Finish(t) == task' = [task EXCEPT ![t] = IdleTask]

Shares(u, mobile, email) == u.mobile = mobile \/ (email # NoEmail /\ u.email = email)

\* Mutant: the identifiers are joined by AND.
findByEmailOrPhone_both(mobile, email, type) ==
    {u \in users : u.type = type /\ u.mobile = mobile /\ u.email = email}

\* Mutant: the type is not asked for.
findByEmailOrPhone_anyType(mobile, email, type) ==
    {u \in users : Shares(u, mobile, email)}

\* WHERE (email = .. OR mobile = ..) AND type = ..; an empty address is not
\* asked for, and no code makes a user inactive.
findByEmailOrPhone(mobile, email, type) ==
    {u \in users : u.type = type /\ Shares(u, mobile, email)}

Register(t, type, mobile, email, pc) ==
    /\ task[t].pc = "idle"
    /\ lastId + Cardinality(Busy) < MaxUsers
    /\ findByEmailOrPhone(mobile, email, type) = {}
    /\ Goto(t, pc, [id |-> 0, type |-> type, mobile |-> mobile, email |-> email])
    /\ UNCHANGED <<users, drivers, lastId>>

riderRegister(t, mobile, email) == Register(t, "rider", mobile, email, "insert")

driverRegister(t, mobile, email) == Register(t, "driver", mobile, email, "insertUser")

\* Mutant: the id of the INSERT is not taken over.
WithId_forgotten(user) == user

WithId(user) == [user EXCEPT !.id = lastId + 1]

create(t) ==
    /\ task[t].pc = "insert"
    /\ lastId' = lastId + 1
    /\ users' = users \cup {WithId(task[t].user)}
    /\ Finish(t)
    /\ UNCHANGED drivers

\* Mutant: { transaction } is not passed to User.create, which commits alone.
insertUser_alone(t) ==
    /\ task[t].pc = "insertUser"
    /\ lastId' = lastId + 1
    /\ users' = users \cup {WithId(task[t].user)}
    /\ Goto(t, "insertDriver", WithId(task[t].user))
    /\ UNCHANGED drivers

insertUser(t) ==
    /\ task[t].pc = "insertUser"
    /\ lastId' = lastId + 1
    /\ Goto(t, "insertDriver", WithId(task[t].user))
    /\ UNCHANGED <<users, drivers>>

insertDriver(t) ==
    /\ task[t].pc = "insertDriver"
    /\ Goto(t, "commit", task[t].user)
    /\ UNCHANGED <<users, drivers, lastId>>

commit(t) ==
    /\ task[t].pc = "commit"
    /\ users' = users \cup {task[t].user}
    /\ drivers' = drivers \cup {task[t].user.id}
    /\ Finish(t)
    /\ UNCHANGED lastId

\* A call rejects or the process dies; an open transaction is rolled back.
Abort(t) ==
    /\ Faults
    /\ task[t].pc # "idle"
    /\ Finish(t)
    /\ UNCHANGED <<users, drivers, lastId>>

Next ==
    \E t \in Tasks :
        \/ \E mobile \in Mobiles, email \in Emails \cup {NoEmail} :
              riderRegister(t, mobile, email) \/ driverRegister(t, mobile, email)
        \/ create(t)
        \/ insertUser(t)
        \/ insertDriver(t)
        \/ commit(t)
        \/ Abort(t)

Spec == Init /\ [][Next]_vars

-----------------------------------------------------------------------------
\* The tables and the suspended handlers are well formed: a committed user has
\* an id that AUTO_INCREMENT has given.
TypeOK ==
    /\ lastId \in Nat
    /\ users \subseteq {u \in UserRow : u.id \in 1..lastId}
    /\ drivers \subseteq 1..lastId
    /\ task \in [Tasks -> AccountTask]

\* repo/user.ts:49-62.  Going online and matching look a driver up in "drivers":
\* a user of type driver is never without that row, nor a row without the user,
\* whatever fails between the two INSERTs.
DriverUsersHaveRow ==
    /\ \A u \in users : u.type = "driver" <=> u.id \in drivers
    /\ \A d \in drivers : \E u \in users : u.id = d

Has(user, identifier) == user.mobile = identifier \/ user.email = identifier

\* service/auth.ts:50, :104.  Only the SELECT at the start of a registration
\* keeps two accounts of one type from sharing a mobile or an address.  Those
\* that do come from registrations that overlapped: there are no more of them
\* than handlers, and one at most when handlers run one at a time.
DuplicatesNeedOverlap ==
    \A type \in UserType, identifier \in Mobiles \cup Emails :
        LET made == {u \in users : u.type = type /\ Has(u, identifier)}
            underWay == {t \in Busy : /\ task[t].user.type = type
                                      /\ Has(task[t].user, identifier)}
        IN Cardinality(made) + Cardinality(underWay) <= Cardinality(Tasks)
=============================================================================
