--------------------------- MODULE AccountsProofs ---------------------------
(***************************************************************************)
(* Accounts keeps its invariants for any number of handlers, numbers and   *)
(* addresses.  Inv says that the id a transaction has got from its first   *)
(* INSERT is nobody else's, which is why its two rows cannot end up with   *)
(* two users, and that "users" is finite, which counting needs.            *)
(***************************************************************************)
EXTENDS Accounts, FiniteSetTheorems, TLAPS

HoldsId(t) == task[t].pc \in {"insertDriver", "commit"}

TaskInv(t) ==
    /\ task[t].pc # "idle" => task[t].user \in UserRow
    /\ task[t].pc = "insert" => task[t].user.type = "rider"
    /\ task[t].pc \in {"insertUser", "insertDriver", "commit"} =>
          task[t].user.type = "driver"
    /\ HoldsId(t) =>
          /\ task[t].user.id \in 1..lastId
          /\ task[t].user.id \notin drivers
          /\ \A u \in users : u.id # task[t].user.id

IdsApart ==
    \A s, t \in Tasks :
        HoldsId(s) /\ HoldsId(t) /\ task[s].user.id = task[t].user.id => s = t

Inv ==
    /\ TypeOK
    /\ IsFiniteSet(users)
    /\ \A t \in Tasks : TaskInv(t)
    /\ IdsApart
    /\ DriverUsersHaveRow

\* The accounts with an identifier and the registrations under way for it.
Made(type, i) == {u \in users : u.type = type /\ Has(u, i)}

UnderWay(type, i) == {t \in Busy : task[t].user.type = type /\ Has(task[t].user, i)}

Bounded(type, i) ==
    Cardinality(Made(type, i)) + Cardinality(UnderWay(type, i)) <= Cardinality(Tasks)

-----------------------------------------------------------------------------
LEMMA WithIdRow ==
  ASSUME TypeOK, NEW user \in UserRow
  PROVE  /\ WithId(user) \in UserRow
         /\ WithId(user).id = lastId + 1
         /\ WithId(user).type = user.type
         /\ \A i : Has(WithId(user), i) <=> Has(user, i)
BY DEF WithId, UserRow, TypeOK, Has

LEMMA InitInv == Init => Inv
BY FS_EmptySet DEF Init, Inv, TypeOK, TaskInv, IdsApart, DriverUsersHaveRow, HoldsId,
   IdleTask, AccountTask

\* A handler that starts, or ends without a commit, disturbs no table.
LEMMA RegisterKeepsInv ==
  ASSUME Inv, NEW t \in Tasks, NEW type \in UserType, NEW mobile \in Mobiles,
         NEW email \in Emails \cup {NoEmail}, NEW pc \in {"insert", "insertUser"},
         pc = "insert" <=> type = "rider", Register(t, type, mobile, email, pc)
  PROVE  Inv'
<1> DEFINE user == [id |-> 0, type |-> type, mobile |-> mobile, email |-> email]
<1>1. user \in UserRow /\ user.type = type
  BY DEF UserRow
<1>2. /\ task' = [task EXCEPT ![t] = [pc |-> pc, user |-> user]]
      /\ UNCHANGED <<users, drivers, lastId>>
      /\ task \in [Tasks -> AccountTask]
  BY DEF Register, Goto, Inv, TypeOK
<1> HIDE DEF user
<1>3. TypeOK'
  BY <1>1, <1>2 DEF Inv, TypeOK, AccountTask
<1>4. (\A s \in Tasks : TaskInv(s))'
  BY <1>1, <1>2 DEF Inv, TaskInv, HoldsId, UserType
<1>5. IdsApart'
  BY <1>2 DEF Inv, IdsApart, HoldsId
<1>6. IsFiniteSet(users)' /\ DriverUsersHaveRow'
  BY <1>2 DEF Inv, DriverUsersHaveRow
<1> QED BY <1>3, <1>4, <1>5, <1>6 DEF Inv

LEMMA AbortKeepsInv == ASSUME Inv, NEW t \in Tasks, Abort(t) PROVE Inv'
<1>1. /\ task' = [task EXCEPT ![t] = IdleTask]
      /\ UNCHANGED <<users, drivers, lastId>>
      /\ task \in [Tasks -> AccountTask]
  BY DEF Abort, Finish, Inv, TypeOK
<1>2. TypeOK'
  BY <1>1 DEF Inv, TypeOK, AccountTask, IdleTask
<1>3. (\A s \in Tasks : TaskInv(s))' /\ IdsApart'
  BY <1>1 DEF Inv, TaskInv, IdsApart, HoldsId, IdleTask
<1>4. IsFiniteSet(users)' /\ DriverUsersHaveRow'
  BY <1>1 DEF Inv, DriverUsersHaveRow
<1> QED BY <1>2, <1>3, <1>4 DEF Inv

\* The INSERT of a rider takes an id that nothing refers to.
LEMMA CreateKeepsInv == ASSUME Inv, NEW t \in Tasks, create(t) PROVE Inv'
<1> DEFINE row == WithId(task[t].user)
<1>1. /\ task[t].pc = "insert" /\ task[t].user \in UserRow /\ task[t].user.type = "rider"
      /\ task' = [task EXCEPT ![t] = IdleTask] /\ task \in [Tasks -> AccountTask]
      /\ lastId' = lastId + 1 /\ lastId \in Nat
      /\ users' = users \cup {row} /\ drivers' = drivers
  BY DEF create, Finish, Inv, TypeOK, TaskInv
<1>2. row \in UserRow /\ row.id = lastId + 1 /\ row.type = "rider"
  BY <1>1, WithIdRow DEF Inv
<1> HIDE DEF row
<1>3. TypeOK'
  BY <1>1, <1>2 DEF Inv, TypeOK, AccountTask, IdleTask
<1>4. (\A s \in Tasks : TaskInv(s))' /\ IdsApart'
  BY <1>1, <1>2 DEF Inv, TypeOK, TaskInv, IdsApart, HoldsId, IdleTask
<1>5. IsFiniteSet(users)'
  BY <1>1, FS_AddElement DEF Inv
<1>6. DriverUsersHaveRow'
  BY <1>1, <1>2 DEF Inv, TypeOK, DriverUsersHaveRow
<1> QED BY <1>3, <1>4, <1>5, <1>6 DEF Inv

\* The transaction's first INSERT: the id is taken, the row still hidden.
LEMMA InsertUserKeepsInv == ASSUME Inv, NEW t \in Tasks, insertUser(t) PROVE Inv'
<1> DEFINE row == WithId(task[t].user)
<1>1. /\ task[t].pc = "insertUser" /\ task[t].user \in UserRow
      /\ task[t].user.type = "driver"
      /\ task' = [task EXCEPT ![t] = [pc |-> "insertDriver", user |-> row]]
      /\ task \in [Tasks -> AccountTask]
      /\ lastId' = lastId + 1 /\ lastId \in Nat
      /\ users' = users /\ drivers' = drivers
  BY DEF insertUser, Goto, Inv, TypeOK, TaskInv
<1>2. row \in UserRow /\ row.id = lastId + 1 /\ row.type = "driver"
  BY <1>1, WithIdRow DEF Inv
<1> HIDE DEF row
<1>3. TypeOK'
  BY <1>1, <1>2 DEF Inv, TypeOK, AccountTask
<1>4. (\A s \in Tasks : TaskInv(s))'
  BY <1>1, <1>2 DEF Inv, TypeOK, TaskInv, HoldsId
<1>5. IdsApart'
  BY <1>1, <1>2 DEF Inv, TaskInv, IdsApart, HoldsId
<1>6. IsFiniteSet(users)' /\ DriverUsersHaveRow'
  BY <1>1 DEF Inv, DriverUsersHaveRow
<1> QED BY <1>3, <1>4, <1>5, <1>6 DEF Inv

LEMMA InsertDriverKeepsInv == ASSUME Inv, NEW t \in Tasks, insertDriver(t) PROVE Inv'
<1>1. /\ task[t].pc = "insertDriver"
      /\ task' = [task EXCEPT ![t] = [pc |-> "commit", user |-> task[t].user]]
      /\ task \in [Tasks -> AccountTask]
      /\ UNCHANGED <<users, drivers, lastId>>
  BY DEF insertDriver, Goto, Inv, TypeOK
<1>2. TypeOK'
  BY <1>1 DEF Inv, TypeOK, AccountTask
<1>3. (\A s \in Tasks : TaskInv(s))' /\ IdsApart'
  BY <1>1 DEF Inv, TaskInv, IdsApart, HoldsId
<1>4. IsFiniteSet(users)' /\ DriverUsersHaveRow'
  BY <1>1 DEF Inv, DriverUsersHaveRow
<1> QED BY <1>2, <1>3, <1>4 DEF Inv

\* The COMMIT shows both rows under an id no other handler holds.
LEMMA CommitKeepsInv == ASSUME Inv, NEW t \in Tasks, commit(t) PROVE Inv'
<1> DEFINE row == task[t].user
<1>1. /\ task[t].pc = "commit" /\ row \in UserRow /\ row.type = "driver"
      /\ row.id \in 1..lastId /\ row.id \notin drivers /\ \A u \in users : u.id # row.id
      /\ task' = [task EXCEPT ![t] = IdleTask] /\ task \in [Tasks -> AccountTask]
      /\ users' = users \cup {row} /\ drivers' = drivers \cup {row.id}
      /\ lastId' = lastId
  BY DEF commit, Finish, Inv, TypeOK, TaskInv, HoldsId
<1>2. TypeOK'
  BY <1>1 DEF Inv, TypeOK, AccountTask, IdleTask
<1>3. (\A s \in Tasks : TaskInv(s))'
  BY <1>1 DEF Inv, TaskInv, IdsApart, HoldsId, IdleTask
<1>4. IdsApart'
  BY <1>1 DEF Inv, IdsApart, HoldsId, IdleTask
<1>5. IsFiniteSet(users)'
  BY <1>1, FS_AddElement DEF Inv
<1>6. DriverUsersHaveRow'
  BY <1>1 DEF Inv, DriverUsersHaveRow
<1> QED BY <1>2, <1>3, <1>4, <1>5, <1>6 DEF Inv

LEMMA NextKeepsInv == Inv /\ [Next]_vars => Inv'
<1> SUFFICES ASSUME Inv, [Next]_vars PROVE Inv'
  OBVIOUS
<1>1. ASSUME NEW t \in Tasks, NEW mobile \in Mobiles, NEW email \in Emails \cup {NoEmail},
             riderRegister(t, mobile, email) \/ driverRegister(t, mobile, email)
      PROVE  Inv'
  BY <1>1, RegisterKeepsInv DEF riderRegister, driverRegister, UserType
<1>2. CASE UNCHANGED vars
  BY <1>2 DEF Inv, TypeOK, TaskInv, IdsApart, HoldsId, DriverUsersHaveRow, vars
<1> QED BY <1>1, <1>2, CreateKeepsInv, InsertUserKeepsInv, InsertDriverKeepsInv,
           CommitKeepsInv, AbortKeepsInv DEF Next

THEOREM Invariance == Spec => []Inv
BY InitInv, NextKeepsInv, PTL DEF Spec

\* The tables and the handlers are well formed in every reachable state.
THEOREM TypeCorrect == Spec => []TypeOK
<1>1. Inv => TypeOK
  BY DEF Inv
<1> QED BY <1>1, Invariance, PTL

\* A driver's two rows appear together or not at all, whatever fails.
THEOREM DriversAreWhole == Spec => []DriverUsersHaveRow
<1>1. Inv => DriverUsersHaveRow
  BY DEF Inv
<1> QED BY <1>1, Invariance, PTL

-----------------------------------------------------------------------------
LEMMA Finite ==
  ASSUME Inv, NEW type, NEW i
  PROVE  /\ IsFiniteSet(Made(type, i)) /\ Cardinality(Made(type, i)) \in Nat
         /\ IsFiniteSet(UnderWay(type, i)) /\ Cardinality(UnderWay(type, i)) \in Nat
         /\ Cardinality(UnderWay(type, i)) <= Cardinality(Tasks)
         /\ Cardinality(Tasks) \in Nat
<1>1. Made(type, i) \in SUBSET users /\ IsFiniteSet(users)
  BY DEF Made, Inv
<1>2. UnderWay(type, i) \in SUBSET Tasks /\ IsFiniteSet(Tasks)
  BY AccountsAssumption DEF UnderWay, Busy
<1> QED BY <1>1, <1>2, FS_Subset, FS_CardinalityType

\* A registration that ends or fails leaves the count no higher.
LEMMA NothingNew ==
  ASSUME Inv, NEW type, NEW i, Bounded(type, i),
         Made(type, i)' = Made(type, i),
         UnderWay(type, i)' \in SUBSET UnderWay(type, i)
  PROVE  Bounded(type, i)'
<1>1. /\ Cardinality(UnderWay(type, i)') <= Cardinality(UnderWay(type, i))
      /\ Cardinality(UnderWay(type, i)') \in Nat
  BY Finite, FS_Subset, FS_CardinalityType
<1>2. Cardinality(Made(type, i)') = Cardinality(Made(type, i))
  OBVIOUS
<1>3. Cardinality(Made(type, i)) \in Nat /\ Cardinality(UnderWay(type, i)) \in Nat
      /\ Cardinality(Tasks) \in Nat
  BY Finite
<1> QED BY <1>1, <1>2, <1>3 DEF Bounded

\* A registration that succeeds is one account more and one handler less.
LEMMA OneMoves ==
  ASSUME Inv, NEW type, NEW i, Bounded(type, i), NEW row, NEW t \in UnderWay(type, i),
         Made(type, i)' = Made(type, i) \cup {row},
         UnderWay(type, i)' = UnderWay(type, i) \ {t}
  PROVE  Bounded(type, i)'
<1>1. Cardinality(UnderWay(type, i)') = Cardinality(UnderWay(type, i)) - 1
  BY Finite, FS_RemoveElement
<1>2. \/ Cardinality(Made(type, i)') = Cardinality(Made(type, i))
      \/ Cardinality(Made(type, i)') = Cardinality(Made(type, i)) + 1
  BY Finite, FS_AddElement
<1>3. Cardinality(Made(type, i)) \in Nat /\ Cardinality(UnderWay(type, i)) \in Nat
      /\ Cardinality(Tasks) \in Nat
  BY Finite
<1> QED BY <1>1, <1>2, <1>3 DEF Bounded

\* The SELECT of a registration sees every account that has its identifiers.
LEMMA RegisterKeepsBound ==
  ASSUME Inv, Inv', NEW type \in UserType, NEW i \in Mobiles \cup Emails,
         Bounded(type, i), NEW t \in Tasks, NEW ty \in UserType, NEW mobile \in Mobiles,
         NEW email \in Emails \cup {NoEmail}, NEW pc \in {"insert", "insertUser"},
         Register(t, ty, mobile, email, pc)
  PROVE  Bounded(type, i)'
<1> DEFINE user == [id |-> 0, type |-> ty, mobile |-> mobile, email |-> email]
<1>1. /\ task[t].pc = "idle"
      /\ findByEmailOrPhone(mobile, email, ty) = {}
      /\ task' = [task EXCEPT ![t] = [pc |-> pc, user |-> user]]
      /\ users' = users /\ task \in [Tasks -> AccountTask]
  BY DEF Register, Goto, Inv, TypeOK
<1>2. Made(type, i)' = Made(type, i)
  BY <1>1 DEF Made
<1>3. CASE ty = type /\ Has(user, i)
  <2>1. i = mobile \/ (email # NoEmail /\ i = email)
    BY <1>3, AccountsAssumption DEF Has
  <2>2. \A u \in users : u.type = type => ~Shares(u, mobile, email)
    BY <1>1, <1>3 DEF findByEmailOrPhone
  <2>3. users \subseteq UserRow
    BY DEF Inv, TypeOK
  <2>4. Made(type, i) = {}
    <3> SUFFICES ASSUME NEW u \in users, u.type = type, Has(u, i) PROVE FALSE
      BY DEF Made
    <3>1. u.mobile \in Mobiles /\ u.email \in Emails \cup {NoEmail}
      BY <2>3 DEF UserRow
    <3>2. Shares(u, mobile, email)
      BY <2>1, <3>1, AccountsAssumption DEF Has, Shares
    <3> QED BY <2>2, <3>2
  <2>5. Cardinality(Made(type, i)') = 0
    BY <1>2, <2>4, FS_EmptySet
  <2>6. /\ Cardinality(UnderWay(type, i)') <= Cardinality(Tasks)
        /\ Cardinality(UnderWay(type, i)') \in Nat
    <3>1. UnderWay(type, i)' \in SUBSET Tasks
      BY DEF UnderWay, Busy
    <3> QED BY <3>1, FS_Subset, FS_CardinalityType, AccountsAssumption
  <2> QED BY <2>5, <2>6, Finite DEF Bounded
<1>4. CASE ~(ty = type /\ Has(user, i))
  <2>1. user.type = ty
    OBVIOUS
  <2> HIDE DEF user
  <2>2. UnderWay(type, i)' \in SUBSET UnderWay(type, i)
    BY <1>1, <1>4, <2>1 DEF UnderWay, Busy
  <2> QED BY <1>2, <2>2, NothingNew
<1> QED BY <1>3, <1>4

\* A handler's row becomes an account, by the INSERT of create or by a commit.
LEMMA MadeKeepsBound ==
  ASSUME Inv, NEW type \in UserType, NEW i, Bounded(type, i),
         NEW t \in Busy, NEW row, row.type = task[t].user.type,
         Has(row, i) <=> Has(task[t].user, i),
         users' = users \cup {row}, task' = [task EXCEPT ![t] = IdleTask]
  PROVE  Bounded(type, i)'
<1>1. t \in Tasks /\ task \in [Tasks -> AccountTask]
  BY DEF Busy, Inv, TypeOK
<1>2. UnderWay(type, i)' = UnderWay(type, i) \ {t}
  BY <1>1 DEF UnderWay, Busy, IdleTask
<1>3. CASE row.type = type /\ Has(row, i)
  <2>1. Made(type, i)' = Made(type, i) \cup {row}
    BY <1>3 DEF Made
  <2>2. t \in UnderWay(type, i)
    BY <1>3 DEF UnderWay
  <2> QED BY <1>2, <2>1, <2>2, OneMoves
<1>4. CASE ~(row.type = type /\ Has(row, i))
  <2>1. Made(type, i)' = Made(type, i)
    BY <1>4 DEF Made
  <2> QED BY <1>2, <2>1, NothingNew
<1> QED BY <1>3, <1>4

LEMMA NextKeepsBound ==
  ASSUME Inv, Inv', [Next]_vars, NEW type \in UserType, NEW i \in Mobiles \cup Emails,
         Bounded(type, i)
  PROVE  Bounded(type, i)'
<1> USE DEF Inv, TypeOK
<1>1. ASSUME NEW t \in Tasks, NEW mobile \in Mobiles, NEW email \in Emails \cup {NoEmail},
             riderRegister(t, mobile, email) \/ driverRegister(t, mobile, email)
      PROVE  Bounded(type, i)'
  BY <1>1, RegisterKeepsBound DEF riderRegister, driverRegister, UserType
<1>2. ASSUME NEW t \in Tasks, create(t) PROVE Bounded(type, i)'
  <2> DEFINE row == WithId(task[t].user)
  <2>1. /\ t \in Busy /\ task[t].user \in UserRow
        /\ users' = users \cup {row} /\ task' = [task EXCEPT ![t] = IdleTask]
    BY <1>2 DEF create, Finish, Busy, TaskInv
  <2>2. row.type = task[t].user.type /\ (Has(row, i) <=> Has(task[t].user, i))
    BY <2>1, WithIdRow
  <2> QED BY <2>1, <2>2, MadeKeepsBound
<1>3. ASSUME NEW t \in Tasks, commit(t) PROVE Bounded(type, i)'
  <2>1. /\ t \in Busy
        /\ users' = users \cup {task[t].user} /\ task' = [task EXCEPT ![t] = IdleTask]
    BY <1>3 DEF commit, Finish, Busy
  <2> QED BY <2>1, MadeKeepsBound
<1>4. ASSUME NEW t \in Tasks, insertUser(t) PROVE Bounded(type, i)'
  <2> DEFINE row == WithId(task[t].user)
  <2>1. /\ task[t].pc = "insertUser" /\ task[t].user \in UserRow
        /\ users' = users
        /\ task' = [task EXCEPT ![t] = [pc |-> "insertDriver", user |-> row]]
    BY <1>4 DEF insertUser, Goto, TaskInv
  <2>2. row.type = task[t].user.type /\ (Has(row, i) <=> Has(task[t].user, i))
    BY <2>1, WithIdRow
  <2> HIDE DEF row
  <2>3. UnderWay(type, i)' \in SUBSET UnderWay(type, i)
    BY <2>1, <2>2 DEF UnderWay, Busy
  <2>4. Made(type, i)' = Made(type, i)
    BY <2>1 DEF Made
  <2> QED BY <2>3, <2>4, NothingNew
<1>5. ASSUME NEW t \in Tasks, insertDriver(t) \/ Abort(t) PROVE Bounded(type, i)'
  <2>1. UnderWay(type, i)' \in SUBSET UnderWay(type, i)
    BY <1>5 DEF insertDriver, Abort, Goto, Finish, IdleTask, UnderWay, Busy
  <2>2. Made(type, i)' = Made(type, i)
    BY <1>5 DEF insertDriver, Abort, Made
  <2> QED BY <2>1, <2>2, NothingNew
<1>6. CASE UNCHANGED vars
  <2>1. Made(type, i)' = Made(type, i) /\ UnderWay(type, i)' = UnderWay(type, i)
    BY <1>6 DEF vars, Made, UnderWay, Busy
  <2> QED BY <2>1, NothingNew
<1> QED BY <1>1, <1>2, <1>3, <1>4, <1>5, <1>6 DEF Next

\* Accounts that share an identifier are no more than the handlers that can
\* overlap; with one handler at a time, an identifier has one account.
THEOREM DuplicatesAreFromOverlaps == Spec => []DuplicatesNeedOverlap
<1> DEFINE AllBounded == \A type \in UserType, i \in Mobiles \cup Emails : Bounded(type, i)
<1>1. Init => AllBounded
  <2> SUFFICES ASSUME Init, NEW type, NEW i PROVE Bounded(type, i)
    OBVIOUS
  <2>1. Made(type, i) = {} /\ UnderWay(type, i) = {}
    BY DEF Init, Made, UnderWay, Busy, IdleTask
  <2> QED BY <2>1, FS_EmptySet, FS_CardinalityType, AccountsAssumption DEF Bounded
<1>2. Inv /\ Inv' /\ AllBounded /\ [Next]_vars => AllBounded'
  BY NextKeepsBound
<1>3. AllBounded => DuplicatesNeedOverlap
  BY DEF Bounded, DuplicatesNeedOverlap, Made, UnderWay
<1> HIDE DEF AllBounded
<1> QED BY <1>1, <1>2, <1>3, Invariance, PTL DEF Spec
=============================================================================
