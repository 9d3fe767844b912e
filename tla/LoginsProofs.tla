---------------------------- MODULE LoginsProofs ----------------------------
(***************************************************************************)
(* Logins keeps its invariants for any clients, accounts and expiries.  A  *)
(* login writes neither table, so Logins implements Accounts and inherits  *)
(* its invariant; accounts are never deleted, so what a login has found    *)
(* stays true.  Inv (of AccountsProofs) gives the rest: the users and      *)
(* drivers rows of a driver are committed together.                        *)
(***************************************************************************)
EXTENDS Logins, AccountsProofs

\* What is known of a client: the accounts it refers to exist, a row being
\* compared has an identifier that was typed, a token is one of its account.
VisitorInv(v) ==
    /\ visitor[v].owner \in Riders \cup {Null}
    /\ NoEmail \notin visitor[v].given
    /\ visitor[v].pc = "compare" =>
          /\ visitor[v].user \in Riders
          /\ \/ visitor[v].user.mobile \in visitor[v].given
             \/ visitor[v].user.email \in visitor[v].given
    /\ visitor[v].pc = "in" =>
          visitor[v].user \in users /\ visitor[v].user.type = visitor[v].type
    /\ visitor[v].pc = "in" /\ visitor[v].type = "driver" => visitor[v].otp \in OtpToken

LoginInv ==
    /\ LoginTypeOK
    /\ \A v \in Visitors : VisitorInv(v)
    /\ RefusedOnlyIfShared
    /\ OtpProvedInTime
    /\ \A a \in acted : \E u \in users : a = <<u.id, u.type>>

-----------------------------------------------------------------------------
LEMMA StepImplementsAccounts == [LoginNext]_<<vars, loginVars>> => [Next]_vars
BY DEF LoginNext, riderLogin, compareOk, compareFails, abortLogin, requestDriverOtp,
   verifyDriverOtp, request, Tick, vars

\* A login, a token or a request changes nothing that a registration reads.
THEOREM LoginsImplementAccounts == LoginSpec => Spec
<1>1. LoginInit => Init
  BY DEF LoginInit
<1> QED BY <1>1, StepImplementsAccounts, PTL DEF LoginSpec, Spec

\* No step takes an account away.
LEMMA UsersStay == [Next]_vars => users \subseteq users'
BY DEF Next, riderRegister, driverRegister, Register, create, insertUser, insertDriver,
   commit, Abort, vars

LEMMA OutState == Out \in Visitor
BY DEF Out, Visitor, UserType

LEMMA InitLoginInv == LoginInit => LoginInv
<1> SUFFICES ASSUME LoginInit PROVE LoginInv
  OBVIOUS
<1>1. LoginTypeOK
  BY OutState, LoginsAssumption DEF LoginInit, LoginTypeOK, Out
<1> QED BY <1>1 DEF LoginInit, LoginInv, VisitorInv, RefusedOnlyIfShared, OtpProvedInTime, Out

-----------------------------------------------------------------------------
\* A step of a registration: the tables only grow.
LEMMA RegistrationKeepsLoginInv ==
  ASSUME LoginInv, users \subseteq users', UNCHANGED loginVars
  PROVE  LoginInv'
<1> USE DEF LoginInv, loginVars
<1>1. LoginTypeOK'
  BY DEF LoginTypeOK
<1>2. Riders \subseteq Riders'
  BY DEF Riders
<1>3. (\A v \in Visitors : VisitorInv(v))'
  BY <1>2 DEF VisitorInv
<1>4. RefusedOnlyIfShared' /\ OtpProvedInTime'
  BY <1>2 DEF RefusedOnlyIfShared, OtpProvedInTime, OwnCredentials
<1> QED BY <1>1, <1>3, <1>4

\* What one client does is judged by the state it gets.
LEMMA VisitorStepKeepsLoginInv ==
  ASSUME LoginInv, NEW v \in Visitors, NEW state \in Visitor, Become(v, state),
         UNCHANGED <<vars, clock, otps, acted>>,
         state.exp <= clock + JwtExpiry,
         VisitorInv(v)',
         state.pc = "refused" /\ OwnCredentials(v)' =>
            \E u \in Riders \ {state.owner} : Shares(u, state.owner.mobile, state.owner.email),
         state.pc = "in" /\ state.type = "driver" =>
            /\ state.otp.mobile = state.user.mobile
            /\ state.exp < state.otp.iat + OtpExpiry + JwtExpiry
  PROVE  LoginInv'
<1> USE DEF LoginInv
<1>1. /\ visitor' \in [Visitors -> Visitor] /\ visitor'[v] = state
      /\ \A w \in Visitors : w # v => visitor'[w] = visitor[w]
      /\ users' = users /\ Riders' = Riders
  BY DEF Become, LoginTypeOK, vars, Riders
<1>2. LoginTypeOK'
  BY <1>1 DEF LoginTypeOK
<1>3. (\A w \in Visitors : VisitorInv(w))'
  BY <1>1 DEF VisitorInv
<1>4. RefusedOnlyIfShared'
  BY <1>1 DEF RefusedOnlyIfShared, OwnCredentials
<1>5. OtpProvedInTime'
  BY <1>1 DEF OtpProvedInTime
<1> QED BY <1>1, <1>2, <1>3, <1>4, <1>5

-----------------------------------------------------------------------------
\* Whoever has an identifier that another account's owner typed, both its own,
\* shares it with the other.
LEMMA TypedMeansShared ==
  ASSUME NEW user \in UserRow, NEW owner \in UserRow, NEW given,
         NoEmail \notin given, given \subseteq {owner.mobile, owner.email},
         user.mobile \in given \/ user.email \in given
  PROVE  Shares(user, owner.mobile, owner.email)
BY AccountsAssumption DEF Shares, UserRow

\* service/auth.ts:71-81.  Who types identifiers of one account finds an account.
LEMMA RiderLoginKeepsInv ==
  ASSUME LoginInv, TypeOK, NEW v \in Visitors, NEW mobile \in Mobiles \cup {Null},
         NEW email \in Emails \cup {NoEmail}, NEW owner \in Riders \cup {Null},
         riderLogin(v, mobile, email, owner)
  PROVE  LoginInv'
<1> DEFINE given == Given(mobile, email)
           refused == [Out EXCEPT !.owner = owner, !.given = given, !.pc = "refused"]
           compare(user) == [Out EXCEPT !.owner = owner, !.given = given,
                                        !.pc = "compare", !.user = user]
           found == findByEmailOrPhone(mobile, email, "rider")
<1>1. /\ given # {} /\ NoEmail \notin given
      /\ given \in SUBSET (Mobiles \cup Emails)
  BY DEF riderLogin, Given
<1>2. owner \in UserRow \cup {Null} /\ Riders \subseteq UserRow
      /\ Riders' = Riders /\ UNCHANGED <<vars, clock, otps, acted>>
  BY DEF riderLogin, TypeOK, Riders, vars
<1>3. visitor \in [Visitors -> Visitor] /\ clock \in Nat /\ JwtExpiry \in Nat
  BY LoginsAssumption DEF LoginInv, LoginTypeOK
<1>4. \A user \in found : user \in Riders /\ (user.mobile \in given \/ user.email \in given)
  <2> SUFFICES ASSUME NEW user \in found
               PROVE  user \in Riders /\ (user.mobile \in given \/ user.email \in given)
    OBVIOUS
  <2>1. user \in Riders /\ Shares(user, mobile, email)
    BY DEF findByEmailOrPhone, Riders
  <2>2. user.mobile \in Mobiles
    BY <1>2, <2>1 DEF UserRow
  <2> QED BY <2>1, <2>2, AccountsAssumption, LoginsAssumption DEF Shares, Given
<1>5. ASSUME found = {}, owner # Null, given \subseteq {owner.mobile, owner.email}
      PROVE  FALSE
  <2>1. owner \in Riders /\ owner \in UserRow
    BY <1>2, <1>5
  <2>2. Shares(owner, mobile, email)
    BY <1>1, <1>5, <2>1, AccountsAssumption, LoginsAssumption DEF Given, Shares, UserRow
  <2> QED BY <1>5, <2>1, <2>2 DEF findByEmailOrPhone, Riders
<1>6. CASE found = {} /\ Become(v, refused)
  <2>1. refused \in Visitor /\ refused.pc = "refused" /\ refused.exp = 0
        /\ refused.owner = owner /\ refused.given = given
    BY <1>1, <1>2 DEF Out, Visitor, UserType
  <2> HIDE DEF refused, given, found
  <2>2. visitor'[v] = refused
    BY <1>3, <1>6 DEF Become
  <2>3. VisitorInv(v)'
    BY <1>1, <1>2, <2>1, <2>2 DEF VisitorInv
  <2>4. ~ OwnCredentials(v)'
    BY <1>5, <1>6, <2>1, <2>2 DEF OwnCredentials
  <2> QED BY <1>2, <1>3, <1>6, <2>1, <2>3, <2>4, VisitorStepKeepsLoginInv
<1>7. ASSUME NEW user \in found, Become(v, compare(user)) PROVE LoginInv'
  <2> DEFINE state == compare(user)
  <2>1. user \in Riders /\ user \in UserRow
    BY <1>2, <1>4
  <2>2. state \in Visitor /\ state.pc = "compare" /\ state.exp = 0
        /\ state.owner = owner /\ state.given = given /\ state.user = user
    BY <1>1, <1>2, <2>1 DEF Out, Visitor, UserType
  <2>3. Become(v, state)
    BY <1>7
  <2> HIDE DEF state, given, found
  <2>4. visitor'[v] = state
    BY <1>3, <2>3 DEF Become
  <2>5. VisitorInv(v)'
    BY <1>1, <1>2, <1>4, <1>7, <2>1, <2>2, <2>4 DEF VisitorInv
  <2> QED BY <1>2, <1>3, <2>2, <2>3, <2>5, VisitorStepKeepsLoginInv
<1> QED BY <1>6, <1>7 DEF riderLogin

\* The state a client gets with an access token.
LEMMA SignedState ==
  ASSUME NEW user \in UserRow, NEW type \in UserType, NEW otp \in OtpToken \cup {Null},
         clock \in Nat
  PROVE  LET state == signJwt(user, type, otp)
         IN /\ state \in Visitor /\ state.pc = "in" /\ state.user = user
            /\ state.type = type /\ state.otp = otp /\ state.exp = clock + JwtExpiry
            /\ state.owner = Null /\ state.given = {}
<1>1. clock + JwtExpiry \in Nat
  BY LoginsAssumption
<1> DEFINE exp == clock + JwtExpiry
           state == [Out EXCEPT !.pc = "in", !.user = user, !.type = type, !.otp = otp,
                                !.exp = exp]
<1> HIDE DEF exp
<1>2. /\ state \in Visitor /\ state.pc = "in" /\ state.user = user
      /\ state.type = type /\ state.otp = otp /\ state.exp = exp
      /\ state.owner = Null /\ state.given = {}
  BY <1>1 DEF Out, Visitor, exp
<1> QED BY <1>2 DEF signJwt, exp

\* service/auth.ts:83-94.  The account that was found gets the token.
LEMMA CompareOkKeepsInv ==
  ASSUME LoginInv, TypeOK, NEW v \in Visitors, compareOk(v)
  PROVE  LoginInv'
<1> DEFINE user == visitor[v].user
           state == signJwt(user, "rider", Null)
<1>1. user \in Riders /\ user \in UserRow /\ user \in users /\ user.type = "rider"
  BY DEF compareOk, LoginInv, VisitorInv, Riders, TypeOK
<1>2. /\ UNCHANGED <<vars, clock, otps, acted>> /\ Riders' = Riders /\ users' = users
      /\ visitor \in [Visitors -> Visitor] /\ clock \in Nat /\ JwtExpiry \in Nat
  BY LoginsAssumption DEF compareOk, LoginInv, LoginTypeOK, vars, Riders
<1>3. Become(v, state)
  BY DEF compareOk
<1>4. /\ state \in Visitor /\ state.pc = "in" /\ state.user = user
      /\ state.type = "rider" /\ state.exp = clock + JwtExpiry
      /\ state.owner = Null /\ state.given = {}
  BY <1>1, <1>2, SignedState DEF UserType
<1> HIDE DEF user, state
<1>5. visitor'[v] = state
  BY <1>2, <1>3 DEF Become
<1>6. VisitorInv(v)'
  BY <1>1, <1>2, <1>4, <1>5 DEF VisitorInv
<1> QED BY <1>2, <1>3, <1>4, <1>6, VisitorStepKeepsLoginInv

\* A failed comparison was of another account than the password's.
LEMMA CompareFailsKeepsInv ==
  ASSUME LoginInv, TypeOK, NEW v \in Visitors, compareFails(v)
  PROVE  LoginInv'
<1> DEFINE old == visitor[v]
           state == [old EXCEPT !.pc = "refused", !.user = Null]
<1>1. /\ old \in Visitor /\ visitor \in [Visitors -> Visitor]
      /\ UNCHANGED <<vars, clock, otps, acted>> /\ Riders' = Riders
      /\ Riders \subseteq UserRow /\ old.exp <= clock + JwtExpiry
  BY DEF compareFails, LoginInv, LoginTypeOK, vars, Riders, TypeOK
<1>2. /\ old.user \in Riders /\ old.owner \in Riders \cup {Null}
      /\ old.owner # old.user /\ NoEmail \notin old.given
      /\ old.user.mobile \in old.given \/ old.user.email \in old.given
  BY DEF compareFails, LoginInv, VisitorInv
<1>3. Become(v, state)
  BY DEF compareFails
<1>4. /\ state \in Visitor /\ state.pc = "refused" /\ state.owner = old.owner
      /\ state.given = old.given /\ state.exp = old.exp
  BY <1>1 DEF Visitor
<1> HIDE DEF state, old
<1>5. visitor'[v] = state
  BY <1>1, <1>3 DEF Become
<1>6. VisitorInv(v)'
  BY <1>1, <1>2, <1>4, <1>5 DEF VisitorInv
<1>7. OwnCredentials(v)' =>
        \E u \in Riders \ {state.owner} : Shares(u, state.owner.mobile, state.owner.email)
  <2> SUFFICES ASSUME OwnCredentials(v)'
               PROVE  Shares(old.user, old.owner.mobile, old.owner.email)
    BY <1>2, <1>4
  <2> QED BY <1>1, <1>2, <1>4, <1>5, TypedMeansShared DEF OwnCredentials
<1> QED BY <1>1, <1>3, <1>4, <1>6, <1>7, VisitorStepKeepsLoginInv

LEMMA AbortLoginKeepsInv ==
  ASSUME LoginInv, TypeOK, NEW v \in Visitors, abortLogin(v)
  PROVE  LoginInv'
<1>1. /\ visitor \in [Visitors -> Visitor] /\ clock \in Nat /\ JwtExpiry \in Nat
      /\ UNCHANGED <<vars, clock, otps, acted>> /\ Become(v, Out)
  BY LoginsAssumption DEF abortLogin, LoginInv, LoginTypeOK
<1>2. visitor'[v] = Out
  BY <1>1 DEF Become
<1>3. VisitorInv(v)' /\ Out.pc = "out" /\ Out.exp = 0
  BY <1>2 DEF VisitorInv, Out
<1> QED BY <1>1, <1>3, OutState, VisitorStepKeepsLoginInv

\* service/auth.ts:149-170.  The OTP token's mobile is the account's, and it has
\* not ended.
LEMMA VerifyKeepsInv ==
  ASSUME LoginInv, TypeOK, NEW v \in Visitors, NEW mobile \in Mobiles, NEW otp \in otps,
         verifyDriverOtp(v, mobile, otp)
  PROVE  LoginInv'
<1>1. PICK user \in findByPhone(mobile, "driver") :
        Become(v, signJwt(user, "driver", otp))
  BY DEF verifyDriverOtp
<1> DEFINE state == signJwt(user, "driver", otp)
<1>2. user \in users /\ user \in UserRow /\ user.type = "driver" /\ user.mobile = mobile
  BY DEF findByPhone, TypeOK
<1>3. /\ UNCHANGED <<vars, clock, otps, acted>> /\ Riders' = Riders /\ users' = users
      /\ visitor \in [Visitors -> Visitor] /\ clock \in Nat /\ JwtExpiry \in Nat
      /\ otp \in OtpToken /\ OtpExpiry \in Nat /\ otp.iat \in Nat
      /\ otp.mobile = mobile /\ clock < otp.iat + OtpExpiry
  BY LoginsAssumption DEF verifyDriverOtp, verifyDriverOtpToken, LoginInv, LoginTypeOK,
     vars, Riders, OtpToken
<1>4. /\ state \in Visitor /\ state.pc = "in" /\ state.user = user /\ state.otp = otp
      /\ state.type = "driver" /\ state.exp = clock + JwtExpiry
      /\ state.owner = Null /\ state.given = {}
  BY <1>2, <1>3, SignedState DEF UserType
<1>5. Become(v, state)
  BY <1>1
<1> HIDE DEF state
<1>6. visitor'[v] = state
  BY <1>3, <1>5 DEF Become
<1>7. VisitorInv(v)'
  BY <1>2, <1>3, <1>4, <1>6 DEF VisitorInv
<1>8. state.exp < state.otp.iat + OtpExpiry + JwtExpiry
  BY <1>3, <1>4
<1> QED BY <1>2, <1>3, <1>4, <1>5, <1>7, <1>8, VisitorStepKeepsLoginInv

\* Codes, time and requests: only the account of a token acts, as what it is.
LEMMA OtherStepKeepsInv ==
  ASSUME LoginInv, TypeOK,
         \/ \E mobile \in Mobiles : requestDriverOtp(mobile)
         \/ \E v \in Visitors, type \in UserType : request(v, type)
         \/ Tick
  PROVE  LoginInv'
<1> USE DEF LoginInv
<1>1. UNCHANGED <<vars, visitor>> /\ Riders' = Riders /\ users' = users
  BY DEF requestDriverOtp, request, Tick, vars, Riders
<1>2. /\ (\A v \in Visitors : VisitorInv(v))'
      /\ RefusedOnlyIfShared' /\ OtpProvedInTime'
  BY <1>1 DEF VisitorInv, RefusedOnlyIfShared, OtpProvedInTime, OwnCredentials
<1>3. CASE \E mobile \in Mobiles : requestDriverOtp(mobile)
  <2>1. PICK mobile \in Mobiles : requestDriverOtp(mobile)
    BY <1>3
  <2>2. [mobile |-> mobile, iat |-> clock] \in {o \in OtpToken : o.iat <= clock}
    BY DEF LoginTypeOK, OtpToken
  <2>3. LoginTypeOK'
    BY <2>1, <2>2 DEF LoginTypeOK, requestDriverOtp
  <2> QED BY <1>1, <1>2, <2>1, <2>3 DEF requestDriverOtp
<1>4. CASE \E v \in Visitors, type \in UserType : request(v, type)
  <2>1. PICK v \in Visitors, type \in UserType : request(v, type)
    BY <1>4
  <2> DEFINE user == visitor[v].user
  <2>2. user \in users /\ user.type = type /\ user.id \in Nat
    BY <2>1 DEF request, authenticated, requireUserType, VisitorInv, TypeOK, UserRow
  <2>3. acted' = acted \cup {<<user.id, type>>} /\ UNCHANGED <<clock, otps>>
    BY <2>1 DEF request
  <2> HIDE DEF user
  <2>4. LoginTypeOK'
    BY <1>1, <2>2, <2>3 DEF LoginTypeOK
  <2> QED BY <1>1, <1>2, <2>2, <2>3, <2>4
<1>5. CASE Tick
  <2>1. clock' = clock + 1 /\ clock' \in 0..MaxTime /\ UNCHANGED <<otps, acted>>
    BY <1>5, LoginsAssumption DEF Tick, LoginTypeOK
  <2>2. \A v \in Visitors : visitor[v].exp \in Nat
    BY DEF LoginTypeOK, Visitor
  <2>3. \A o \in OtpToken : o.iat \in Nat
    BY DEF OtpToken
  <2>4. LoginTypeOK'
    BY <1>1, <2>1, <2>2, <2>3, LoginsAssumption DEF LoginTypeOK
  <2> QED BY <1>1, <1>2, <2>1, <2>4
<1> QED BY <1>3, <1>4, <1>5

LEMMA NextKeepsLoginInv ==
  ASSUME LoginInv, TypeOK, [LoginNext]_<<vars, loginVars>>
  PROVE  LoginInv'
<1>1. CASE UNCHANGED loginVars
  BY <1>1, StepImplementsAccounts, UsersStay, RegistrationKeepsLoginInv
<1>2. CASE LoginNext /\ ~ UNCHANGED loginVars
  BY <1>2, RiderLoginKeepsInv, CompareOkKeepsInv, CompareFailsKeepsInv,
     AbortLoginKeepsInv, VerifyKeepsInv, OtherStepKeepsInv DEF LoginNext
<1> QED BY <1>1, <1>2 DEF loginVars

-----------------------------------------------------------------------------
\* The inductive invariant, beside that of the registrations.
THEOREM LoginInvariance == LoginSpec => [](Inv /\ LoginInv)
<1>1. Inv => TypeOK
  BY DEF Inv
<1> QED BY <1>1, LoginsImplementAccounts, Invariance, InitLoginInv, NextKeepsLoginInv,
           PTL DEF LoginSpec

\* Tokens and logins under way are well formed.
THEOREM LoginTypeCorrect == LoginSpec => []LoginTypeOK
<1>1. LoginInv => LoginTypeOK
  BY DEF LoginInv
<1> QED BY <1>1, LoginInvariance, PTL

\* service/auth.ts:71.  Right credentials are refused only where accounts share an
\* identifier.
THEOREM RightCredentialsLogIn == LoginSpec => []RefusedOnlyIfShared
<1>1. LoginInv => RefusedOnlyIfShared
  BY DEF LoginInv
<1> QED BY <1>1, LoginInvariance, PTL

\* service/driver.ts:28.  Whoever acts as a driver has a row in drivers.
THEOREM DriversAreFound == LoginSpec => []DriverNeverMissing
<1>1. Inv /\ LoginInv => DriverNeverMissing
  BY DEF Inv, LoginInv, DriverUsersHaveRow, DriverNeverMissing
<1> QED BY <1>1, LoginInvariance, PTL

\* web/middleware/auth.ts:39-47.  An id acts as a rider or as a driver, never both:
\* the row in drivers decides the type of a user.
THEOREM OneTypePerUser == LoginSpec => []NobodyIsBoth
<1>1. Inv /\ LoginInv => NobodyIsBoth
  BY DEF Inv, LoginInv, LoginTypeOK, TypeOK, UserRow, UserType, DriverUsersHaveRow,
     NobodyIsBoth
<1> QED BY <1>1, LoginInvariance, PTL

\* utils/otp.ts:31-51.  A driver's access token was opened by a code sent to the
\* account's mobile, before the code expired.
THEOREM DriverTokensAreProved == LoginSpec => []OtpProvedInTime
<1>1. LoginInv => OtpProvedInTime
  BY DEF LoginInv
<1> QED BY <1>1, LoginInvariance, PTL
=============================================================================
