------------------------------- MODULE Logins -------------------------------
(***************************************************************************)
(* Logins and what they let a user do: riderLogin, requestDriverOtp and    *)
(* verifyDriverOtp of src/service/auth.ts, the one-time passwords of       *)
(* src/utils/otp.ts and the checks of src/web/middleware/auth.ts, beside   *)
(* the registrations of Accounts.                                          *)
(*                                                                         *)
(* Both tokens are signed and kept by the client only: an OTP token is the *)
(* mobile it was issued for and its time, an access token the user's id,   *)
(* the type and the time it ends.  Only riderLogin has a second await, the *)
(* comparison of the hash ("compare"); every other handler is its one      *)
(* query and the code after it.                                            *)
(***************************************************************************)
EXTENDS Accounts

CONSTANTS
    Visitors,      \* clients, each with one login under way or one access token
    OtpExpiry,     \* OTP_EXPIRY_MINUTES
    JwtExpiry,     \* JWT_EXPIRATION
    MaxTime        \* bound on the clock, for model checking

ASSUME LoginsAssumption ==
    /\ Null \notin Mobiles \cup Emails
    /\ OtpExpiry \in Nat
    /\ JwtExpiry \in Nat
    /\ MaxTime \in Nat

VARIABLES
    clock,      \* Date.now(), in the seconds of the tokens
    otps,       \* the OTP tokens handed out; none is ever taken back
    visitor,    \* the login or the access token of each client
    acted       \* <<id, type>>: users let through to a handler for that type

loginVars == <<clock, otps, visitor, acted>>

OtpToken == [mobile : Mobiles, iat : Nat]

Visitor ==
    [pc    : {"out", "compare", "in", "refused"},
     user  : UserRow \cup {Null},          \* the row the SELECT found
     owner : UserRow \cup {Null},          \* the account whose password is typed
     given : SUBSET (Mobiles \cup Emails), \* the identifiers typed with it
     type  : UserType,                     \* the type the access token states
     otp   : OtpToken \cup {Null},         \* the OTP token it was given for
     exp   : Nat]                          \* when the access token ends

Out == [pc |-> "out", user |-> Null, owner |-> Null, given |-> {},
        type |-> "rider", otp |-> Null, exp |-> 0]

LoginInit ==
    /\ Init
    /\ clock = 0
    /\ otps = {}
    /\ visitor = [v \in Visitors |-> Out]
    /\ acted = {}

-----------------------------------------------------------------------------
Become(v, state) == visitor' = [visitor EXCEPT ![v] = state]

\* Mutant: expiresIn is given in milliseconds.
signJwt_milliseconds(user, type, otp) ==
    [Out EXCEPT !.pc = "in", !.user = user, !.type = type, !.otp = otp,
                !.exp = clock + 1000 * (JwtExpiry + 1)]

signJwt(user, type, otp) ==
    [Out EXCEPT !.pc = "in", !.user = user, !.type = type, !.otp = otp,
                !.exp = clock + JwtExpiry]

\* Mutant: the type is not asked for.
findByPhone_anyType(mobile, type) == {u \in users : u.mobile = mobile}

findByPhone(mobile, type) == {u \in users : u.mobile = mobile /\ u.type = type}

\* Validation puts nothing for what is left empty.
Given(mobile, email) == {mobile, email} \ {Null, NoEmail}

\* A client types a mobile, an address or both, and the password of some account
\* or (Null) of none.  Without an order the SELECT returns any row.
riderLogin(v, mobile, email, owner) ==
    LET attempt == [Out EXCEPT !.owner = owner, !.given = Given(mobile, email)]
        found == findByEmailOrPhone(mobile, email, "rider")
    IN /\ visitor[v].pc # "compare"
       /\ Given(mobile, email) # {}
       /\ \/ /\ found = {}
             /\ Become(v, [attempt EXCEPT !.pc = "refused"])
          \/ \E user \in found :
                Become(v, [attempt EXCEPT !.pc = "compare", !.user = user])
       /\ UNCHANGED <<vars, clock, otps, acted>>

\* Two accounts may have one password, so a password that is another account's
\* may match all the same.
compareOk(v) ==
    /\ visitor[v].pc = "compare"
    /\ visitor[v].owner # Null
    /\ Become(v, signJwt(visitor[v].user, "rider", Null))
    /\ UNCHANGED <<vars, clock, otps, acted>>

compareFails(v) ==
    /\ visitor[v].pc = "compare"
    /\ visitor[v].owner # visitor[v].user
    /\ Become(v, [visitor[v] EXCEPT !.pc = "refused", !.user = Null])
    /\ UNCHANGED <<vars, clock, otps, acted>>

\* The call to the database or to bcrypt rejects, or the process dies.
abortLogin(v) ==
    /\ Faults
    /\ visitor[v].pc = "compare"
    /\ Become(v, Out)
    /\ UNCHANGED <<vars, clock, otps, acted>>

requestDriverOtp(mobile) ==
    /\ findByPhone(mobile, "driver") # {}
    /\ otps' = otps \cup {[mobile |-> mobile, iat |-> clock]}
    /\ UNCHANGED <<vars, clock, visitor, acted>>

\* Mutant: the signature is checked and the expiry is not.
verifyDriverOtpToken_ignoringExpiry(otp, mobile) == otp.mobile = mobile

\* jwt.verify accepts a token until the second it ends; the digits typed are the
\* token's, any others are refused.
verifyDriverOtpToken(otp, mobile) ==
    otp.mobile = mobile /\ clock < otp.iat + OtpExpiry

verifyDriverOtp(v, mobile, otp) ==
    /\ visitor[v].pc # "compare"
    /\ verifyDriverOtpToken(otp, mobile)
    /\ \E user \in findByPhone(mobile, "driver") : Become(v, signJwt(user, "driver", otp))
    /\ UNCHANGED <<vars, clock, otps, acted>>

authenticated(v) == visitor[v].pc = "in" /\ clock < visitor[v].exp

\* Mutant: the router leaves requireDriver and requireRider out.
requireUserType_any(v, type) == TRUE

requireUserType(v, type) == visitor[v].type = type

\* A route for users of one type: who gets past the two checks acts under the id
\* of the token.  A driver's request starts with UPDATE drivers WHERE userId = id.
request(v, type) ==
    /\ authenticated(v)
    /\ requireUserType(v, type)
    /\ acted' = acted \cup {<<visitor[v].user.id, type>>}
    /\ UNCHANGED <<vars, clock, otps, visitor>>

Tick ==
    /\ clock < MaxTime
    /\ clock' = clock + 1
    /\ UNCHANGED <<vars, otps, visitor, acted>>

Riders == {u \in users : u.type = "rider"}

LoginNext ==
    \/ Next /\ UNCHANGED loginVars
    \/ \E v \in Visitors :
          \/ \E mobile \in Mobiles \cup {Null}, email \in Emails \cup {NoEmail},
                owner \in Riders \cup {Null} : riderLogin(v, mobile, email, owner)
          \/ compareOk(v)
          \/ compareFails(v)
          \/ abortLogin(v)
          \/ \E mobile \in Mobiles, otp \in otps : verifyDriverOtp(v, mobile, otp)
          \/ \E type \in UserType : request(v, type)
    \/ \E mobile \in Mobiles : requestDriverOtp(mobile)
    \/ Tick

LoginSpec == LoginInit /\ [][LoginNext]_<<vars, loginVars>>

-----------------------------------------------------------------------------
\* Tokens and the login under way are well formed: no token ends later than the
\* clock and its lifetime allow.
LoginTypeOK ==
    /\ clock \in 0..MaxTime
    /\ otps \subseteq {o \in OtpToken : o.iat <= clock}
    /\ visitor \in [Visitors -> Visitor]
    /\ \A v \in Visitors : visitor[v].exp <= clock + JwtExpiry
    /\ acted \subseteq Nat \X UserType

OwnCredentials(v) ==
    /\ visitor[v].owner # Null
    /\ visitor[v].given \subseteq {visitor[v].owner.mobile, visitor[v].owner.email}

\* service/auth.ts:71.  A rider who types identifiers of one account and its
\* password is refused only if another rider's account has one of these too, which
\* takes registrations that overlapped (DuplicatesNeedOverlap): the same person's
\* account as a driver never stands in the way.
RefusedOnlyIfShared ==
    \A v \in Visitors :
        visitor[v].pc = "refused" /\ OwnCredentials(v) =>
            LET owner == visitor[v].owner
            IN \E u \in Riders \ {owner} : Shares(u, owner.mobile, owner.email)

\* repo/driver.ts:19, service/driver.ts:28.  Nobody whom the driver routes let in is
\* told "Driver not found": between the registration's two INSERTs no login can
\* find the user.
DriverNeverMissing ==
    \A a \in acted : a[2] = "driver" => a[1] \in drivers

\* web/middleware/auth.ts:39-47.  The ride service takes the ids of riders and of
\* drivers for different people.  The tokens bear it out: nobody gets to act as
\* both, though a person may have both accounts with one mobile.
NobodyIsBoth ==
    \A a, b \in acted : a[1] = b[1] => a[2] = b[2]

\* utils/otp.ts:31-51.  An OTP token is never spent, so it opens access tokens again
\* and again; each was opened for the mobile the code was sent to, and before the
\* code expired.
OtpProvedInTime ==
    \A v \in Visitors :
        visitor[v].pc = "in" /\ visitor[v].type = "driver" =>
            LET otp == visitor[v].otp
            IN /\ otp.mobile = visitor[v].user.mobile
               /\ visitor[v].exp < otp.iat + OtpExpiry + JwtExpiry
=============================================================================
