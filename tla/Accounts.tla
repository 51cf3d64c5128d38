------------------------------ MODULE Accounts ------------------------------
(***************************************************************************)
(* Guests' and hosts' accounts: sign-up, confirmation of the e-mail        *)
(* address, sign-in, reset and change of the password, restriction by an   *)
(* admin.                                                                  *)
(*                                                                         *)
(* A person has a row of users and maybe one of hosts; users.host_id links *)
(* them.  Codes sent by mail are kept in the memory of the server, refresh *)
(* tokens in a table.  No endpoint runs in a transaction, so every         *)
(* statement commits on its own, and a saved entity brings back the        *)
(* columns as they were when it was read.                                  *)
(***************************************************************************)

CONSTANTS
    Email,          \* addresses, each of at most one guest and one host
    Password,
    Second,         \* seconds in which tokens are signed
    Call,           \* requests in flight
    Google,         \* bound: what sign-ups with Google say of isGoogle
    NULL

UserActiveStatus == {"active", "restricted"}
\* The columns of users and of hosts that a request reads or writes.
User == [password : Password \cup {NULL}, active : UserActiveStatus, verified : BOOLEAN,
         google : BOOLEAN, linked : BOOLEAN]
Host == [password : Password \cup {NULL}, active : UserActiveStatus]

ASSUME AccountsAssumption == NULL \notin Email \cup Password \cup User \cup Host
ASSUME GoogleAssumption == Google \subseteq BOOLEAN

\* A refresh token is the signature of an account and a second.
Token == Email \X Second

Kind == {"verify", "reset"}
\* Whether a code is in the cache; history: whether the last one sent is still
\* to be used, not entered, forgotten or lost.
Code == [live : BOOLEAN, fresh : BOOLEAN]

\* The columns that a guest and its host have both, and that requests change.
Shared == {"password", "active"}

Stage == {"idle", "findHost", "findUser", "insertUser", "registerCode", "insertHost",
          "createToken", "findReset", "invalidate", "saveReset", "findVerify",
          "saveVerified", "writePassword", "writeHostPassword",
          "readUser", "saveUser", "readHost", "saveHost"}

\* A request: its account, the entities it has read, the values it will write,
\* whether a second account follows, and, as history, the sessions it has to end.
Request == [stage : Stage, email : Email \cup {NULL}, user : User \cup {NULL},
            host : Host \cup {NULL}, linked : BOOLEAN, password : Password \cup {NULL},
            active : UserActiveStatus, more : BOOLEAN, kind : Kind, old : SUBSET Token]

VARIABLES
    user,       \* users, by e-mail address
    host,       \* hosts
    code,       \* codes in the cache of the server
    token,      \* referesh_token
    call,       \* requests in flight
    vouched,    \* history: addresses a code was entered for, or a sign-up called verified
    apart,      \* history: columns that guest and host may have different
    crossed     \* history: accounts on which requests have overlapped

accounts == <<user, host>>
history == <<vouched, apart, crossed>>
vars == <<accounts, code, token, call, history>>

TypeOK ==
    /\ user \in [Email -> User \cup {NULL}]
    /\ host \in [Email -> Host \cup {NULL}]
    /\ code \in [Email -> [Kind -> Code]]
    /\ token \in SUBSET Token
    /\ call \in [Call -> Request]
    /\ vouched \in SUBSET Email
    /\ apart \in [Email -> SUBSET Shared]
    /\ crossed \in SUBSET Email

-----------------------------------------------------------------------------

Idle == [stage |-> "idle", email |-> NULL, user |-> NULL, host |-> NULL, linked |-> FALSE,
         password |-> NULL, active |-> "active", more |-> FALSE, kind |-> "verify",
         old |-> {}]
NoCode == [live |-> FALSE, fresh |-> FALSE]

Init ==
    /\ user = [e \in Email |-> NULL]
    /\ host = [e \in Email |-> NULL]
    /\ code = [e \in Email |-> [k \in Kind |-> NoCode]]
    /\ token = {}
    /\ call = [c \in Call |-> Idle]
    /\ vouched = {}
    /\ apart = [e \in Email |-> {}]
    /\ crossed = {}

Sessions(e) == {t \in token : t[1] = e}

\* Requests that may change the account; signing in only reads it.
Busy(e) == {c \in Call : call[c].email = e /\ call[c].stage # "createToken"}

Begin(c, e, request) ==
    /\ call[c].stage = "idle"
    /\ call' = [call EXCEPT ![c] = [request EXCEPT !.email = e]]
    /\ crossed' = crossed \cup (IF Busy(e) = {} THEN {} ELSE {e})
    /\ apart' = [apart EXCEPT ![e] = IF Busy(e) = {} THEN @ ELSE Shared]

\* Nothing more is said of guest and host once requests have overlapped.
Differ(e, columns) ==
    apart' = [apart EXCEPT ![e] = IF e \in crossed THEN Shared ELSE columns]

\* A request that has begun goes on, or ends (also by an exception).
GoOn(c, stage) == call' = [call EXCEPT ![c].stage = stage]
Finish(c) == call' = [call EXCEPT ![c] = Idle]

\* save(entity) writes back every column as the entity has it.
SaveUser(e, entity) == user' = [user EXCEPT ![e] = entity]
SaveHost(e, entity) == host' = [host EXCEPT ![e] = entity]

-----------------------------------------------------------------------------
(* createAccount, createAccountWithGoogle, createHostAccount.              *)

NewUser(password, google, verified) ==
    [password |-> password, active |-> "active", verified |-> verified,
     google |-> google, linked |-> FALSE]

\* The row is made from the payload, which says whether the address is verified, and
\* of a Google account whether it is one; a password sent with that is stored as it
\* came, which no typed password matches, and counts as none.
SignUp(c, e, u) ==
    /\ Begin(c, e, [Idle EXCEPT !.stage = "findUser", !.user = u])
    /\ UNCHANGED <<accounts, code, token, vouched>>

SignUpWithPassword(c, e) ==
    \E p \in Password, verified \in BOOLEAN : SignUp(c, e, NewUser(p, FALSE, verified))
SignUpWithGoogle(c, e) ==
    \E google \in Google, verified \in BOOLEAN : SignUp(c, e, NewUser(NULL, google, verified))

\* The guest's row is read first and kept if there is one.
CreateHostAccount(c, e, p) ==
    /\ Begin(c, e, [Idle EXCEPT !.stage = "findHost", !.user = user[e], !.password = p,
                                !.more = TRUE])
    /\ UNCHANGED <<accounts, code, token, vouched>>

\* What the request goes on with: the guest, whose password the host will have.
ForHost(r, password, stage) ==
    [Idle EXCEPT !.stage = stage, !.email = r.email, !.password = password, !.more = r.more]

FindHost(c) ==
    LET r == call[c]
    IN  /\ r.stage = "findHost"
        /\ \/ host[r.email] # NULL /\ Finish(c)
           \/ /\ host[r.email] = NULL /\ r.user # NULL
              /\ call' = [call EXCEPT ![c] = ForHost(r, r.user.password, "insertHost")]
           \/ /\ host[r.email] = NULL /\ r.user = NULL
              /\ \E verified \in BOOLEAN :
                   call' = [call EXCEPT ![c].stage = "findUser",
                                        ![c].user = NewUser(r.password, FALSE, verified)]
        /\ UNCHANGED <<accounts, code, token, history>>

FindUser(c) ==
    /\ call[c].stage = "findUser"
    /\ IF user[call[c].email] = NULL THEN GoOn(c, "insertUser") ELSE Finish(c)
    /\ UNCHANGED <<accounts, code, token, history>>

\* The address is unique in users.
InsertUser(c) ==
    LET e == call[c].email
        u == call[c].user
    IN  /\ call[c].stage = "insertUser"
        /\ IF user[e] = NULL
           THEN /\ SaveUser(e, u)
                /\ vouched' = vouched \cup (IF u.verified THEN {e} ELSE {})
                /\ call' = [call EXCEPT ![c] = ForHost(@, u.password, "registerCode")]
           ELSE Finish(c) /\ UNCHANGED <<user, vouched>>
        /\ UNCHANGED <<host, code, token, apart, crossed>>

\* The code is put into the cache, then mailed.
RegisterCode(c) ==
    LET r == call[c]
    IN  /\ r.stage = "registerCode"
        /\ code' = [code EXCEPT ![r.email][r.kind] = [live |-> TRUE, fresh |-> TRUE]]
        /\ IF r.more THEN GoOn(c, "insertHost") ELSE Finish(c)
        /\ UNCHANGED <<accounts, token, history>>

\* Fault: the new host is not given its guest.
InsertHostWithoutUser(c) ==
    LET e == call[c].email
    IN  /\ call[c].stage = "insertHost" /\ host[e] = NULL
        /\ SaveHost(e, [password |-> call[c].password, active |-> "active"])
        /\ Finish(c)
        /\ UNCHANGED <<user, code, token, history>>

\* The address is unique in hosts.  The host's password is the guest's; saving a
\* host with its guest writes users.host_id in the same transaction.
InsertHost(c) ==
    LET e == call[c].email
    IN  /\ call[c].stage = "insertHost"
        /\ IF host[e] = NULL
           THEN /\ SaveHost(e, [password |-> call[c].password, active |-> "active"])
                /\ user' = [user EXCEPT ![e].linked = TRUE]
                /\ Differ(e, IF user[e].active = "active" THEN {} ELSE {"active"})
           ELSE UNCHANGED <<accounts, apart>>
        /\ Finish(c)
        /\ UNCHANGED <<code, token, vouched, crossed>>

-----------------------------------------------------------------------------
(* login, loginWithGoogle, googleLogin, copyUser; refreshClientToken.      *)

OpenSession(c, e) ==
    /\ call[c].stage = "idle"
    /\ call' = [call EXCEPT ![c] = [Idle EXCEPT !.stage = "createToken", !.email = e]]
    /\ UNCHANGED <<accounts, code, token, history>>

\* The guest types the password, a Google account has none to type.
LogIn(c, e) ==
    /\ user[e] # NULL /\ user[e].password # NULL /\ user[e].active = "active"
    /\ OpenSession(c, e)

LogInWithGoogle(c, e) ==
    /\ user[e] # NULL /\ user[e].active = "active"
    /\ OpenSession(c, e)

\* An admin signs in as the guest, restricted or not.
CopyUser(c, e) ==
    /\ user[e] # NULL
    /\ OpenSession(c, e)

\* Two sessions opened in one second have the same token; the column is unique.
CreateToken(c, s) ==
    LET t == <<call[c].email, s>>
    IN  /\ call[c].stage = "createToken"
        /\ IF t \in token
           THEN Finish(c) /\ UNCHANGED token
           ELSE /\ token' = token \cup {t}
                /\ call' = [d \in Call |-> IF d = c THEN Idle
                                           ELSE [call[d] EXCEPT !.old = @ \ {t}]]
        /\ UNCHANGED <<accounts, code, history>>

\* A refresh with an expired token removes it; with a valid one it changes nothing.
RefreshClientToken(t) ==
    /\ t \in token
    /\ token' = token \ {t}
    /\ UNCHANGED <<accounts, code, call, history>>

-----------------------------------------------------------------------------
(* Codes: resendConfirmationEmail, resetPassword, verifyAccount,           *)
(* resetPasswordConfirmation.                                              *)

SendCode(c, e, k) ==
    /\ user[e] # NULL
    /\ Begin(c, e, [Idle EXCEPT !.stage = "registerCode", !.kind = k])
    /\ UNCHANGED <<accounts, code, token, vouched>>

ResendConfirmationEmail(c, e) == SendCode(c, e, "verify")
ResetPassword(c, e) == SendCode(c, e, "reset")

\* Fault: with no code in the cache, no code is asked for.
AcceptedOrMissing(e, k) == user[e] # NULL
Accepted(e, k) == code[e][k].live

Used(e, k) == code' = [code EXCEPT ![e][k].fresh = FALSE]

ValidateVerify(c, e) ==
    /\ Accepted(e, "verify")
    /\ Used(e, "verify")
    /\ vouched' = vouched \cup (IF code[e]["verify"].live THEN {e} ELSE {})
    /\ Begin(c, e, [Idle EXCEPT !.stage = "findVerify"])
    /\ UNCHANGED <<accounts, token>>

ValidateReset(c, e, p) ==
    /\ Accepted(e, "reset")
    /\ Used(e, "reset")
    /\ Begin(c, e, [Idle EXCEPT !.stage = "findReset", !.password = p, !.old = Sessions(e)])
    /\ UNCHANGED <<accounts, token, vouched>>

\* Fault: the code stays in the cache until it expires.
RemoveNoCode(e, k) == UNCHANGED code
RemoveCode(e, k) == code' = [code EXCEPT ![e][k].live = FALSE]

\* Fault: a confirmed address lifts a restriction.
VerifiedAndActive(u) == [u EXCEPT !.verified = TRUE, !.active = "active"]
Verified(u) == [u EXCEPT !.verified = TRUE]

FindForVerify(c) ==
    LET e == call[c].email
    IN  /\ call[c].stage = "findVerify"
        /\ RemoveCode(e, "verify")
        /\ call' = [call EXCEPT ![c].stage = "saveVerified", ![c].user = Verified(user[e])]
        /\ UNCHANGED <<accounts, token, history>>

SaveVerified(c) ==
    LET e == call[c].email
    IN  /\ call[c].stage = "saveVerified"
        /\ SaveUser(e, call[c].user)
        /\ Finish(c)
        /\ UNCHANGED <<host, code, token, vouched, apart, crossed>>

\* The guest's own id is looked up among the ids of hosts and not found there: the
\* host's password stays.
FindForReset(c) ==
    LET e == call[c].email
    IN  /\ call[c].stage = "findReset"
        /\ RemoveCode(e, "reset")
        /\ IF user[e].google THEN Finish(c)
           ELSE call' = [call EXCEPT ![c].stage = "invalidate",
                                     ![c].user = [user[e] EXCEPT !.password = call[c].password]]
        /\ UNCHANGED <<accounts, token, history>>

\* Fault: tokens are deleted by the id of a host, and none has it.
InvalidateHostTokens(c) ==
    /\ call[c].stage = "invalidate"
    /\ GoOn(c, "saveReset")
    /\ UNCHANGED <<accounts, code, token, history>>

InvalidateAllTokens(c) ==
    /\ call[c].stage = "invalidate"
    /\ token' = token \ Sessions(call[c].email)
    /\ GoOn(c, "saveReset")
    /\ UNCHANGED <<accounts, code, history>>

SaveReset(c) ==
    LET e == call[c].email
    IN  /\ call[c].stage = "saveReset"
        /\ SaveUser(e, call[c].user)
        /\ Differ(e, IF host[e] = NULL THEN {} ELSE apart[e] \cup {"password"})
        /\ Finish(c)
        /\ UNCHANGED <<host, code, token, vouched, crossed>>

-----------------------------------------------------------------------------
(* updatePassword: columns are written by UPDATE, sessions go on.          *)

UpdatePassword(c, e, p) ==
    /\ user[e] # NULL /\ user[e].password # NULL
    /\ Begin(c, e, [Idle EXCEPT !.stage = "writePassword", !.password = p])
    /\ UNCHANGED <<accounts, code, token, vouched>>

WritePassword(c) ==
    LET e == call[c].email
        p == call[c].password
    IN  /\ call[c].stage = "writePassword"
        /\ user' = [user EXCEPT ![e].password = p]
        /\ GoOn(c, "writeHostPassword")
        /\ UNCHANGED <<host, code, token, vouched, apart, crossed>>

WriteHostPassword(c) ==
    LET e == call[c].email
    IN  /\ call[c].stage = "writeHostPassword"
        /\ host' = [host EXCEPT ![e] = IF @ = NULL THEN NULL
                                       ELSE [@ EXCEPT !.password = call[c].password]]
        /\ Differ(e, apart[e] \ {"password"})
        /\ Finish(c)
        /\ UNCHANGED <<user, code, token, vouched, crossed>>

-----------------------------------------------------------------------------
(* GuestsService.update and PartnersService.update: the account named, then *)
(* the other one, found through the entity that was saved.                 *)

Asked == UserActiveStatus \cup {"other"}
StatusOf(asked) == IF asked = "active" THEN "active" ELSE "restricted"

UpdateGuest(c, e, asked) ==
    /\ user[e] # NULL
    /\ Begin(c, e, [Idle EXCEPT !.stage = "saveUser", !.active = StatusOf(asked), !.more = TRUE,
                                !.user = [user[e] EXCEPT !.active = StatusOf(asked)]])
    /\ UNCHANGED <<accounts, code, token, vouched>>

UpdatePartner(c, e, asked) ==
    /\ host[e] # NULL
    /\ Begin(c, e, [Idle EXCEPT !.stage = "saveHost", !.active = StatusOf(asked), !.more = TRUE,
                                !.host = [host[e] EXCEPT !.active = StatusOf(asked)],
                                !.linked = user[e].linked])
    /\ UNCHANGED <<accounts, code, token, vouched>>

\* Fault: the guest's host is not looked at.
SaveGuestOnly(c) ==
    LET e == call[c].email
    IN  /\ call[c].stage = "saveUser"
        /\ SaveUser(e, call[c].user)
        /\ Finish(c)
        /\ UNCHANGED <<host, code, token, vouched, apart, crossed>>

SaveGuest(c) ==
    LET e == call[c].email
    IN  /\ call[c].stage = "saveUser"
        /\ SaveUser(e, call[c].user)
        /\ IF call[c].more /\ call[c].user.linked
           THEN call' = [call EXCEPT ![c] = [Idle EXCEPT !.stage = "readHost", !.email = e,
                                                    !.active = call[c].active]]
           ELSE Finish(c)
        /\ Differ(e, IF call[c].more THEN apart[e] ELSE apart[e] \ {"active"})
        /\ UNCHANGED <<host, code, token, vouched, crossed>>

\* The host entity is read with its guest and saved with it: the link is written
\* as it was read.  Without a guest, reading its id throws.
SavePartner(c) ==
    LET e == call[c].email
    IN  /\ call[c].stage = "saveHost"
        /\ SaveHost(e, call[c].host)
        /\ user' = [user EXCEPT ![e].linked = call[c].linked]
        /\ IF call[c].more /\ call[c].linked
           THEN call' = [call EXCEPT ![c] = [Idle EXCEPT !.stage = "readUser", !.email = e,
                                                    !.active = call[c].active]]
           ELSE Finish(c)
        /\ Differ(e, IF call[c].more THEN apart[e] ELSE apart[e] \ {"active"})
        /\ UNCHANGED <<code, token, vouched, crossed>>

ReadUser(c) ==
    LET e == call[c].email
    IN  /\ call[c].stage = "readUser"
        /\ call' = [call EXCEPT ![c].stage = "saveUser",
                                ![c].user = [user[e] EXCEPT !.active = call[c].active]]
        /\ UNCHANGED <<accounts, code, token, history>>

ReadHost(c) ==
    LET e == call[c].email
    IN  /\ call[c].stage = "readHost"
        /\ call' = [call EXCEPT ![c].stage = "saveHost", ![c].linked = user[e].linked,
                                ![c].host = [host[e] EXCEPT !.active = call[c].active]]
        /\ UNCHANGED <<accounts, code, token, history>>

-----------------------------------------------------------------------------

\* A code expires, or the cache is full and drops it.
ForgetCode(e, k) ==
    /\ code[e][k].live
    /\ code' = [code EXCEPT ![e][k] = NoCode]
    /\ UNCHANGED <<accounts, token, call, history>>

\* Requests that have changed one of the two accounts and not yet the other.
HalfPassword(c, e) == call[c].email = e /\ call[c].stage = "writeHostPassword"
HalfActive(c, e) ==
    /\ call[c].email = e
    /\ \/ call[c].stage \in {"readUser", "readHost"}
       \/ call[c].stage \in {"saveUser", "saveHost"} /\ ~call[c].more
CutOff(e) ==
    (IF \E c \in Call : HalfPassword(c, e) THEN {"password"} ELSE {})
      \cup (IF \E c \in Call : HalfActive(c, e) THEN {"active"} ELSE {})

\* The cache is memory: a restart forgets every code and every request.
Restart ==
    /\ code' = [e \in Email |-> [k \in Kind |-> NoCode]]
    /\ call' = [c \in Call |-> Idle]
    /\ apart' = [e \in Email |-> apart[e] \cup (IF host[e] = NULL THEN {} ELSE CutOff(e))]
    /\ UNCHANGED <<accounts, token, vouched, crossed>>

Starts(c, e) ==
    \/ SignUpWithPassword(c, e) \/ SignUpWithGoogle(c, e)
    \/ LogIn(c, e) \/ LogInWithGoogle(c, e) \/ CopyUser(c, e)
    \/ ResendConfirmationEmail(c, e) \/ ResetPassword(c, e)
    \/ ValidateVerify(c, e)
    \/ \E p \in Password :
         CreateHostAccount(c, e, p) \/ ValidateReset(c, e, p) \/ UpdatePassword(c, e, p)
    \/ \E asked \in Asked : UpdateGuest(c, e, asked) \/ UpdatePartner(c, e, asked)

Continues(c) ==
    \/ FindHost(c) \/ FindUser(c) \/ InsertUser(c) \/ RegisterCode(c) \/ InsertHost(c)
    \/ \E s \in Second : CreateToken(c, s)
    \/ FindForVerify(c) \/ SaveVerified(c)
    \/ FindForReset(c) \/ InvalidateAllTokens(c) \/ SaveReset(c)
    \/ WritePassword(c) \/ WriteHostPassword(c)
    \/ SaveGuest(c) \/ SavePartner(c) \/ ReadUser(c) \/ ReadHost(c)

Next ==
    \/ \E c \in Call, e \in Email : Starts(c, e)
    \/ \E c \in Call : Continues(c)
    \/ \E t \in token : RefreshClientToken(t)
    \/ \E e \in Email, k \in Kind : ForgetCode(e, k)
    \/ Restart

Spec == Init /\ [][Next]_vars

-----------------------------------------------------------------------------
(* Properties.                                                             *)

\* An address counts as verified only when a mailed code was entered for it, or the
\* sign-up that made the row called it verified, which is taken as it is said;
\* entities that other requests save back late verify nothing
\* (auth.service.ts:94-109, 241-244, 292-296).
VerifiedByCodeOrSignUp ==
    \A e \in Email : user[e] # NULL /\ user[e].verified => e \in vouched

\* A host is always someone's guest account, although the two are saved apart and
\* the server may stop between them; and the guest's row names the host unless
\* requests on the account have overlapped, so that a restriction reaches both
\* (auth.service.ts:343-356, guests.service.ts:80).
HostHasGuest ==
    \A e \in Email : host[e] # NULL =>
        user[e] # NULL /\ (e \notin crossed => user[e].linked)

\* "invalidate all logged in users": when a reset is about to save the new
\* password, no session from before the code was entered is left, only those
\* opened meanwhile (auth.service.ts:202-205).
OldSessionsEnd ==
    \A c \in Call : call[c].stage = "saveReset" => call[c].old \cap token = {}

\* The columns of a guest's row, but for one, stay as they are.
KeepsAllBut(e, column) ==
    \A other \in {"password", "active", "verified", "google", "linked"} :
        other # column => user'[e][other] = user[e][other]
KeepsTheOthers(c) ==
    LET e == call[c].email
    IN  e # NULL /\ e \notin crossed =>
          /\ SaveReset(c) => KeepsAllBut(e, "password")
          /\ SaveVerified(c) => KeepsAllBut(e, "verified")
          /\ SaveGuest(c) => KeepsAllBut(e, "active")
          /\ SavePartner(c) => KeepsAllBut(e, "")

\* A request that saves a guest's row changes its own column and no other: a new
\* password, a restriction, a confirmed address or the link to the host is undone
\* only when two requests on the account overlapped, as each saves the whole row
\* as it read it (auth.service.ts:109, 205, guest.repository.ts:70, hosts.repository.ts:69).
LostUpdateNeedsOverlap == [][\A c \in Call : KeepsTheOthers(c)]_vars

\* The last code mailed works once, and it works until it is used, forgotten or
\* lost in a restart, unless requests on the account overlapped: the removal of a
\* used code may hit a newer one, and two requests may use one code
\* (auth.service.ts:94-101, 178-184).
CodeWorksOnce ==
    \A e \in Email, k \in Kind :
        e \notin crossed /\ Busy(e) = {} => (code[e][k].live <=> code[e][k].fresh)

\* Guest and host have the same password and the same status whenever no request is
\* at work on the account, with these exceptions, for as long as they last: requests
\* have overlapped; a request was cut off by a restart between the two writes; the
\* guest was restricted when the host was made, and a host is made active; and the
\* password was reset, as the reset looks for the host by the guest's id, does not
\* find it and leaves its password.  A change of the password or of the status that
\* runs to its end makes the two agree again (auth.service.ts:194-200, 346-356,
\* 603-607, guests.service.ts:74-82, partners.service.ts:90-97).
GuestAndHostAgree ==
    \A e \in Email : host[e] # NULL /\ Busy(e) = {} =>
        \A column \in Shared \ apart[e] : host[e][column] = user[e][column]

=============================================================================
