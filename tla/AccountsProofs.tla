--------------------------- MODULE AccountsProofs ---------------------------
(***************************************************************************)
(* What TLAPS proves about Accounts for every number of addresses,         *)
(* passwords and requests in flight.                                       *)
(***************************************************************************)
EXTENDS Accounts, TLAPS

-----------------------------------------------------------------------------
(* The inductive invariant: what a request knows between two statements,   *)
(* what it still knows if no other request has crossed it, and what holds  *)
(* of the rows and codes of an address.                                    *)

\* Stages in which a request may change an account, and those after its guest was found.
Busying == Stage \ {"idle", "createToken"}
Found == Busying \ {"findHost", "findUser", "insertUser"}

Shape(c) ==
    LET r == call[c]
    IN  /\ r.stage = "idle" => r.email = NULL /\ r.user = NULL /\ r.old = {}
        /\ r.stage # "idle" => r.email \in Email
        /\ r.stage \in {"findUser", "insertUser", "saveVerified", "invalidate", "saveReset", "saveUser"}
             => r.user \in User
        /\ r.stage \in Found => user[r.email] # NULL
        /\ r.stage = "findHost" /\ r.user # NULL => user[r.email] # NULL
        /\ r.stage = "saveHost" => r.host \in Host
        /\ r.stage \in {"readHost", "saveHost", "readUser"} => host[r.email] # NULL
        /\ r.stage \in {"findVerify", "saveVerified"} => r.email \in vouched
        /\ r.user # NULL /\ r.stage \notin {"findUser", "insertUser"} /\ r.user.verified
             => r.email \in vouched
        /\ r.user # NULL /\ r.user.linked => host[r.email] # NULL
        /\ r.stage \in {"findUser", "insertUser"} => ~r.user.linked
        /\ \A t \in r.old : t[1] = r.email
        /\ r.stage = "saveReset" => r.old \cap token = {}
        /\ r.stage \in {"readUser", "readHost"} => ~r.more

\* The entity in hand is the row, but for the column to be changed; the other
\* account already has what is about to be written.
Fresh(c) ==
    LET r == call[c]
        u == user[r.email]
    IN  r.email \notin crossed =>
        /\ r.stage \in {"invalidate", "saveReset"} =>
             /\ r.user.active = u.active /\ r.user.verified = u.verified
             /\ r.user.google = u.google /\ r.user.linked = u.linked
        /\ r.stage = "saveVerified" =>
             /\ r.user.active = u.active /\ r.user.password = u.password
             /\ r.user.google = u.google /\ r.user.linked = u.linked
        /\ r.stage = "saveUser" =>
             /\ r.user.password = u.password /\ r.user.verified = u.verified
             /\ r.user.google = u.google /\ r.user.linked = u.linked
             /\ r.user.active = r.active
        /\ r.stage = "saveHost" =>
             /\ r.linked = u.linked /\ r.host.active = r.active
             /\ host[r.email] # NULL => r.host.password = host[r.email].password
        /\ r.stage = "writeHostPassword" => u.password = r.password
        /\ r.stage = "findHost" => r.user = u
        /\ r.stage = "insertHost" \/ (r.stage = "registerCode" /\ r.more) => r.password = u.password
        /\ r.stage = "readUser" \/ (r.stage = "saveUser" /\ ~r.more) =>
             (host[r.email] # NULL => host[r.email].active = r.active)
        /\ r.stage = "readHost" \/ (r.stage = "saveHost" /\ ~r.more) => u.active = r.active

RowOK(e) ==
    /\ host[e] # NULL => user[e] # NULL /\ (e \notin crossed => user[e].linked)
    /\ user[e] # NULL /\ user[e].linked => host[e] # NULL
    /\ user[e] # NULL /\ user[e].verified => e \in vouched
    /\ \A k \in Kind : code[e][k].live => user[e] # NULL

\* A request that has accepted a code and has yet to remove it.
Removes(c, e, k) ==
    /\ call[c].email = e
    /\ call[c].stage = IF k = "verify" THEN "findVerify" ELSE "findReset"

CodeOK(e) ==
    e \notin crossed =>
        \A k \in Kind :
            /\ (\E c \in Call : Removes(c, e, k)) => ~code[e][k].fresh
            /\ (\A c \in Call : ~Removes(c, e, k)) => (code[e][k].live <=> code[e][k].fresh)

IsBusy(c, e) == call[c].email = e /\ call[c].stage \in Busying

Alone ==
    \A c, d \in Call, e \in Email : c # d /\ IsBusy(c, e) /\ IsBusy(d, e) => e \in crossed

IInv ==
    /\ TypeOK
    /\ \A c \in Call : Shape(c)
    /\ \A c \in Call : Fresh(c)
    /\ \A e \in Email : RowOK(e)
    /\ \A e \in Email : CodeOK(e)
    /\ Alone

-----------------------------------------------------------------------------
(* A step of one request on one address.                                   *)

\* What a step of request c on address e may change, and what it must leave.
Local(c, e) ==
    /\ call[c].email \in {e, NULL} /\ call'[c].email \in {e, NULL}
    /\ \A d \in Call : d # c => call'[d] = call[d]
    /\ \A f \in Email : f # e => user'[f] = user[f] /\ host'[f] = host[f] /\ code'[f] = code[f]
    /\ user[e] # NULL => user'[e] # NULL
    /\ host[e] # NULL => host'[e] # NULL
    /\ vouched \subseteq vouched' /\ vouched' \subseteq vouched \cup {e}
    /\ crossed \subseteq crossed' /\ crossed' \subseteq crossed \cup {e}
    /\ token' \subseteq token
    /\ (user'[e] = user[e] /\ host'[e] = host[e]) \/ IsBusy(c, e)
    /\ IsBusy(c, e)' => IsBusy(c, e) \/ e \in crossed' \/ \A d \in Call : ~IsBusy(d, e)

\* What remains to be shown of a local step: types, and its own request and address.
LEMMA LocalIInv ==
    ASSUME IInv, NEW c \in Call, NEW e \in Email, TypeOK', Local(c, e),
           Shape(c)', Fresh(c)', RowOK(e)', CodeOK(e)'
    PROVE  IInv'
<1> USE AccountsAssumption
<1>1. ASSUME NEW d \in Call, d # c PROVE Shape(d)'
  <2>1. call'[d] = call[d] /\ Shape(d)
    BY <1>1 DEF IInv, Local
  <2>2. /\ \A f \in Email : user[f] # NULL => user'[f] # NULL
        /\ \A f \in Email : host[f] # NULL => host'[f] # NULL
        /\ vouched \subseteq vouched' /\ token' \subseteq token
    BY DEF Local
  <2>3. CASE call[d].stage = "idle"
    BY <2>1, <2>3 DEF Shape, Found, Busying
  <2>4. CASE call[d].stage # "idle"
    BY <2>1, <2>2, <2>4 DEF Shape
  <2> QED BY <2>3, <2>4
<1>2. ASSUME NEW d \in Call, d # c PROVE Fresh(d)'
  <2>1. call'[d] = call[d] /\ Fresh(d) /\ Shape(d)
    BY <1>2 DEF IInv, Local
  <2>2. CASE ~IsBusy(d, call[d].email)
    BY <2>1, <2>2 DEF Fresh, IsBusy, Busying, Stage
  <2>3. CASE IsBusy(d, call[d].email) /\ call[d].email # e
    <3>1. /\ call[d].email \in Email
          /\ user'[call[d].email] = user[call[d].email] /\ host'[call[d].email] = host[call[d].email]
          /\ (call[d].email \in crossed' <=> call[d].email \in crossed)
      BY <2>1, <2>3 DEF Local, Shape, IsBusy, Busying
    <3> QED BY <2>1, <3>1 DEF Fresh
  <2>4. CASE IsBusy(d, e) /\ IsBusy(c, e)
    <3>1. e \in crossed'
      BY <1>2, <2>4 DEF IInv, Alone, Local
    <3> QED BY <2>1, <2>4, <3>1 DEF Fresh, IsBusy
  <2>5. CASE IsBusy(d, e) /\ user'[e] = user[e] /\ host'[e] = host[e]
    <3>1. call[d].email = e /\ crossed \subseteq crossed'
      BY <2>5 DEF IsBusy, Local
    <3> QED BY <2>1, <2>5, <3>1 DEF Fresh
  <2> QED BY <2>2, <2>3, <2>4, <2>5 DEF Local
<1>3. ASSUME NEW f \in Email, f # e PROVE RowOK(f)'
    BY <1>3 DEF IInv, RowOK, Local
<1>4. ASSUME NEW f \in Email, f # e PROVE CodeOK(f)'
  <2>1. \A d \in Call, k \in Kind : Removes(d, f, k)' <=> Removes(d, f, k)
    BY <1>4 DEF Local, Removes
  <2>2. code'[f] = code[f] /\ (f \in crossed' <=> f \in crossed) /\ CodeOK(f)
    BY <1>4 DEF Local, IInv
  <2> QED BY <2>1, <2>2 DEF CodeOK
<1>5. Alone'
  <2> SUFFICES ASSUME NEW d1 \in Call, NEW d2 \in Call, NEW f \in Email, d1 # d2,
                      IsBusy(d1, f)', IsBusy(d2, f)', f \notin crossed'
               PROVE  FALSE
    BY DEF Alone
  <2>1. \A d \in Call : d # c => (IsBusy(d, f)' <=> IsBusy(d, f))
    BY DEF Local, IsBusy
  <2>2. f \notin crossed
    BY DEF Local
  <2>3. CASE d1 # c /\ d2 # c
    BY <2>1, <2>2, <2>3 DEF IInv, Alone
  <2>4. CASE d1 = c \/ d2 = c
    <3>1. IsBusy(c, f)' /\ f = e
      BY <2>4 DEF Local, IsBusy
    <3> QED BY <2>1, <2>2, <2>4, <3>1 DEF Local, IInv, Alone
  <2> QED BY <2>3, <2>4
<1> QED BY <1>1, <1>2, <1>3, <1>4, <1>5 DEF IInv
-----------------------------------------------------------------------------
(* Types, and the beginning and the end of a request.                      *)

\* A call at rest is a request.
LEMMA IdleType == Idle \in Request
BY DEF Idle, Request, Stage, UserActiveStatus, Kind

\* A new guest is a row of users.
LEMMA NewUserType ==
    ASSUME NEW p \in Password \cup {NULL}, NEW google \in BOOLEAN, NEW verified \in BOOLEAN
    PROVE  NewUser(p, google, verified) \in User
BY DEF NewUser, User, UserActiveStatus

\* A row that is there is well-typed.
LEMMA RowType ==
    ASSUME TypeOK, NEW e \in Email
    PROVE  (user[e] # NULL => user[e] \in User) /\ (host[e] # NULL => host[e] \in Host)
BY DEF TypeOK

\* Codes are left alone by a request that neither accepts nor removes one.
LEMMA CodeKept ==
    ASSUME IInv, NEW c \in Call, NEW e \in Email, code'[e] = code[e], crossed \subseteq crossed',
           \A d \in Call : d # c => call'[d] = call[d],
           call[c].stage \notin {"findVerify", "findReset"},
           call'[c].stage \notin {"findVerify", "findReset"}
    PROVE  CodeOK(e)'
<1>1. \A d \in Call, k \in Kind : Removes(d, e, k)' <=> Removes(d, e, k)
    BY DEF Removes
<1> QED BY <1>1 DEF IInv, CodeOK

\* A request begins: if another one is busy with the account, they cross.
LEMMA BeginEffect ==
    ASSUME TypeOK, NEW c \in Call, NEW e \in Email, NEW r \in Request, Begin(c, e, r)
    PROVE  /\ call[c].stage = "idle" /\ call' \in [Call -> Request]
           /\ call'[c] = [r EXCEPT !.email = e]
           /\ \A d \in Call : d # c => call'[d] = call[d]
           /\ crossed \subseteq crossed' /\ crossed' \subseteq crossed \cup {e}
           /\ e \in crossed' \/ \A d \in Call : ~IsBusy(d, e)
           /\ apart' \in [Email -> SUBSET Shared]
<1>1. [r EXCEPT !.email = e] \in Request
    BY DEF Request
<1>2. call' = [call EXCEPT ![c] = [r EXCEPT !.email = e]] /\ call[c].stage = "idle"
    BY DEF Begin
<1>3. /\ crossed \subseteq crossed' /\ crossed' \subseteq crossed \cup {e}
      /\ Busy(e) # {} => e \in crossed'
    BY DEF Begin
<1>4. \A d \in Call : IsBusy(d, e) => d \in Busy(e)
    BY DEF IsBusy, Busy, Busying
<1>5. apart' \in [Email -> SUBSET Shared]
    BY DEF Begin, TypeOK
<1> QED BY <1>1, <1>2, <1>3, <1>4, <1>5 DEF TypeOK

\* A request that begins without a code reads and writes nothing shared.
LEMMA StartIInv ==
    ASSUME IInv, NEW c \in Call, NEW e \in Email, NEW r \in Request, Begin(c, e, r),
           UNCHANGED <<user, host, code, token, vouched>>,
           r.stage \notin {"findVerify", "findReset"},
           Shape(c)', Fresh(c)'
    PROVE  IInv'
<1>1. TypeOK /\ Shape(c) /\ RowOK(e)
    BY DEF IInv
<1>2. /\ call[c].stage = "idle" /\ call' \in [Call -> Request]
      /\ call'[c] = [r EXCEPT !.email = e]
      /\ \A d \in Call : d # c => call'[d] = call[d]
      /\ crossed \subseteq crossed' /\ crossed' \subseteq crossed \cup {e}
      /\ e \in crossed' \/ \A d \in Call : ~IsBusy(d, e)
      /\ apart' \in [Email -> SUBSET Shared]
    BY <1>1, BeginEffect
<1>3. call'[c].email = e /\ call'[c].stage = r.stage /\ call[c].email = NULL
    BY <1>1, <1>2 DEF Request, Shape
<1>4. TypeOK'
    BY <1>1, <1>2 DEF TypeOK
<1>5. Local(c, e)
    BY <1>2, <1>3 DEF Local
<1>6. RowOK(e)'
    BY <1>1, <1>2 DEF RowOK
<1>7. CodeOK(e)'
    BY <1>2, <1>3, CodeKept
<1> QED BY <1>4, <1>5, <1>6, <1>7, LocalIInv

\* A request at rest claims nothing.
LEMMA AtRest ==
    ASSUME NEW c \in Call, call'[c] = Idle PROVE Shape(c)' /\ Fresh(c)'
BY DEF Idle, Shape, Fresh, Found, Busying

\* A request ends.
LEMMA FinishEffect ==
    ASSUME TypeOK, NEW c \in Call, Finish(c)
    PROVE  /\ call' \in [Call -> Request] /\ call'[c] = Idle
           /\ call'[c].stage = "idle" /\ call'[c].email = NULL
           /\ \A d \in Call : d # c => call'[d] = call[d]
BY IdleType DEF Finish, TypeOK, Idle

\* What guest and host may have different is a set of columns.
LEMMA DifferType ==
    ASSUME TypeOK, NEW e \in Email, NEW columns \in SUBSET Shared, Differ(e, columns)
    PROVE  apart' \in [Email -> SUBSET Shared]
BY DEF Differ, TypeOK

\* A step of a request that has begun and leaves codes and overlaps alone.
LEMMA ContinueIInv ==
    ASSUME IInv, NEW c \in Call, NEW e \in Email, IsBusy(c, e),
           call[c].stage \notin {"findVerify", "findReset"},
           call'[c].stage \notin {"findVerify", "findReset"},
           call'[c].email \in {e, NULL}, call' \in [Call -> Request],
           \A d \in Call : d # c => call'[d] = call[d],
           user' \in [Email -> User \cup {NULL}], host' \in [Email -> Host \cup {NULL}],
           \A f \in Email : f # e => user'[f] = user[f] /\ host'[f] = host[f],
           user[e] # NULL => user'[e] # NULL, host[e] # NULL => host'[e] # NULL,
           token' \subseteq token, vouched \subseteq vouched', vouched' \subseteq vouched \cup {e},
           apart' \in {apart} \cup [Email -> SUBSET Shared],
           UNCHANGED <<code, crossed>>, Shape(c)', Fresh(c)', RowOK(e)'
    PROVE  IInv'
<1>1. TypeOK
    BY DEF IInv
<1>2. TypeOK'
    BY <1>1 DEF TypeOK
<1>3. call[c].email \in {e, NULL}
    BY DEF IsBusy
<1>4. Local(c, e)
    BY <1>3 DEF Local
<1>5. CodeOK(e)'
    BY CodeKept
<1> QED BY <1>2, <1>4, <1>5, LocalIInv
-----------------------------------------------------------------------------
(* The requests begin.                                                     *)

\* A sign-up, by password or with Google.
LEMMA SignUpIInv ==
    ASSUME IInv, NEW c \in Call, NEW e \in Email, NEW u \in User, ~u.linked, SignUp(c, e, u)
    PROVE  IInv'
<1> USE AccountsAssumption
<1> DEFINE r == [Idle EXCEPT !.stage = "findUser", !.user = u]
<1>1. /\ TypeOK /\ RowOK(e) /\ Begin(c, e, r) /\ UNCHANGED <<user, host, code, token, vouched>>
    BY DEF IInv, SignUp, accounts
<1>2. r \in Request
    BY <1>1, IdleType, RowType DEF Request, Stage, UserActiveStatus, User, Host, StatusOf, Kind
<1>3. call'[c] = [r EXCEPT !.email = e] /\ crossed \subseteq crossed'
  <2> HIDE DEF r
  <2> QED BY <1>1, <1>2, BeginEffect
<1>4. Shape(c)'
    BY <1>1, <1>2, <1>3, RowType DEF Shape, RowOK, Idle, Found, Busying, User, Host, Request
<1>5. Fresh(c)'
    BY <1>1, <1>2, <1>3, RowType DEF Fresh, Idle, User, Host
<1>6. r.stage \notin {"findVerify", "findReset"}
    BY DEF Idle
<1> HIDE DEF r
<1> QED BY <1>1, <1>2, <1>4, <1>5, <1>6, StartIInv

\* A host's sign-up reads the guest's row.
LEMMA CreateHostAccountIInv ==
    ASSUME IInv, NEW c \in Call, NEW e \in Email, NEW p \in Password, CreateHostAccount(c, e, p)
    PROVE  IInv'
<1> USE AccountsAssumption
<1> DEFINE r == [Idle EXCEPT !.stage = "findHost", !.user = user[e], !.password = p, !.more = TRUE]
<1>1. /\ TypeOK /\ RowOK(e) /\ Begin(c, e, r) /\ UNCHANGED <<user, host, code, token, vouched>>
    BY DEF IInv, CreateHostAccount, accounts
<1>2. r \in Request
    BY <1>1, IdleType, RowType DEF Request, Stage, UserActiveStatus, User, Host, StatusOf, Kind
<1>3. call'[c] = [r EXCEPT !.email = e] /\ crossed \subseteq crossed'
  <2> HIDE DEF r
  <2> QED BY <1>1, <1>2, BeginEffect
<1>4. Shape(c)'
    BY <1>1, <1>2, <1>3, RowType DEF Shape, RowOK, Idle, Found, Busying, User, Host, Request
<1>5. Fresh(c)'
    BY <1>1, <1>2, <1>3, RowType DEF Fresh, Idle, User, Host
<1>6. r.stage \notin {"findVerify", "findReset"}
    BY DEF Idle
<1> HIDE DEF r
<1> QED BY <1>1, <1>2, <1>4, <1>5, <1>6, StartIInv

\* A code is asked for.
LEMMA SendCodeIInv ==
    ASSUME IInv, NEW c \in Call, NEW e \in Email, NEW k \in Kind, SendCode(c, e, k)
    PROVE  IInv'
<1> USE AccountsAssumption
<1> DEFINE r == [Idle EXCEPT !.stage = "registerCode", !.kind = k]
<1>1. /\ TypeOK /\ RowOK(e) /\ Begin(c, e, r) /\ UNCHANGED <<user, host, code, token, vouched>> /\ user[e] # NULL
    BY DEF IInv, SendCode, accounts
<1>2. r \in Request
    BY <1>1, IdleType, RowType DEF Request, Stage, UserActiveStatus, User, Host, StatusOf, Kind
<1>3. call'[c] = [r EXCEPT !.email = e] /\ crossed \subseteq crossed'
  <2> HIDE DEF r
  <2> QED BY <1>1, <1>2, BeginEffect
<1>4. Shape(c)'
    BY <1>1, <1>2, <1>3, RowType DEF Shape, RowOK, Idle, Found, Busying, User, Host, Request
<1>5. Fresh(c)'
    BY <1>1, <1>2, <1>3, RowType DEF Fresh, Idle, User, Host
<1>6. r.stage \notin {"findVerify", "findReset"}
    BY DEF Idle
<1> HIDE DEF r
<1> QED BY <1>1, <1>2, <1>4, <1>5, <1>6, StartIInv

\* A guest changes the password.
LEMMA UpdatePasswordIInv ==
    ASSUME IInv, NEW c \in Call, NEW e \in Email, NEW p \in Password, UpdatePassword(c, e, p)
    PROVE  IInv'
<1> USE AccountsAssumption
<1> DEFINE r == [Idle EXCEPT !.stage = "writePassword", !.password = p]
<1>1. /\ TypeOK /\ RowOK(e) /\ Begin(c, e, r) /\ UNCHANGED <<user, host, code, token, vouched>> /\ user[e] # NULL
    BY DEF IInv, UpdatePassword, accounts
<1>2. r \in Request
    BY <1>1, IdleType, RowType DEF Request, Stage, UserActiveStatus, User, Host, StatusOf, Kind
<1>3. call'[c] = [r EXCEPT !.email = e] /\ crossed \subseteq crossed'
  <2> HIDE DEF r
  <2> QED BY <1>1, <1>2, BeginEffect
<1>4. Shape(c)'
    BY <1>1, <1>2, <1>3, RowType DEF Shape, RowOK, Idle, Found, Busying, User, Host, Request
<1>5. Fresh(c)'
    BY <1>1, <1>2, <1>3, RowType DEF Fresh, Idle, User, Host
<1>6. r.stage \notin {"findVerify", "findReset"}
    BY DEF Idle
<1> HIDE DEF r
<1> QED BY <1>1, <1>2, <1>4, <1>5, <1>6, StartIInv

\* An admin changes the status of a guest.
LEMMA UpdateGuestIInv ==
    ASSUME IInv, NEW c \in Call, NEW e \in Email, NEW asked \in Asked, UpdateGuest(c, e, asked)
    PROVE  IInv'
<1> USE AccountsAssumption
<1> DEFINE r == [Idle EXCEPT !.stage = "saveUser", !.active = StatusOf(asked), !.more = TRUE,
                             !.user = [user[e] EXCEPT !.active = StatusOf(asked)]]
<1>1. /\ TypeOK /\ RowOK(e) /\ Begin(c, e, r) /\ UNCHANGED <<user, host, code, token, vouched>> /\ user[e] # NULL
    BY DEF IInv, UpdateGuest, accounts
<1>0. /\ user[e] \in User /\ StatusOf(asked) \in UserActiveStatus
      /\ [user[e] EXCEPT !.active = StatusOf(asked)] \in User
    BY <1>1, RowType DEF StatusOf, UserActiveStatus, User
<1>2. r \in Request
    BY <1>0, IdleType DEF Request, Stage
<1>3. call'[c] = [r EXCEPT !.email = e] /\ crossed \subseteq crossed'
  <2> HIDE DEF r
  <2> QED BY <1>1, <1>2, BeginEffect
<1>7. /\ call'[c].stage = "saveUser" /\ call'[c].email = e /\ call'[c].more = TRUE /\ call'[c].old = {}
      /\ call'[c].active = StatusOf(asked) /\ call'[c].user = [user[e] EXCEPT !.active = StatusOf(asked)]
    BY <1>3 DEF Idle
<1>4. Shape(c)'
    BY <1>0, <1>1, <1>7 DEF Shape, RowOK, User
<1>5. Fresh(c)'
    BY <1>0, <1>1, <1>7 DEF Fresh, User
<1>6. r.stage \notin {"findVerify", "findReset"}
    BY DEF Idle
<1> HIDE DEF r
<1> QED BY <1>1, <1>2, <1>4, <1>5, <1>6, StartIInv

\* An admin changes the status of a host.
LEMMA UpdatePartnerIInv ==
    ASSUME IInv, NEW c \in Call, NEW e \in Email, NEW asked \in Asked, UpdatePartner(c, e, asked)
    PROVE  IInv'
<1> USE AccountsAssumption
<1> DEFINE r == [Idle EXCEPT !.stage = "saveHost", !.active = StatusOf(asked), !.more = TRUE,
                             !.host = [host[e] EXCEPT !.active = StatusOf(asked)],
                             !.linked = user[e].linked]
<1>1. /\ TypeOK /\ RowOK(e) /\ Begin(c, e, r) /\ UNCHANGED <<user, host, code, token, vouched>> /\ host[e] # NULL
    BY DEF IInv, UpdatePartner, accounts
<1>0. /\ user[e] \in User /\ host[e] \in Host /\ StatusOf(asked) \in UserActiveStatus
      /\ [host[e] EXCEPT !.active = StatusOf(asked)] \in Host /\ user[e].linked \in BOOLEAN
    BY <1>1, RowType DEF StatusOf, UserActiveStatus, User, Host, RowOK
<1>2. r \in Request
    BY <1>0, IdleType DEF Request, Stage
<1>3. call'[c] = [r EXCEPT !.email = e] /\ crossed \subseteq crossed'
  <2> HIDE DEF r
  <2> QED BY <1>1, <1>2, BeginEffect
<1>7. /\ call'[c].stage = "saveHost" /\ call'[c].email = e /\ call'[c].more = TRUE /\ call'[c].old = {}
      /\ call'[c].active = StatusOf(asked) /\ call'[c].user = NULL /\ call'[c].linked = user[e].linked
      /\ call'[c].host = [host[e] EXCEPT !.active = StatusOf(asked)]
    BY <1>3 DEF Idle
<1>4. Shape(c)'
    BY <1>0, <1>1, <1>7 DEF Shape
<1>5. Fresh(c)'
    BY <1>0, <1>1, <1>7 DEF Fresh, Host
<1>6. r.stage \notin {"findVerify", "findReset"}
    BY DEF Idle
<1> HIDE DEF r
<1> QED BY <1>1, <1>2, <1>4, <1>5, <1>6, StartIInv
\* A session is opened: nothing is claimed of the account.
LEMMA OpenSessionIInv == ASSUME IInv, NEW c \in Call, NEW e \in Email, OpenSession(c, e) PROVE IInv'
<1> DEFINE r == [Idle EXCEPT !.stage = "createToken", !.email = e]
<1>1. /\ TypeOK /\ RowOK(e) /\ Shape(c) /\ call[c].stage = "idle" /\ call' = [call EXCEPT ![c] = r]
      /\ UNCHANGED <<user, host, code, token, vouched, apart, crossed>>
    BY DEF IInv, OpenSession, accounts, history
<1>2. r \in Request
    BY IdleType DEF Request, Stage
<1>3. /\ call' \in [Call -> Request] /\ call'[c] = r /\ \A d \in Call : d # c => call'[d] = call[d]
  <2> HIDE DEF r
  <2> QED BY <1>1, <1>2 DEF TypeOK
<1>4. call'[c].stage = "createToken" /\ call'[c].email = e /\ call'[c].user = NULL /\ call'[c].old = {}
    BY <1>3 DEF Idle
<1>5. Shape(c)' /\ Fresh(c)'
    BY <1>4 DEF Shape, Fresh, Found, Busying
<1>6. TypeOK'
    BY <1>1, <1>3 DEF TypeOK
<1>7. Local(c, e)
    BY <1>1, <1>3, <1>4 DEF Local, Shape, IsBusy, Busying
<1>8. RowOK(e)'
    BY <1>1 DEF RowOK
<1>9. CodeOK(e)'
    BY <1>1, <1>3, <1>4, CodeKept
<1> QED BY <1>5, <1>6, <1>7, <1>8, <1>9, LocalIInv

\* A code counts as used.
LEMMA UsedEffect ==
    ASSUME TypeOK, NEW e \in Email, NEW k \in Kind, Used(e, k)
    PROVE  /\ code' \in [Email -> [Kind -> Code]]
           /\ \A f \in Email : f # e => code'[f] = code[f]
           /\ \A j \in Kind : j # k => code'[e][j] = code[e][j]
           /\ code'[e][k].live = code[e][k].live /\ code'[e][k].fresh = FALSE
<1>1. code[e][k] \in Code
    BY DEF TypeOK
<1>2. [code[e][k] EXCEPT !.fresh = FALSE] \in Code
    BY <1>1 DEF Code
<1>3. code' = [code EXCEPT ![e] = [code[e] EXCEPT ![k] = [code[e][k] EXCEPT !.fresh = FALSE]]]
    BY DEF Used
<1>4. code[e] \in [Kind -> Code]
    BY DEF TypeOK
<1> QED BY <1>1, <1>2, <1>3, <1>4 DEF TypeOK, Code

\* A code is taken out of the cache.
LEMMA RemoveEffect ==
    ASSUME TypeOK, NEW e \in Email, NEW k \in Kind, RemoveCode(e, k)
    PROVE  /\ code' \in [Email -> [Kind -> Code]]
           /\ \A f \in Email : f # e => code'[f] = code[f]
           /\ \A j \in Kind : j # k => code'[e][j] = code[e][j]
           /\ code'[e][k].live = FALSE /\ code'[e][k].fresh = code[e][k].fresh
<1>1. code[e][k] \in Code
    BY DEF TypeOK
<1>2. [code[e][k] EXCEPT !.live = FALSE] \in Code
    BY <1>1 DEF Code
<1>3. code' = [code EXCEPT ![e] = [code[e] EXCEPT ![k] = [code[e][k] EXCEPT !.live = FALSE]]]
    BY DEF RemoveCode
<1>4. code[e] \in [Kind -> Code]
    BY DEF TypeOK
<1> QED BY <1>1, <1>2, <1>3, <1>4 DEF TypeOK, Code

\* A request that begins with an accepted code, which is to be removed next.
LEMMA StartWithCodeIInv ==
    ASSUME IInv, NEW c \in Call, NEW e \in Email, NEW k \in Kind, NEW r \in Request,
           Begin(c, e, r), Used(e, k), UNCHANGED <<user, host, token>>,
           vouched \subseteq vouched', vouched' \subseteq vouched \cup {e},
           r.stage = IF k = "verify" THEN "findVerify" ELSE "findReset",
           Shape(c)', Fresh(c)'
    PROVE  IInv'
<1>1. TypeOK /\ Shape(c) /\ RowOK(e) /\ CodeOK(e)
    BY DEF IInv
<1>2. /\ call[c].stage = "idle" /\ call' \in [Call -> Request]
      /\ call'[c] = [r EXCEPT !.email = e]
      /\ \A d \in Call : d # c => call'[d] = call[d]
      /\ crossed \subseteq crossed' /\ crossed' \subseteq crossed \cup {e}
      /\ e \in crossed' \/ \A d \in Call : ~IsBusy(d, e)
      /\ apart' \in [Email -> SUBSET Shared]
    BY <1>1, BeginEffect
<1>3. call'[c].email = e /\ call'[c].stage = r.stage /\ call[c].email = NULL
    BY <1>1, <1>2 DEF Request, Shape
<1>4. /\ code' \in [Email -> [Kind -> Code]]
      /\ \A f \in Email : f # e => code'[f] = code[f]
      /\ \A j \in Kind : j # k => code'[e][j] = code[e][j]
      /\ code'[e][k].live = code[e][k].live /\ code'[e][k].fresh = FALSE
    BY <1>1, UsedEffect
<1>5. TypeOK'
    BY <1>1, <1>2, <1>4 DEF TypeOK
<1>6. Local(c, e)
    BY <1>2, <1>3, <1>4 DEF Local
<1>7. RowOK(e)'
    BY <1>1, <1>2, <1>4 DEF RowOK
<1>8. CodeOK(e)'
  <2> SUFFICES ASSUME e \notin crossed', NEW j \in Kind
               PROVE  /\ (\E d \in Call : Removes(d, e, j)') => ~code'[e][j].fresh
                      /\ (\A d \in Call : ~Removes(d, e, j)') => (code'[e][j].live <=> code'[e][j].fresh)
    BY DEF CodeOK
  <2>1. \A d \in Call, i \in Kind : ~Removes(d, e, i)
    BY <1>2 DEF Removes, IsBusy, Busying, Stage, Kind
  <2>2. CASE j = k
    <3>1. Removes(c, e, j)'
      BY <1>3, <2>2 DEF Removes
    <3> QED BY <1>4, <2>2, <3>1
  <2>3. CASE j # k
    <3>1. ~Removes(c, e, j)'
      BY <1>3, <2>3 DEF Removes, Kind
    <3>2. \A d \in Call : ~Removes(d, e, j)'
      BY <1>2, <2>1, <3>1 DEF Removes
    <3> QED BY <1>1, <1>2, <1>4, <2>1, <2>3, <3>2 DEF CodeOK
  <2> QED BY <2>2, <2>3
<1> QED BY <1>5, <1>6, <1>7, <1>8, LocalIInv

\* The code from the confirmation mail is entered.
LEMMA ValidateVerifyIInv ==
    ASSUME IInv, NEW c \in Call, NEW e \in Email, ValidateVerify(c, e) PROVE IInv'
<1> DEFINE r == [Idle EXCEPT !.stage = "findVerify"]
<1>1. /\ TypeOK /\ RowOK(e) /\ Begin(c, e, r) /\ Used(e, "verify") /\ UNCHANGED <<user, host, token>>
      /\ code[e]["verify"].live /\ vouched' = vouched \cup {e}
    BY DEF IInv, ValidateVerify, Accepted, accounts
<1>2. r \in Request /\ r.stage = "findVerify" /\ "verify" \in Kind
    BY IdleType DEF Request, Stage, Idle, Kind
<1>3. call'[c] = [r EXCEPT !.email = e]
  <2> HIDE DEF r
  <2> QED BY <1>1, <1>2, BeginEffect
<1>4. call'[c].stage = "findVerify" /\ call'[c].email = e /\ call'[c].user = NULL /\ call'[c].old = {}
    BY <1>3 DEF Idle
<1>5. Shape(c)' /\ Fresh(c)'
    BY <1>1, <1>2, <1>4 DEF Shape, Fresh, RowOK
<1> HIDE DEF r
<1> QED BY <1>1, <1>2, <1>5, StartWithCodeIInv

\* The code from the reset mail is entered.
LEMMA ValidateResetIInv ==
    ASSUME IInv, NEW c \in Call, NEW e \in Email, NEW p \in Password, ValidateReset(c, e, p)
    PROVE  IInv'
<1> DEFINE r == [Idle EXCEPT !.stage = "findReset", !.password = p, !.old = Sessions(e)]
<1>1. /\ TypeOK /\ RowOK(e) /\ Begin(c, e, r) /\ Used(e, "reset")
      /\ UNCHANGED <<user, host, token, vouched>> /\ code[e]["reset"].live
    BY DEF IInv, ValidateReset, Accepted, accounts
<1>2. Sessions(e) \subseteq Token /\ \A t \in Sessions(e) : t[1] = e
    BY <1>1 DEF Sessions, TypeOK
<1>3. r \in Request /\ r.stage = "findReset" /\ "reset" \in Kind
    BY <1>2, IdleType DEF Request, Stage, Idle, Kind
<1>4. call'[c] = [r EXCEPT !.email = e]
  <2> HIDE DEF r
  <2> QED BY <1>1, <1>3, BeginEffect
<1>5. call'[c].stage = "findReset" /\ call'[c].email = e /\ call'[c].user = NULL
      /\ call'[c].old = Sessions(e)
    BY <1>4 DEF Idle
<1>6. Shape(c)' /\ Fresh(c)'
    BY <1>1, <1>2, <1>3, <1>5 DEF Shape, Fresh, RowOK
<1> HIDE DEF r
<1> QED BY <1>1, <1>3, <1>6, StartWithCodeIInv

-----------------------------------------------------------------------------
(* The requests go on.                                                     *)

\* A request that has begun is about one account, and claims what its stage says.
LEMMA Working ==
    ASSUME IInv, NEW c \in Call, call[c].stage \in Busying
    PROVE  /\ TypeOK /\ call[c] \in Request /\ call[c].email \in Email
           /\ IsBusy(c, call[c].email) /\ Shape(c) /\ Fresh(c) /\ RowOK(call[c].email)
BY DEF IInv, TypeOK, Shape, IsBusy, Busying

\* A step that changes nothing but the request.
LEMMA QuietIInv ==
    ASSUME IInv, NEW c \in Call, NEW e \in Email, IsBusy(c, e),
           call[c].stage \notin {"findVerify", "findReset"},
           call'[c].stage \notin {"findVerify", "findReset"},
           call'[c].email \in {e, NULL}, call' \in [Call -> Request],
           \A d \in Call : d # c => call'[d] = call[d],
           UNCHANGED <<user, host, code, token, vouched, apart, crossed>>, Shape(c)', Fresh(c)'
    PROVE  IInv'
<1>1. TypeOK /\ RowOK(e)
    BY DEF IInv
<1>2. RowOK(e)'
    BY <1>1 DEF RowOK
<1>3. user' \in [Email -> User \cup {NULL}] /\ host' \in [Email -> Host \cup {NULL}]
    BY <1>1 DEF TypeOK
<1> QED BY <1>2, <1>3, ContinueIInv

\* The request ends without having changed anything.
LEMMA EndIInv ==
    ASSUME IInv, NEW c \in Call, call[c].stage \in Busying \ {"findVerify", "findReset"}, Finish(c),
           UNCHANGED <<user, host, code, token, vouched, apart, crossed>>
    PROVE  IInv'
<1>1. TypeOK /\ call[c].email \in Email /\ IsBusy(c, call[c].email)
    BY Working
<1>2. /\ call' \in [Call -> Request] /\ call'[c] = Idle
      /\ call'[c].stage = "idle" /\ call'[c].email = NULL
      /\ \A d \in Call : d # c => call'[d] = call[d]
    BY <1>1, FinishEffect
<1> QED BY <1>1, <1>2, AtRest, QuietIInv
\* What a sign-up goes on with once it has its guest.
LEMMA ForHostType ==
    ASSUME NEW r \in Request, NEW p \in Password \cup {NULL}, NEW stage \in Stage
    PROVE  /\ ForHost(r, p, stage) \in Request
           /\ ForHost(r, p, stage).stage = stage /\ ForHost(r, p, stage).email = r.email
           /\ ForHost(r, p, stage).user = NULL /\ ForHost(r, p, stage).old = {}
           /\ ForHost(r, p, stage).password = p /\ ForHost(r, p, stage).more = r.more
BY IdleType DEF ForHost, Request, Idle

\* createHostAccount looks for the host.
LEMMA FindHostIInv == ASSUME IInv, NEW c \in Call, FindHost(c) PROVE IInv'
<1> USE AccountsAssumption
<1>1. /\ call[c].stage = "findHost" /\ UNCHANGED <<user, host, code, token, vouched, apart, crossed>>
    BY DEF FindHost, accounts, history
<1>2. call[c].stage \in Busying
    BY <1>1 DEF Busying, Stage
<1>3. PICK e \in Email : /\ e = call[c].email /\ IsBusy(c, e) /\ TypeOK /\ call[c] \in Request
                         /\ Shape(c) /\ Fresh(c) /\ RowOK(e)
    BY <1>2, Working
<1>4. CASE host[e] # NULL
  <2>1. Finish(c)
    BY <1>1, <1>3, <1>4 DEF FindHost
  <2> QED BY <1>1, <1>2, <2>1, EndIInv
<1>5. CASE host[e] = NULL /\ call[c].user # NULL
  <2> DEFINE r == ForHost(call[c], call[c].user.password, "insertHost")
  <2>1. call' = [call EXCEPT ![c] = r]
    BY <1>1, <1>3, <1>5 DEF FindHost
  <2>2. call[c].user \in User
    BY <1>3, <1>5 DEF Request
  <2>3. /\ r \in Request /\ r.stage = "insertHost" /\ r.email = e /\ r.user = NULL /\ r.old = {}
        /\ r.password = call[c].user.password
    <3>1. call[c].user.password \in Password \cup {NULL} /\ "insertHost" \in Stage
      BY <2>2 DEF User, Stage
    <3> QED BY <1>3, <3>1, ForHostType
  <2>4. /\ call' \in [Call -> Request] /\ call'[c] = r /\ \A d \in Call : d # c => call'[d] = call[d]
    <3> HIDE DEF r
    <3> QED BY <1>3, <2>1, <2>3 DEF TypeOK
  <2> HIDE DEF r
  <2>5. Shape(c)' /\ Fresh(c)'
    BY <1>1, <1>3, <1>5, <2>3, <2>4 DEF Shape, Fresh
  <2> QED BY <1>1, <1>3, <2>3, <2>4, <2>5, QuietIInv
<1>6. CASE host[e] = NULL /\ call[c].user = NULL
  <2>0. PICK verified \in BOOLEAN :
          call' = [call EXCEPT ![c].stage = "findUser",
                               ![c].user = NewUser(call[c].password, FALSE, verified)]
    BY <1>1, <1>3, <1>6 DEF FindHost
  <2> DEFINE u == NewUser(call[c].password, FALSE, verified)
             r == [call[c] EXCEPT !.stage = "findUser", !.user = u]
  <2>1. call' = [call EXCEPT ![c] = r]
    BY <2>0
  <2>2. u \in User /\ ~u.linked
    BY <1>3, NewUserType DEF Request, NewUser
  <2> HIDE DEF u
  <2>3. /\ r \in Request /\ r.stage = "findUser" /\ r.email = e /\ r.user \in User /\ ~r.user.linked
        /\ r.old = call[c].old
    BY <1>3, <2>2 DEF Request, Stage
  <2>4. /\ call' \in [Call -> Request] /\ call'[c] = r /\ \A d \in Call : d # c => call'[d] = call[d]
    <3> HIDE DEF r
    <3> QED BY <1>3, <2>1, <2>3 DEF TypeOK
  <2> HIDE DEF r
  <2>5. Shape(c)' /\ Fresh(c)'
    BY <1>1, <1>3, <2>3, <2>4 DEF Shape, Fresh, Found, Busying
  <2> QED BY <1>1, <1>3, <2>3, <2>4, <2>5, QuietIInv
<1> QED BY <1>4, <1>5, <1>6

\* Only the stage of a request changes.
LEMMA GoOnEffect ==
    ASSUME TypeOK, NEW c \in Call, NEW stage \in Stage, GoOn(c, stage)
    PROVE  /\ call' \in [Call -> Request] /\ call'[c].stage = stage
           /\ call'[c].email = call[c].email /\ call'[c].user = call[c].user
           /\ call'[c].old = call[c].old /\ call'[c].password = call[c].password
           /\ call'[c].more = call[c].more
           /\ \A d \in Call : d # c => call'[d] = call[d]
<1>1. call[c] \in Request
    BY DEF TypeOK
<1>2. [call[c] EXCEPT !.stage = stage] \in Request
    BY <1>1 DEF Request
<1> QED BY <1>1, <1>2 DEF GoOn, TypeOK, Request

\* A sign-up looks for a guest with the address.
LEMMA FindUserIInv == ASSUME IInv, NEW c \in Call, FindUser(c) PROVE IInv'
<1>1. call[c].stage = "findUser" /\ UNCHANGED <<user, host, code, token, vouched, apart, crossed>>
    BY DEF FindUser, accounts, history
<1>2. call[c].stage \in Busying
    BY <1>1 DEF Busying, Stage
<1>3. PICK e \in Email : e = call[c].email /\ IsBusy(c, e) /\ TypeOK /\ Shape(c)
    BY <1>2, Working
<1>4. CASE GoOn(c, "insertUser")
  <2>1. /\ call' \in [Call -> Request] /\ call'[c].stage = "insertUser"
        /\ call'[c].email = e /\ call'[c].user = call[c].user /\ call'[c].old = call[c].old
        /\ \A d \in Call : d # c => call'[d] = call[d]
    BY <1>3, <1>4, GoOnEffect DEF Stage
  <2>2. Shape(c)' /\ Fresh(c)'
    BY <1>1, <1>3, <2>1 DEF Shape, Fresh, Found, Busying
  <2> QED BY <1>1, <1>3, <2>1, <2>2, QuietIInv
<1>5. CASE Finish(c)
    BY <1>1, <1>2, <1>5, EndIInv
<1> QED BY <1>4, <1>5 DEF FindUser

\* The guest is inserted if the address is still free.
LEMMA InsertUserIInv == ASSUME IInv, NEW c \in Call, InsertUser(c) PROVE IInv'
<1> USE AccountsAssumption
<1>1. call[c].stage = "insertUser" /\ UNCHANGED <<host, code, token, apart, crossed>>
    BY DEF InsertUser
<1>2. call[c].stage \in Busying
    BY <1>1 DEF Busying, Stage
<1>3. PICK e \in Email : /\ e = call[c].email /\ IsBusy(c, e) /\ TypeOK /\ call[c] \in Request
                         /\ Shape(c) /\ RowOK(e)
    BY <1>2, Working
<1>4. CASE user[e] # NULL
  <2>1. Finish(c) /\ UNCHANGED <<user, vouched>>
    BY <1>3, <1>4 DEF InsertUser
  <2> QED BY <1>1, <1>2, <2>1, EndIInv
<1>5. CASE user[e] = NULL
  <2> DEFINE u == call[c].user
             r == ForHost(call[c], u.password, "registerCode")
  <2>1. /\ user' = [user EXCEPT ![e] = u] /\ call' = [call EXCEPT ![c] = r]
        /\ vouched' = vouched \cup (IF u.verified THEN {e} ELSE {})
    BY <1>3, <1>5 DEF InsertUser, SaveUser
  <2>2. u \in User /\ ~u.linked
    BY <1>1, <1>3 DEF Shape
  <2>3. /\ r \in Request /\ r.stage = "registerCode" /\ r.email = e /\ r.user = NULL /\ r.old = {}
        /\ r.password = u.password
    <3>1. u.password \in Password \cup {NULL} /\ "registerCode" \in Stage
      BY <2>2 DEF User, Stage
    <3> QED BY <1>3, <3>1, ForHostType
  <2>4. /\ call' \in [Call -> Request] /\ call'[c] = r /\ \A d \in Call : d # c => call'[d] = call[d]
    <3> HIDE DEF r
    <3> QED BY <1>3, <2>1, <2>3 DEF TypeOK
  <2> HIDE DEF r
  <2>5. /\ user' \in [Email -> User \cup {NULL}] /\ host' \in [Email -> Host \cup {NULL}]
        /\ user'[e] = u /\ user'[e] # NULL /\ \A f \in Email : f # e => user'[f] = user[f]
    BY <1>1, <1>3, <2>1, <2>2 DEF TypeOK
  <2>6. Shape(c)' /\ Fresh(c)'
    BY <2>3, <2>4, <2>5 DEF Shape, Fresh
  <2>7. RowOK(e)'
    BY <1>1, <1>3, <1>5, <2>1, <2>2, <2>5 DEF RowOK
  <2>8. vouched \subseteq vouched' /\ vouched' \subseteq vouched \cup {e}
    BY <2>1
  <2> QED BY <1>1, <1>3, <2>3, <2>4, <2>5, <2>6, <2>7, <2>8, ContinueIInv
<1> QED BY <1>4, <1>5

\* A code is put into the cache.
LEMMA RegisterCodeIInv == ASSUME IInv, NEW c \in Call, RegisterCode(c) PROVE IInv'
<1>1. call[c].stage = "registerCode" /\ UNCHANGED <<user, host, token, vouched, apart, crossed>>
    BY DEF RegisterCode, accounts, history
<1>2. call[c].stage \in Busying
    BY <1>1 DEF Busying, Stage
<1>3. PICK e \in Email : /\ e = call[c].email /\ IsBusy(c, e) /\ TypeOK /\ call[c] \in Request
                         /\ Shape(c) /\ Fresh(c) /\ RowOK(e) /\ CodeOK(e) /\ user[e] # NULL
    BY <1>1, <1>2, Working DEF IInv, Shape, Found, Busying, Stage
<1>4. PICK k \in Kind : k = call[c].kind
    BY <1>3 DEF Request
<1>5. /\ code' \in [Email -> [Kind -> Code]]
      /\ \A f \in Email : f # e => code'[f] = code[f]
      /\ \A j \in Kind : j # k => code'[e][j] = code[e][j]
      /\ code'[e][k].live = TRUE /\ code'[e][k].fresh = TRUE
  <2>1. code' = [code EXCEPT ![e] = [code[e] EXCEPT ![k] = [live |-> TRUE, fresh |-> TRUE]]]
    BY <1>3, <1>4 DEF RegisterCode
  <2>2. [live |-> TRUE, fresh |-> TRUE] \in Code /\ code[e] \in [Kind -> Code]
    BY <1>3 DEF Code, TypeOK
  <2> QED BY <1>3, <2>1, <2>2 DEF TypeOK
<1>6. /\ call' \in [Call -> Request] /\ call'[c].email \in {e, NULL}
      /\ call'[c].stage \notin {"findVerify", "findReset"}
      /\ \A d \in Call : d # c => call'[d] = call[d]
      /\ Shape(c)' /\ Fresh(c)'
  <2>1. CASE call[c].more /\ GoOn(c, "insertHost")
    <3>1. /\ call' \in [Call -> Request] /\ call'[c].stage = "insertHost"
          /\ call'[c].email = e /\ call'[c].user = call[c].user /\ call'[c].old = call[c].old
          /\ call'[c].password = call[c].password
          /\ \A d \in Call : d # c => call'[d] = call[d]
      BY <1>3, <2>1, GoOnEffect DEF Stage
    <3>2. Shape(c)' /\ Fresh(c)'
      BY <1>1, <1>3, <2>1, <3>1 DEF Shape, Fresh
    <3> QED BY <3>1, <3>2
  <2>2. CASE Finish(c)
    BY <1>3, <2>2, FinishEffect, AtRest
  <2> QED BY <1>1, <2>1, <2>2 DEF RegisterCode
<1>7. TypeOK'
    BY <1>1, <1>3, <1>5, <1>6 DEF TypeOK
<1>8. Local(c, e)
    BY <1>1, <1>3, <1>5, <1>6 DEF Local, IsBusy
<1>9. RowOK(e)'
    BY <1>1, <1>3, <1>5 DEF RowOK
<1>10. CodeOK(e)'
  <2>1. \A d \in Call, j \in Kind : Removes(d, e, j)' <=> Removes(d, e, j)
    BY <1>1, <1>6 DEF Removes
  <2>2. e \notin crossed => \A d \in Call : ~Removes(d, e, k)
    BY <1>1, <1>3 DEF IInv, Alone, Removes, IsBusy, Busying, Stage
  <2> QED BY <1>1, <1>3, <1>5, <2>1, <2>2 DEF CodeOK
<1> QED BY <1>6, <1>7, <1>8, <1>9, <1>10, LocalIInv
\* The host is inserted with the link to its guest.
LEMMA InsertHostIInv == ASSUME IInv, NEW c \in Call, InsertHost(c) PROVE IInv'
<1> USE AccountsAssumption
<1>1. /\ call[c].stage = "insertHost" /\ UNCHANGED <<code, token, vouched, crossed>> /\ Finish(c)
    BY DEF InsertHost
<1>2. call[c].stage \in Busying
    BY <1>1 DEF Busying, Stage
<1>3. PICK e \in Email : /\ e = call[c].email /\ IsBusy(c, e) /\ TypeOK /\ call[c] \in Request
                         /\ Shape(c) /\ RowOK(e) /\ user[e] # NULL
    BY <1>1, <1>2, Working DEF Shape, Found, Busying, Stage
<1>4. CASE host[e] # NULL
  <2>1. UNCHANGED <<user, host, apart>>
    BY <1>3, <1>4 DEF InsertHost, accounts
  <2> QED BY <1>1, <1>2, <2>1, EndIInv
<1>5. CASE host[e] = NULL
  <2> DEFINE h == [password |-> call[c].password, active |-> "active"]
             u == [user[e] EXCEPT !.linked = TRUE]
  <2>1. host' = [host EXCEPT ![e] = h] /\ user' = [user EXCEPT ![e] = u]
    BY <1>3, <1>5 DEF InsertHost, SaveHost
  <2>2. h \in Host
    BY <1>3 DEF Host, Request, UserActiveStatus
  <2>3. u \in User /\ u.linked /\ u.verified = user[e].verified
    BY <1>3, RowType DEF User
  <2> HIDE DEF h, u
  <2>4. /\ user' \in [Email -> User \cup {NULL}] /\ host' \in [Email -> Host \cup {NULL}]
        /\ user'[e] = u /\ user'[e] # NULL /\ host'[e] = h /\ host'[e] # NULL
        /\ \A f \in Email : f # e => user'[f] = user[f] /\ host'[f] = host[f]
    BY <1>3, <2>1, <2>2, <2>3 DEF TypeOK
  <2>5. RowOK(e)'
    BY <1>1, <1>3, <2>3, <2>4 DEF RowOK
  <2>6. /\ call' \in [Call -> Request] /\ call'[c] = Idle
        /\ call'[c].stage = "idle" /\ call'[c].email = NULL
        /\ \A d \in Call : d # c => call'[d] = call[d]
    BY <1>1, <1>3, FinishEffect
  <2>7. apart' \in [Email -> SUBSET Shared]
    <3>1. {} \in SUBSET Shared /\ {"active"} \in SUBSET Shared
      BY DEF Shared
    <3> QED BY <1>3, <1>5, <3>1, DifferType DEF InsertHost
  <2> QED BY <1>1, <1>3, <2>4, <2>5, <2>6, <2>7, AtRest, ContinueIInv
<1> QED BY <1>4, <1>5

\* The request that has accepted a code removes it.
LEMMA RemoveStepIInv ==
    ASSUME IInv, NEW c \in Call, NEW e \in Email, NEW k \in Kind, IsBusy(c, e), Removes(c, e, k),
           RemoveCode(e, k), UNCHANGED <<user, host, token, vouched, apart, crossed>>,
           call' \in [Call -> Request], \A d \in Call : d # c => call'[d] = call[d],
           call'[c].email \in {e, NULL}, call'[c].stage \notin {"findVerify", "findReset"},
           Shape(c)', Fresh(c)'
    PROVE  IInv'
<1>1. TypeOK /\ RowOK(e) /\ CodeOK(e)
    BY DEF IInv
<1>2. /\ code' \in [Email -> [Kind -> Code]]
      /\ \A f \in Email : f # e => code'[f] = code[f]
      /\ \A j \in Kind : j # k => code'[e][j] = code[e][j]
      /\ code'[e][k].live = FALSE /\ code'[e][k].fresh = code[e][k].fresh
    BY <1>1, RemoveEffect
<1>3. TypeOK'
    BY <1>1, <1>2 DEF TypeOK
<1>4. Local(c, e)
    BY <1>2 DEF Local, IsBusy
<1>5. RowOK(e)'
    BY <1>1, <1>2 DEF RowOK
<1>6. CodeOK(e)'
  <2> SUFFICES ASSUME e \notin crossed, NEW j \in Kind
               PROVE  /\ (\E d \in Call : Removes(d, e, j)') => ~code'[e][j].fresh
                      /\ (\A d \in Call : ~Removes(d, e, j)') => (code'[e][j].live <=> code'[e][j].fresh)
    BY DEF CodeOK
  <2>1. \A d \in Call : d # c => ~Removes(d, e, j)
    BY DEF IInv, Alone, Removes, IsBusy, Busying, Stage
  <2>2. \A d \in Call : ~Removes(d, e, j)'
    BY <2>1 DEF Removes
  <2>3. CASE j = k
    BY <1>1, <1>2, <2>2, <2>3 DEF CodeOK
  <2>4. CASE j # k
    <3>1. ~Removes(c, e, j)
      BY <2>4 DEF Removes, Kind
    <3> QED BY <1>1, <1>2, <2>1, <2>2, <2>4, <3>1 DEF CodeOK
  <2> QED BY <2>3, <2>4
<1> QED BY <1>3, <1>4, <1>5, <1>6, LocalIInv

\* The guest is read, to be saved as verified.
LEMMA FindForVerifyIInv == ASSUME IInv, NEW c \in Call, FindForVerify(c) PROVE IInv'
<1> USE AccountsAssumption
<1>1. call[c].stage = "findVerify" /\ UNCHANGED <<user, host, token, vouched, apart, crossed>>
    BY DEF FindForVerify, accounts, history
<1>2. call[c].stage \in Busying
    BY <1>1 DEF Busying, Stage
<1>3. PICK e \in Email : /\ e = call[c].email /\ IsBusy(c, e) /\ TypeOK /\ call[c] \in Request
                         /\ Shape(c) /\ RowOK(e) /\ user[e] # NULL
    BY <1>1, <1>2, Working DEF Shape, Found, Busying, Stage
<1>4. "verify" \in Kind /\ Removes(c, e, "verify") /\ RemoveCode(e, "verify")
    BY <1>1, <1>3 DEF Kind, Removes, FindForVerify
<1> DEFINE u == Verified(user[e])
           r == [call[c] EXCEPT !.stage = "saveVerified", !.user = u]
<1>5. /\ u \in User /\ u.active = user[e].active /\ u.password = user[e].password
      /\ u.google = user[e].google /\ u.linked = user[e].linked
    BY <1>3, RowType DEF Verified, User
<1>6. call' = [call EXCEPT ![c] = r]
    BY <1>3 DEF FindForVerify
<1> HIDE DEF u
<1>7. /\ r \in Request /\ r.stage = "saveVerified" /\ r.user = u /\ r.email = e /\ r.old = call[c].old
    BY <1>3, <1>5 DEF Request, Stage
<1> HIDE DEF r
<1>8. call' \in [Call -> Request] /\ call'[c] = r /\ \A d \in Call : d # c => call'[d] = call[d]
    BY <1>3, <1>6, <1>7 DEF TypeOK
<1>9. Shape(c)' /\ Fresh(c)'
    BY <1>1, <1>3, <1>5, <1>7, <1>8 DEF Shape, Fresh, RowOK
<1> QED BY <1>1, <1>3, <1>4, <1>7, <1>8, <1>9, RemoveStepIInv

\* The guest is read, to be saved with the new password.
LEMMA FindForResetIInv == ASSUME IInv, NEW c \in Call, FindForReset(c) PROVE IInv'
<1> USE AccountsAssumption
<1>1. call[c].stage = "findReset" /\ UNCHANGED <<user, host, token, vouched, apart, crossed>>
    BY DEF FindForReset, accounts, history
<1>2. call[c].stage \in Busying
    BY <1>1 DEF Busying, Stage
<1>3. PICK e \in Email : /\ e = call[c].email /\ IsBusy(c, e) /\ TypeOK /\ call[c] \in Request
                         /\ Shape(c) /\ RowOK(e) /\ user[e] # NULL
    BY <1>1, <1>2, Working DEF Shape, Found, Busying, Stage
<1>4. "reset" \in Kind /\ Removes(c, e, "reset") /\ RemoveCode(e, "reset")
    BY <1>1, <1>3 DEF Kind, Removes, FindForReset
<1>5. CASE user[e].google
  <2>1. /\ call' \in [Call -> Request] /\ call'[c] = Idle
        /\ call'[c].stage = "idle" /\ call'[c].email = NULL
        /\ \A d \in Call : d # c => call'[d] = call[d]
    BY <1>3, <1>5, FinishEffect DEF FindForReset
  <2> QED BY <1>1, <1>3, <1>4, <2>1, AtRest, RemoveStepIInv
<1>6. CASE ~user[e].google
  <2> DEFINE u == [user[e] EXCEPT !.password = call[c].password]
             r == [call[c] EXCEPT !.stage = "invalidate", !.user = u]
  <2>1. /\ u \in User /\ u.active = user[e].active /\ u.verified = user[e].verified
        /\ u.google = user[e].google /\ u.linked = user[e].linked
    BY <1>3, RowType DEF User, Request
  <2>2. call' = [call EXCEPT ![c] = r]
    BY <1>3, <1>6 DEF FindForReset
  <2> HIDE DEF u
  <2>3. /\ r \in Request /\ r.stage = "invalidate" /\ r.user = u /\ r.email = e /\ r.old = call[c].old
    BY <1>3, <2>1 DEF Request, Stage
  <2> HIDE DEF r
  <2>4. call' \in [Call -> Request] /\ call'[c] = r /\ \A d \in Call : d # c => call'[d] = call[d]
    BY <1>3, <2>2, <2>3 DEF TypeOK
  <2>5. Shape(c)' /\ Fresh(c)'
    BY <1>1, <1>3, <2>1, <2>3, <2>4 DEF Shape, Fresh, RowOK
  <2> QED BY <1>1, <1>3, <1>4, <2>3, <2>4, <2>5, RemoveStepIInv
<1> QED BY <1>5, <1>6

\* The guest's tokens are deleted.
LEMMA InvalidateIInv == ASSUME IInv, NEW c \in Call, InvalidateAllTokens(c) PROVE IInv'
<1>1. /\ call[c].stage = "invalidate" /\ UNCHANGED <<user, host, code, vouched, apart, crossed>>
      /\ token' = token \ Sessions(call[c].email) /\ GoOn(c, "saveReset")
    BY DEF InvalidateAllTokens, accounts, history
<1>2. call[c].stage \in Busying
    BY <1>1 DEF Busying, Stage
<1>3. PICK e \in Email : /\ e = call[c].email /\ IsBusy(c, e) /\ TypeOK
                         /\ Shape(c) /\ Fresh(c) /\ RowOK(e) /\ user[e] # NULL
    BY <1>1, <1>2, Working DEF Shape, Found, Busying, Stage
<1>4. /\ call' \in [Call -> Request] /\ call'[c].stage = "saveReset"
      /\ call'[c].email = e /\ call'[c].user = call[c].user /\ call'[c].old = call[c].old
      /\ \A d \in Call : d # c => call'[d] = call[d]
    BY <1>1, <1>3, GoOnEffect DEF Stage
<1>5. call[c].old \cap token' = {}
    BY <1>1, <1>3 DEF Shape, Sessions
<1>6. Shape(c)' /\ Fresh(c)'
    BY <1>1, <1>3, <1>4, <1>5 DEF Shape, Fresh
<1>7. RowOK(e)'
    BY <1>1, <1>3 DEF RowOK
<1>8. user' \in [Email -> User \cup {NULL}] /\ host' \in [Email -> Host \cup {NULL}]
    BY <1>1, <1>3 DEF TypeOK
<1> QED BY <1>1, <1>3, <1>4, <1>6, <1>7, <1>8, ContinueIInv

\* An entity of a guest is saved: the row keeps its link and stays explained.
LEMMA SaveUserEffect ==
    ASSUME IInv, NEW c \in Call, NEW e \in Email, e = call[c].email,
           call[c].stage \in {"saveVerified", "saveReset", "saveUser"},
           SaveUser(e, call[c].user), UNCHANGED <<host, code, vouched, crossed>>
    PROVE  /\ user' \in [Email -> User \cup {NULL}] /\ host' \in [Email -> Host \cup {NULL}]
           /\ user'[e] = call[c].user /\ user'[e] # NULL
           /\ \A f \in Email : f # e => user'[f] = user[f]
           /\ RowOK(e)'
<1> USE AccountsAssumption
<1>1. TypeOK /\ Shape(c) /\ Fresh(c) /\ RowOK(e)
    BY DEF IInv
<1>2. call[c].user \in User
    BY <1>1 DEF Shape
<1>3. /\ user' \in [Email -> User \cup {NULL}] /\ host' \in [Email -> Host \cup {NULL}]
      /\ user'[e] = call[c].user /\ user'[e] # NULL
      /\ \A f \in Email : f # e => user'[f] = user[f]
    BY <1>1, <1>2 DEF SaveUser, TypeOK
<1>4. e \notin crossed => call[c].user.linked = user[e].linked
    BY <1>1 DEF Fresh
<1>5. RowOK(e)'
    BY <1>1, <1>2, <1>3, <1>4 DEF RowOK, Shape
<1> QED BY <1>3, <1>5

\* The guest is saved as verified.
LEMMA SaveVerifiedIInv == ASSUME IInv, NEW c \in Call, SaveVerified(c) PROVE IInv'
<1>1. /\ call[c].stage = "saveVerified" /\ UNCHANGED <<host, code, token, vouched, apart, crossed>> /\ Finish(c)
      /\ SaveUser(call[c].email, call[c].user)
    BY DEF SaveVerified
<1>2. call[c].stage \in Busying
    BY <1>1 DEF Busying, Stage
<1>3. PICK e \in Email : e = call[c].email /\ IsBusy(c, e) /\ TypeOK
    BY <1>2, Working
<1>4. /\ user' \in [Email -> User \cup {NULL}] /\ host' \in [Email -> Host \cup {NULL}]
      /\ user'[e] = call[c].user /\ user'[e] # NULL /\ \A f \in Email : f # e => user'[f] = user[f]
      /\ RowOK(e)'
    BY <1>1, <1>3, SaveUserEffect
<1>5. /\ call' \in [Call -> Request] /\ call'[c] = Idle
      /\ call'[c].stage = "idle" /\ call'[c].email = NULL
      /\ \A d \in Call : d # c => call'[d] = call[d]
    BY <1>1, <1>3, FinishEffect
<1> QED BY <1>1, <1>3, <1>4, <1>5, AtRest, ContinueIInv

\* The guest is saved with the new password.
LEMMA SaveResetIInv == ASSUME IInv, NEW c \in Call, SaveReset(c) PROVE IInv'
<1>1. /\ call[c].stage = "saveReset" /\ UNCHANGED <<host, code, token, vouched, crossed>> /\ Finish(c)
      /\ SaveUser(call[c].email, call[c].user)
    BY DEF SaveReset
<1>2. call[c].stage \in Busying
    BY <1>1 DEF Busying, Stage
<1>3. PICK e \in Email : e = call[c].email /\ IsBusy(c, e) /\ TypeOK
    BY <1>2, Working
<1>4. /\ user' \in [Email -> User \cup {NULL}] /\ host' \in [Email -> Host \cup {NULL}]
      /\ user'[e] = call[c].user /\ user'[e] # NULL /\ \A f \in Email : f # e => user'[f] = user[f]
      /\ RowOK(e)'
    BY <1>1, <1>3, SaveUserEffect
<1>5. /\ call' \in [Call -> Request] /\ call'[c] = Idle
      /\ call'[c].stage = "idle" /\ call'[c].email = NULL
      /\ \A d \in Call : d # c => call'[d] = call[d]
    BY <1>1, <1>3, FinishEffect
<1>6. apart' \in [Email -> SUBSET Shared]
  <2>1. apart[e] \cup {"password"} \in SUBSET Shared /\ {} \in SUBSET Shared
    BY <1>3 DEF Shared, TypeOK
  <2> QED BY <1>3, <2>1, DifferType DEF SaveReset
<1> QED BY <1>1, <1>3, <1>4, <1>5, <1>6, AtRest, ContinueIInv

\* The guest's password column is written.
LEMMA WritePasswordIInv == ASSUME IInv, NEW c \in Call, WritePassword(c) PROVE IInv'
<1> USE AccountsAssumption
<1>1. /\ call[c].stage = "writePassword" /\ UNCHANGED <<host, code, token, vouched, apart, crossed>>
      /\ GoOn(c, "writeHostPassword")
    BY DEF WritePassword
<1>2. call[c].stage \in Busying
    BY <1>1 DEF Busying, Stage
<1>3. PICK e \in Email : /\ e = call[c].email /\ IsBusy(c, e) /\ TypeOK /\ call[c] \in Request
                         /\ Shape(c) /\ RowOK(e) /\ user[e] # NULL
    BY <1>1, <1>2, Working DEF Shape, Found, Busying, Stage
<1> DEFINE u == [user[e] EXCEPT !.password = call[c].password]
<1>4. user' = [user EXCEPT ![e] = u]
    BY <1>3 DEF WritePassword
<1>5. /\ u \in User /\ u.linked = user[e].linked /\ u.verified = user[e].verified
      /\ u.password = call[c].password
    BY <1>3, RowType DEF User, Request
<1> HIDE DEF u
<1>6. /\ user' \in [Email -> User \cup {NULL}] /\ host' \in [Email -> Host \cup {NULL}]
      /\ user'[e] = u /\ user'[e] # NULL
      /\ \A f \in Email : f # e => user'[f] = user[f] /\ host'[f] = host[f]
    BY <1>1, <1>3, <1>4, <1>5 DEF TypeOK
<1>7. /\ call' \in [Call -> Request] /\ call'[c].stage = "writeHostPassword"
      /\ call'[c].email = e /\ call'[c].user = call[c].user /\ call'[c].old = call[c].old
      /\ call'[c].password = call[c].password
      /\ \A d \in Call : d # c => call'[d] = call[d]
    BY <1>1, <1>3, GoOnEffect DEF Stage
<1>8. Shape(c)' /\ Fresh(c)'
    BY <1>1, <1>3, <1>5, <1>6, <1>7 DEF Shape, Fresh
<1>9. RowOK(e)'
    BY <1>1, <1>3, <1>5, <1>6 DEF RowOK
<1> QED BY <1>1, <1>3, <1>6, <1>7, <1>8, <1>9, ContinueIInv

\* The host's password column is written, if there is a host.
LEMMA WriteHostPasswordIInv == ASSUME IInv, NEW c \in Call, WriteHostPassword(c) PROVE IInv'
<1> USE AccountsAssumption
<1>1. /\ call[c].stage = "writeHostPassword" /\ UNCHANGED <<user, code, token, vouched, crossed>>
      /\ Finish(c)
    BY DEF WriteHostPassword, history
<1>2. call[c].stage \in Busying
    BY <1>1 DEF Busying, Stage
<1>3. PICK e \in Email : /\ e = call[c].email /\ IsBusy(c, e) /\ TypeOK /\ call[c] \in Request
                         /\ RowOK(e)
    BY <1>2, Working
<1> DEFINE h == IF host[e] = NULL THEN NULL ELSE [host[e] EXCEPT !.password = call[c].password]
<1>4. host' = [host EXCEPT ![e] = h]
    BY <1>3 DEF WriteHostPassword
<1>5. h \in Host \cup {NULL} /\ (h # NULL <=> host[e] # NULL)
    BY <1>3, RowType DEF Host, Request
<1> HIDE DEF h
<1>6. /\ user' \in [Email -> User \cup {NULL}] /\ host' \in [Email -> Host \cup {NULL}]
      /\ host'[e] = h
      /\ \A f \in Email : f # e => user'[f] = user[f] /\ host'[f] = host[f]
    BY <1>1, <1>3, <1>4, <1>5 DEF TypeOK
<1>7. /\ call' \in [Call -> Request] /\ call'[c] = Idle
      /\ call'[c].stage = "idle" /\ call'[c].email = NULL
      /\ \A d \in Call : d # c => call'[d] = call[d]
    BY <1>1, <1>3, FinishEffect
<1>8. RowOK(e)'
    BY <1>1, <1>3, <1>5, <1>6 DEF RowOK
<1>9. apart' \in [Email -> SUBSET Shared]
  <2>1. apart[e] \ {"password"} \in SUBSET Shared
    BY <1>3 DEF TypeOK
  <2> QED BY <1>3, <2>1, DifferType DEF WriteHostPassword
<1> QED BY <1>1, <1>3, <1>5, <1>6, <1>7, <1>8, <1>9, AtRest, ContinueIInv

\* The request that goes on from one account to the other.
OtherAccount(stage, e, active) == [Idle EXCEPT !.stage = stage, !.email = e, !.active = active]

\* It is a request, and knows only the account and the status.
LEMMA OtherAccountType ==
    ASSUME NEW stage \in Stage, NEW e \in Email, NEW active \in UserActiveStatus
    PROVE  /\ OtherAccount(stage, e, active) \in Request
           /\ OtherAccount(stage, e, active).stage = stage
           /\ OtherAccount(stage, e, active).email = e
           /\ OtherAccount(stage, e, active).active = active
           /\ OtherAccount(stage, e, active).user = NULL
           /\ OtherAccount(stage, e, active).old = {}
           /\ ~OtherAccount(stage, e, active).more
BY IdleType DEF OtherAccount, Request, Idle

\* The guest's entity is saved with its new status.
LEMMA SaveGuestIInv == ASSUME IInv, NEW c \in Call, SaveGuest(c) PROVE IInv'
<1> USE AccountsAssumption
<1>1. /\ call[c].stage = "saveUser" /\ UNCHANGED <<host, code, token, vouched, crossed>>
      /\ SaveUser(call[c].email, call[c].user)
    BY DEF SaveGuest
<1>2. call[c].stage \in Busying
    BY <1>1 DEF Busying, Stage
<1>3. PICK e \in Email : /\ e = call[c].email /\ IsBusy(c, e) /\ TypeOK /\ call[c] \in Request
                         /\ Shape(c) /\ Fresh(c)
    BY <1>2, Working
<1>4. /\ user' \in [Email -> User \cup {NULL}] /\ host' \in [Email -> Host \cup {NULL}]
      /\ user'[e] = call[c].user /\ user'[e] # NULL /\ \A f \in Email : f # e => user'[f] = user[f]
      /\ RowOK(e)'
    BY <1>1, <1>3, SaveUserEffect
<1>7. apart' \in [Email -> SUBSET Shared]
  <2>1. apart[e] \ {"active"} \in SUBSET Shared /\ apart[e] \in SUBSET Shared
    BY <1>3 DEF TypeOK
  <2> QED BY <1>3, <2>1, DifferType DEF SaveGuest
<1>5. CASE call[c].more /\ call[c].user.linked
  <2> DEFINE r == OtherAccount("readHost", e, call[c].active)
  <2>1. call' = [call EXCEPT ![c] = r]
    BY <1>3, <1>5 DEF SaveGuest, OtherAccount
  <2>2. /\ r \in Request /\ r.stage = "readHost" /\ r.email = e /\ r.active = call[c].active
        /\ r.user = NULL /\ r.old = {} /\ ~r.more
    <3>1. "readHost" \in Stage /\ call[c].active \in UserActiveStatus
      BY <1>3 DEF Stage, Request
    <3> QED BY <3>1, OtherAccountType
  <2> HIDE DEF r
  <2>3. call' \in [Call -> Request] /\ call'[c] = r /\ \A d \in Call : d # c => call'[d] = call[d]
    BY <1>3, <2>1, <2>2 DEF TypeOK
  <2>4. host[e] # NULL /\ (e \notin crossed => call[c].user.active = call[c].active)
    BY <1>1, <1>3, <1>5 DEF Shape, Fresh
  <2>5. Shape(c)' /\ Fresh(c)'
    BY <1>1, <1>4, <2>2, <2>3, <2>4 DEF Shape, Fresh
  <2> QED BY <1>1, <1>3, <1>4, <1>7, <2>2, <2>3, <2>5, ContinueIInv
<1>6. CASE ~(call[c].more /\ call[c].user.linked)
  <2>1. Finish(c)
    BY <1>6 DEF SaveGuest
  <2>2. /\ call' \in [Call -> Request] /\ call'[c] = Idle
        /\ call'[c].stage = "idle" /\ call'[c].email = NULL
        /\ \A d \in Call : d # c => call'[d] = call[d]
    BY <1>3, <2>1, FinishEffect
  <2> QED BY <1>1, <1>3, <1>4, <1>7, <2>2, AtRest, ContinueIInv
<1> QED BY <1>5, <1>6

\* What saving a host with its guest writes.
LEMMA SavePartnerEffect ==
    ASSUME IInv, NEW c \in Call, NEW e \in Email, e = call[c].email, SavePartner(c)
    PROVE  /\ user' \in [Email -> User \cup {NULL}] /\ host' \in [Email -> Host \cup {NULL}]
           /\ user'[e] = [user[e] EXCEPT !.linked = call[c].linked]
           /\ host'[e] = call[c].host /\ user'[e] # NULL /\ host'[e] # NULL
           /\ \A f \in Email : f # e => user'[f] = user[f] /\ host'[f] = host[f]
           /\ RowOK(e)'
<1> USE AccountsAssumption
<1>1. /\ call[c].stage = "saveHost" /\ UNCHANGED <<code, token, vouched, crossed>>
    BY DEF SavePartner
<1>2. /\ TypeOK /\ call[c] \in Request /\ Shape(c) /\ Fresh(c) /\ RowOK(e)
    BY DEF IInv, TypeOK
<1>3. user[e] # NULL /\ call[c].host \in Host /\ call[c].linked \in BOOLEAN
    BY <1>1, <1>2 DEF Shape, Request, Found, Busying, Stage
<1> DEFINE u == [user[e] EXCEPT !.linked = call[c].linked]
<1>4. user' = [user EXCEPT ![e] = u] /\ host' = [host EXCEPT ![e] = call[c].host]
    BY DEF SavePartner, SaveHost
<1>5. u \in User /\ u.linked = call[c].linked /\ u.verified = user[e].verified
    BY <1>2, <1>3, RowType DEF User
<1>6. e \notin crossed => call[c].linked = user[e].linked
    BY <1>1, <1>2 DEF Fresh
<1>7. u = [user[e] EXCEPT !.linked = call[c].linked]
    OBVIOUS
<1> HIDE DEF u
<1>8. /\ user' \in [Email -> User \cup {NULL}] /\ host' \in [Email -> Host \cup {NULL}]
      /\ user'[e] = u /\ host'[e] = call[c].host /\ user'[e] # NULL /\ host'[e] # NULL
      /\ \A f \in Email : f # e => user'[f] = user[f] /\ host'[f] = host[f]
    BY <1>2, <1>3, <1>4, <1>5 DEF TypeOK
<1>9. host[e] # NULL
    BY <1>1, <1>2 DEF Shape
<1>10. RowOK(e)'
    BY <1>1, <1>2, <1>5, <1>6, <1>8, <1>9 DEF RowOK
<1> QED BY <1>7, <1>8, <1>10

\* The host's entity is saved with its new status.
LEMMA SavePartnerIInv == ASSUME IInv, NEW c \in Call, SavePartner(c) PROVE IInv'
<1> USE AccountsAssumption
<1>1. call[c].stage = "saveHost" /\ UNCHANGED <<code, token, vouched, crossed>>
    BY DEF SavePartner, history
<1>2. call[c].stage \in Busying
    BY <1>1 DEF Busying, Stage
<1>3. PICK e \in Email : /\ e = call[c].email /\ IsBusy(c, e) /\ TypeOK /\ call[c] \in Request
                         /\ Shape(c) /\ Fresh(c)
    BY <1>2, Working
<1>4. /\ user' \in [Email -> User \cup {NULL}] /\ host' \in [Email -> Host \cup {NULL}]
      /\ host'[e] = call[c].host /\ user'[e] # NULL /\ host'[e] # NULL
      /\ \A f \in Email : f # e => user'[f] = user[f] /\ host'[f] = host[f]
      /\ RowOK(e)'
    BY <1>3, SavePartnerEffect
<1>7. apart' \in [Email -> SUBSET Shared]
  <2>1. apart[e] \ {"active"} \in SUBSET Shared /\ apart[e] \in SUBSET Shared
    BY <1>3 DEF TypeOK
  <2> QED BY <1>3, <2>1, DifferType DEF SavePartner
<1>5. CASE call[c].more /\ call[c].linked
  <2> DEFINE r == OtherAccount("readUser", e, call[c].active)
  <2>1. call' = [call EXCEPT ![c] = r]
    BY <1>3, <1>5 DEF SavePartner, OtherAccount
  <2>2. /\ r \in Request /\ r.stage = "readUser" /\ r.email = e /\ r.active = call[c].active
        /\ r.user = NULL /\ r.old = {} /\ ~r.more
    <3>1. "readUser" \in Stage /\ call[c].active \in UserActiveStatus
      BY <1>3 DEF Stage, Request
    <3> QED BY <3>1, OtherAccountType
  <2> HIDE DEF r
  <2>3. call' \in [Call -> Request] /\ call'[c] = r /\ \A d \in Call : d # c => call'[d] = call[d]
    BY <1>3, <2>1, <2>2 DEF TypeOK
  <2>4. e \notin crossed => call[c].host.active = call[c].active
    BY <1>1, <1>3 DEF Fresh
  <2>5. Shape(c)' /\ Fresh(c)'
    BY <1>1, <1>4, <2>2, <2>3, <2>4 DEF Shape, Fresh
  <2> QED BY <1>1, <1>3, <1>4, <1>7, <2>2, <2>3, <2>5, ContinueIInv
<1>6. CASE ~(call[c].more /\ call[c].linked)
  <2>1. Finish(c)
    BY <1>6 DEF SavePartner
  <2>2. /\ call' \in [Call -> Request] /\ call'[c] = Idle
        /\ call'[c].stage = "idle" /\ call'[c].email = NULL
        /\ \A d \in Call : d # c => call'[d] = call[d]
    BY <1>3, <2>1, FinishEffect
  <2> QED BY <1>1, <1>3, <1>4, <1>7, <2>2, AtRest, ContinueIInv
<1> QED BY <1>5, <1>6

\* The guest of the host is read, to be saved with the host's new status.
LEMMA ReadUserIInv == ASSUME IInv, NEW c \in Call, ReadUser(c) PROVE IInv'
<1> USE AccountsAssumption
<1>1. call[c].stage = "readUser" /\ UNCHANGED <<user, host, code, token, vouched, apart, crossed>>
    BY DEF ReadUser, accounts, history
<1>2. call[c].stage \in Busying
    BY <1>1 DEF Busying, Stage
<1>3. PICK e \in Email : /\ e = call[c].email /\ IsBusy(c, e) /\ TypeOK /\ call[c] \in Request
                         /\ Shape(c) /\ Fresh(c) /\ RowOK(e) /\ user[e] # NULL
    BY <1>1, <1>2, Working DEF Shape, Found, Busying, Stage
<1> DEFINE u == [user[e] EXCEPT !.active = call[c].active]
           r == [call[c] EXCEPT !.stage = "saveUser", !.user = u]
<1>4. /\ u \in User /\ u.password = user[e].password /\ u.verified = user[e].verified
      /\ u.google = user[e].google /\ u.linked = user[e].linked /\ u.active = call[c].active
    BY <1>3, RowType DEF User, Request
<1>5. call' = [call EXCEPT ![c] = r]
    BY <1>3 DEF ReadUser
<1> HIDE DEF u
<1>6. /\ r \in Request /\ r.stage = "saveUser" /\ r.user = u /\ r.email = e /\ r.old = call[c].old
      /\ r.active = call[c].active
    BY <1>3, <1>4 DEF Request, Stage
<1> HIDE DEF r
<1>7. call' \in [Call -> Request] /\ call'[c] = r /\ \A d \in Call : d # c => call'[d] = call[d]
    BY <1>3, <1>5, <1>6 DEF TypeOK
<1>8. Shape(c)' /\ Fresh(c)'
    BY <1>1, <1>3, <1>4, <1>6, <1>7 DEF Shape, Fresh, RowOK
<1> QED BY <1>1, <1>3, <1>6, <1>7, <1>8, QuietIInv

\* The host of the guest is read, to be saved with the guest's new status.
LEMMA ReadHostIInv == ASSUME IInv, NEW c \in Call, ReadHost(c) PROVE IInv'
<1> USE AccountsAssumption
<1>1. call[c].stage = "readHost" /\ UNCHANGED <<user, host, code, token, vouched, apart, crossed>>
    BY DEF ReadHost, accounts, history
<1>2. call[c].stage \in Busying
    BY <1>1 DEF Busying, Stage
<1>3. PICK e \in Email : /\ e = call[c].email /\ IsBusy(c, e) /\ TypeOK /\ call[c] \in Request
                         /\ Shape(c) /\ Fresh(c) /\ user[e] # NULL /\ host[e] # NULL
    BY <1>1, <1>2, Working DEF Shape, Found, Busying, Stage
<1> DEFINE h == [host[e] EXCEPT !.active = call[c].active]
           r == [call[c] EXCEPT !.stage = "saveHost", !.linked = user[e].linked, !.host = h]
<1>4. /\ h \in Host /\ h.active = call[c].active /\ h.password = host[e].password
      /\ user[e].linked \in BOOLEAN
    BY <1>3, RowType DEF Host, User, Request
<1>5. call' = [call EXCEPT ![c] = r]
    BY <1>3 DEF ReadHost
<1> HIDE DEF h
<1>6. /\ r \in Request /\ r.stage = "saveHost" /\ r.host = h /\ r.email = e /\ r.old = call[c].old
      /\ r.active = call[c].active /\ r.linked = user[e].linked /\ r.user = call[c].user
    BY <1>3, <1>4 DEF Request, Stage
<1> HIDE DEF r
<1>7. call' \in [Call -> Request] /\ call'[c] = r /\ \A d \in Call : d # c => call'[d] = call[d]
    BY <1>3, <1>5, <1>6 DEF TypeOK
<1>8. Shape(c)' /\ Fresh(c)'
    BY <1>1, <1>3, <1>4, <1>6, <1>7 DEF Shape, Fresh
<1> QED BY <1>1, <1>3, <1>6, <1>7, <1>8, QuietIInv

\* A token is stored, and is not among those a reset has to end.
LEMMA CreateTokenIInv ==
    ASSUME IInv, NEW c \in Call, NEW s \in Second, CreateToken(c, s) PROVE IInv'
<1>1. /\ call[c].stage = "createToken" /\ UNCHANGED <<user, host, code, vouched, apart, crossed>>
      /\ TypeOK /\ Shape(c)
    BY DEF CreateToken, accounts, history, IInv
<1>2. PICK e \in Email : e = call[c].email /\ RowOK(e)
    BY <1>1 DEF Shape, IInv
<1> DEFINE t == <<e, s>>
<1>3. CASE t \in token
  <2>1. UNCHANGED token /\ Finish(c)
    BY <1>2, <1>3 DEF CreateToken
  <2>2. /\ call' \in [Call -> Request] /\ call'[c] = Idle
        /\ call'[c].stage = "idle" /\ call'[c].email = NULL
        /\ \A d \in Call : d # c => call'[d] = call[d]
    BY <1>1, <2>1, FinishEffect
  <2>3. TypeOK' /\ RowOK(e)'
    BY <1>1, <1>2, <2>1, <2>2 DEF TypeOK, RowOK
  <2>4. Local(c, e)
    BY <1>1, <1>2, <2>1, <2>2 DEF Local, IsBusy, Busying
  <2>5. CodeOK(e)'
    BY <1>1, <2>2, CodeKept
  <2> QED BY <2>2, <2>3, <2>4, <2>5, AtRest, LocalIInv
<1>4. CASE t \notin token
  <2>1. /\ token' = token \cup {t}
        /\ call' = [d \in Call |-> IF d = c THEN Idle ELSE [call[d] EXCEPT !.old = @ \ {t}]]
    BY <1>2, <1>4 DEF CreateToken
  <2>2. t \in Token
    BY DEF Token
  <2> HIDE DEF t
  <2>3. call'[c] = Idle /\ call'[c].stage = "idle" /\ call'[c].email = NULL
    BY <2>1 DEF Idle
  <2>4. ASSUME NEW d \in Call, d # c
        PROVE  /\ call'[d] \in Request /\ call'[d].stage = call[d].stage /\ call'[d].email = call[d].email
               /\ call'[d].user = call[d].user /\ call'[d].host = call[d].host
               /\ call'[d].linked = call[d].linked /\ call'[d].password = call[d].password
               /\ call'[d].active = call[d].active /\ call'[d].more = call[d].more
               /\ call'[d].old = call[d].old \ {t}
    BY <1>1, <2>1, <2>4 DEF TypeOK, Request
  <2>5. TypeOK'
    BY <1>1, <2>1, <2>2, <2>3, <2>4, IdleType DEF TypeOK
  <2>6. ASSUME NEW d \in Call PROVE Shape(d)' /\ Fresh(d)'
    <3>1. CASE d = c
      BY <2>3, <3>1, AtRest
    <3>2. CASE d # c
      <4>1. Shape(d) /\ Fresh(d)
        BY DEF IInv
      <4>4. /\ call'[d].stage = call[d].stage /\ call'[d].email = call[d].email
            /\ call'[d].user = call[d].user /\ call'[d].host = call[d].host
            /\ call'[d].more = call[d].more
        BY <2>4, <3>2
      <4>5. /\ call[d].old = {} => call'[d].old = {}
            /\ (\A x \in call[d].old : x[1] = call[d].email) => \A x \in call'[d].old : x[1] = call[d].email
            /\ call[d].old \cap token = {} => call'[d].old \cap token' = {}
        BY <2>1, <2>4, <3>2
      <4>2. Shape(d)'
        BY <1>1, <4>1, <4>4, <4>5 DEF Shape
      <4>3. Fresh(d)'
        BY <1>1, <2>4, <3>2, <4>1 DEF Fresh
      <4> QED BY <4>2, <4>3
    <3> QED BY <3>1, <3>2
  <2>7. ASSUME NEW f \in Email PROVE RowOK(f)' /\ CodeOK(f)'
    <3>1. \A d \in Call, k \in Kind : Removes(d, f, k)' <=> Removes(d, f, k)
      BY <1>1, <2>3, <2>4 DEF Removes
    <3>2. RowOK(f) /\ CodeOK(f)
      BY DEF IInv
    <3> QED BY <1>1, <3>1, <3>2 DEF RowOK, CodeOK
  <2>8. Alone'
    <3>1. \A d \in Call, f \in Email : IsBusy(d, f)' => IsBusy(d, f)
      BY <2>3, <2>4 DEF IsBusy, Busying
    <3> QED BY <1>1, <3>1 DEF IInv, Alone
  <2> QED BY <2>5, <2>6, <2>7, <2>8 DEF IInv
<1> QED BY <1>3, <1>4

-----------------------------------------------------------------------------
(* Tokens and codes go by themselves.                                      *)

\* An expired token is removed.
LEMMA RefreshClientTokenIInv ==
    ASSUME IInv, NEW t \in token, RefreshClientToken(t) PROVE IInv'
<1>1. token' = token \ {t} /\ UNCHANGED <<user, host, code, call, vouched, apart, crossed>>
    BY DEF RefreshClientToken, accounts, history
<1>2. TypeOK'
    BY <1>1 DEF IInv, TypeOK
<1>3. ASSUME NEW c \in Call PROVE Shape(c)' /\ Fresh(c)'
  <2>1. Shape(c) /\ Fresh(c)
    BY DEF IInv
  <2> QED BY <1>1, <2>1 DEF Shape, Fresh
<1>4. ASSUME NEW e \in Email PROVE RowOK(e)' /\ CodeOK(e)'
  <2>1. RowOK(e) /\ CodeOK(e)
    BY DEF IInv
  <2> QED BY <1>1, <2>1 DEF RowOK, CodeOK, Removes
<1>5. Alone'
    BY <1>1 DEF IInv, Alone, IsBusy
<1> QED BY <1>2, <1>3, <1>4, <1>5 DEF IInv

\* A code expires.
LEMMA ForgetCodeIInv ==
    ASSUME IInv, NEW e \in Email, NEW k \in Kind, ForgetCode(e, k) PROVE IInv'
<1>1. UNCHANGED <<user, host, token, call, vouched, apart, crossed>> /\ TypeOK
    BY DEF ForgetCode, accounts, history, IInv
<1>2. /\ code' \in [Email -> [Kind -> Code]]
      /\ \A f \in Email, j \in Kind : f # e \/ j # k => code'[f][j] = code[f][j]
      /\ code'[e][k].live = FALSE /\ code'[e][k].fresh = FALSE
  <2>1. code' = [code EXCEPT ![e] = [code[e] EXCEPT ![k] = NoCode]]
    BY DEF ForgetCode
  <2>2. NoCode \in Code /\ NoCode.live = FALSE /\ NoCode.fresh = FALSE /\ code[e] \in [Kind -> Code]
    BY <1>1 DEF NoCode, Code, TypeOK
  <2> QED BY <1>1, <2>1, <2>2 DEF TypeOK
<1>3. TypeOK'
    BY <1>1, <1>2 DEF TypeOK
<1>4. ASSUME NEW c \in Call PROVE Shape(c)' /\ Fresh(c)'
  <2>1. Shape(c) /\ Fresh(c)
    BY DEF IInv
  <2> QED BY <1>1, <2>1 DEF Shape, Fresh
<1>5. ASSUME NEW f \in Email PROVE RowOK(f)'
  <2>1. RowOK(f)
    BY DEF IInv
  <2> QED BY <1>1, <1>2, <2>1 DEF RowOK
<1>6. ASSUME NEW f \in Email PROVE CodeOK(f)'
  <2>1. CodeOK(f)
    BY DEF IInv
  <2>2. \A d \in Call, j \in Kind : Removes(d, f, j)' <=> Removes(d, f, j)
    BY <1>1 DEF Removes
  <2> QED BY <1>1, <1>2, <2>1, <2>2 DEF CodeOK
<1>7. Alone'
    BY <1>1 DEF IInv, Alone, IsBusy
<1> QED BY <1>3, <1>4, <1>5, <1>6, <1>7 DEF IInv

\* The server restarts.
LEMMA RestartIInv == ASSUME IInv, Restart PROVE IInv'
<1>1. /\ UNCHANGED <<user, host, token, vouched, crossed>> /\ TypeOK
      /\ code' = [e \in Email |-> [k \in Kind |-> NoCode]] /\ call' = [c \in Call |-> Idle]
    BY DEF Restart, accounts, history, IInv
<1>2. NoCode \in Code /\ NoCode.live = FALSE /\ NoCode.fresh = FALSE
    BY DEF NoCode, Code
<1>7. apart' \in [Email -> SUBSET Shared]
  <2>1. \A e \in Email : CutOff(e) \in SUBSET Shared
    BY DEF CutOff, Shared
  <2> QED BY <1>1, <2>1 DEF Restart, TypeOK
<1>3. TypeOK'
    BY <1>1, <1>2, <1>7, IdleType DEF TypeOK
<1>4. ASSUME NEW c \in Call PROVE Shape(c)' /\ Fresh(c)'
    BY <1>1, AtRest
<1>5. ASSUME NEW e \in Email PROVE RowOK(e)' /\ CodeOK(e)'
    BY <1>1, <1>2 DEF IInv, RowOK, CodeOK, Removes, Idle
<1>6. Alone'
    BY <1>1 DEF Alone, IsBusy, Busying, Idle
<1> QED BY <1>3, <1>4, <1>5, <1>6 DEF IInv

-----------------------------------------------------------------------------
(* The invariant is inductive.                                             *)

\* It holds of an empty database.
LEMMA InitIInv == Init => IInv
<1> USE AccountsAssumption
<1> SUFFICES ASSUME Init PROVE IInv
    OBVIOUS
<1>1. NoCode \in Code /\ NoCode.live = FALSE /\ NoCode.fresh = FALSE
    BY DEF NoCode, Code
<1>2. TypeOK
    BY <1>1, IdleType DEF Init, TypeOK
<1>3. ASSUME NEW c \in Call PROVE Shape(c) /\ Fresh(c)
    BY DEF Init, Shape, Fresh, Idle, Found, Busying
<1>4. ASSUME NEW e \in Email PROVE RowOK(e) /\ CodeOK(e)
    BY <1>1 DEF Init, RowOK, CodeOK, Removes, Idle
<1>5. Alone
    BY DEF Init, Alone, IsBusy, Busying, Idle
<1> QED BY <1>2, <1>3, <1>4, <1>5 DEF IInv

\* A request that starts keeps it.
LEMMA StartsIInv == ASSUME IInv, NEW c \in Call, NEW e \in Email, Starts(c, e) PROVE IInv'
<1>1. CASE SignUpWithPassword(c, e)
  <2>1. PICK p \in Password, verified \in BOOLEAN : SignUp(c, e, NewUser(p, FALSE, verified))
    BY <1>1 DEF SignUpWithPassword
  <2>2. NewUser(p, FALSE, verified) \in User /\ ~NewUser(p, FALSE, verified).linked
    BY NewUserType DEF NewUser
  <2> QED BY <2>1, <2>2, SignUpIInv
<1>2. CASE SignUpWithGoogle(c, e)
  <2>1. PICK google \in BOOLEAN, verified \in BOOLEAN :
           SignUp(c, e, NewUser(NULL, google, verified))
    BY <1>2, GoogleAssumption DEF SignUpWithGoogle
  <2>2. NewUser(NULL, google, verified) \in User /\ ~NewUser(NULL, google, verified).linked
    BY NewUserType DEF NewUser
  <2> QED BY <2>1, <2>2, SignUpIInv
<1>3. CASE LogIn(c, e) \/ LogInWithGoogle(c, e) \/ CopyUser(c, e)
    BY <1>3, OpenSessionIInv DEF LogIn, LogInWithGoogle, CopyUser
<1>4. CASE ResendConfirmationEmail(c, e) \/ ResetPassword(c, e)
    BY <1>4, SendCodeIInv DEF ResendConfirmationEmail, ResetPassword, Kind
<1>5. CASE ValidateVerify(c, e)
    BY <1>5, ValidateVerifyIInv
<1>6. ASSUME NEW p \in Password,
             CreateHostAccount(c, e, p) \/ ValidateReset(c, e, p) \/ UpdatePassword(c, e, p)
      PROVE  IInv'
    BY <1>6, CreateHostAccountIInv, ValidateResetIInv, UpdatePasswordIInv
<1>7. ASSUME NEW asked \in Asked, UpdateGuest(c, e, asked) \/ UpdatePartner(c, e, asked)
      PROVE  IInv'
    BY <1>7, UpdateGuestIInv, UpdatePartnerIInv
<1> QED BY <1>1, <1>2, <1>3, <1>4, <1>5, <1>6, <1>7 DEF Starts

\* A request that goes on keeps it.
LEMMA ContinuesIInv == ASSUME IInv, NEW c \in Call, Continues(c) PROVE IInv'
BY FindHostIInv, FindUserIInv, InsertUserIInv, RegisterCodeIInv, InsertHostIInv, CreateTokenIInv,
   FindForVerifyIInv, SaveVerifiedIInv, FindForResetIInv, InvalidateIInv, SaveResetIInv,
   WritePasswordIInv, WriteHostPasswordIInv, SaveGuestIInv, SavePartnerIInv, ReadUserIInv,
   ReadHostIInv
   DEF Continues

\* Every step keeps it.
LEMMA NextIInv == ASSUME IInv, [Next]_vars PROVE IInv'
<1>1. CASE UNCHANGED vars
  <2>1. UNCHANGED <<user, host, code, token, call, vouched, apart, crossed>>
    BY <1>1 DEF vars, accounts, history
  <2> QED BY <2>1 DEF IInv, TypeOK, Shape, Fresh, RowOK, CodeOK, Removes, Alone, IsBusy
<1>2. ASSUME NEW c \in Call, NEW e \in Email, Starts(c, e) PROVE IInv'
    BY <1>2, StartsIInv
<1>3. ASSUME NEW c \in Call, Continues(c) PROVE IInv'
    BY <1>3, ContinuesIInv
<1>4. ASSUME NEW t \in token, RefreshClientToken(t) PROVE IInv'
    BY <1>4, RefreshClientTokenIInv
<1>5. ASSUME NEW e \in Email, NEW k \in Kind, ForgetCode(e, k) PROVE IInv'
    BY <1>5, ForgetCodeIInv
<1>6. CASE Restart
    BY <1>6, RestartIInv
<1> QED BY <1>1, <1>2, <1>3, <1>4, <1>5, <1>6 DEF Next

\* It holds in every state.
LEMMA Invariance == Spec => []IInv
BY InitIInv, NextIInv, PTL DEF Spec

-----------------------------------------------------------------------------
(* The theorems.                                                           *)

\* Rows, codes, tokens and requests have their types: an asked status that is not
\* one of the two is never stored (guest.repository.ts:66-69).
THEOREM TypeCorrect == Spec => []TypeOK
<1>1. IInv => TypeOK
    BY DEF IInv
<1> QED BY <1>1, Invariance, PTL

\* No address counts as verified unless a code was entered for it or its sign-up
\* called it verified, however many requests save the row back late.
THEOREM VerifiedAddressesWereVouched == Spec => []VerifiedByCodeOrSignUp
<1>1. IInv => VerifiedByCodeOrSignUp
    BY DEF IInv, RowOK, VerifiedByCodeOrSignUp
<1> QED BY <1>1, Invariance, PTL

\* A host is always someone's guest account, and named by it unless requests on
\* the account have overlapped.
THEOREM HostsHaveGuests == Spec => []HostHasGuest
<1>1. IInv => HostHasGuest
    BY DEF IInv, RowOK, HostHasGuest
<1> QED BY <1>1, Invariance, PTL

\* When the new password is about to be saved, no session from before the reset
\* code was entered is left.
THEOREM ResetEndsOldSessions == Spec => []OldSessionsEnd
<1>1. IInv => OldSessionsEnd
    BY DEF IInv, Shape, OldSessionsEnd
<1> QED BY <1>1, Invariance, PTL

\* A code works once, and until it is used, forgotten or lost, unless requests on
\* the account have overlapped.
THEOREM CodesWorkOnce == Spec => []CodeWorksOnce
<1>1. IInv => CodeWorksOnce
  <2> SUFFICES ASSUME IInv, NEW e \in Email, NEW k \in Kind, e \notin crossed, Busy(e) = {}
               PROVE  code[e][k].live <=> code[e][k].fresh
    BY DEF CodeWorksOnce
  <2>1. \A c \in Call : ~Removes(c, e, k)
    BY DEF Busy, Removes, Kind
  <2> QED BY <2>1 DEF IInv, CodeOK
<1> QED BY <1>1, Invariance, PTL

\* A saved row undoes another request's column only when the two overlapped.
THEOREM LostUpdatesNeedOverlap == Spec => LostUpdateNeedsOverlap
<1>1. ASSUME IInv, NEW c \in Call PROVE KeepsTheOthers(c)
  <2> USE AccountsAssumption
  <2> SUFFICES ASSUME call[c].email # NULL, call[c].email \notin crossed
               PROVE  /\ SaveReset(c) => KeepsAllBut(call[c].email, "password")
                      /\ SaveVerified(c) => KeepsAllBut(call[c].email, "verified")
                      /\ SaveGuest(c) => KeepsAllBut(call[c].email, "active")
                      /\ SavePartner(c) => KeepsAllBut(call[c].email, "")
    BY DEF KeepsTheOthers
  <2>1. IInv /\ TypeOK /\ Shape(c) /\ Fresh(c)
    BY <1>1 DEF IInv
  <2>2. PICK e \in Email : e = call[c].email
    BY <2>1 DEF Shape
  <2>3. ASSUME SaveReset(c) \/ SaveVerified(c) \/ SaveGuest(c)
        PROVE  user'[e] = call[c].user
    BY <2>1, <2>2, <2>3 DEF SaveReset, SaveVerified, SaveGuest, SaveUser, TypeOK
  <2>4. ASSUME SaveReset(c) PROVE KeepsAllBut(e, "password")
    BY <2>1, <2>2, <2>3, <2>4 DEF SaveReset, Fresh, KeepsAllBut
  <2>5. ASSUME SaveVerified(c) PROVE KeepsAllBut(e, "verified")
    BY <2>1, <2>2, <2>3, <2>5 DEF SaveVerified, Fresh, KeepsAllBut
  <2>6. ASSUME SaveGuest(c) PROVE KeepsAllBut(e, "active")
    BY <2>1, <2>2, <2>3, <2>6 DEF SaveGuest, Fresh, KeepsAllBut
  <2>7. ASSUME SavePartner(c) PROVE KeepsAllBut(e, "")
    <3>1. call[c].stage = "saveHost" /\ user[e] # NULL
      BY <2>1, <2>2, <2>7 DEF SavePartner, Shape, Found, Busying, Stage
    <3>2. user[e] \in User /\ call[c].linked = user[e].linked
      BY <2>1, <2>2, <3>1, RowType DEF Fresh
    <3>3. user'[e] = [user[e] EXCEPT !.linked = call[c].linked]
      BY <2>1, <2>2, <2>7, SavePartnerEffect
    <3> QED BY <3>2, <3>3 DEF KeepsAllBut, User
  <2> QED BY <2>2, <2>4, <2>5, <2>6, <2>7
<1>2. IInv /\ [Next]_vars => [\A c \in Call : KeepsTheOthers(c)]_vars
    BY <1>1
<1> QED BY <1>2, Invariance, PTL DEF Spec, LostUpdateNeedsOverlap

-----------------------------------------------------------------------------
(* Guest and host.  Between the two writes of a change they may differ, so *)
(* what is inductive also names the request that is half way; with IInv it *)
(* is kept by every step.                                                  *)

\* What guest and host have alike.
AgreeOK(e) ==
    /\ e \in crossed => apart[e] = Shared
    /\ host[e] # NULL /\ "password" \notin apart[e] /\ (\A c \in Call : ~HalfPassword(c, e))
         => host[e].password = user[e].password
    /\ host[e] # NULL /\ "active" \notin apart[e] /\ (\A c \in Call : ~HalfActive(c, e))
         => host[e].active = user[e].active

Agree == \A e \in Email : AgreeOK(e)

\* The rows of the account stay, and no request that is half way ends.
Undisturbed(e) ==
    /\ user'[e] = user[e] /\ host'[e] = host[e]
    /\ apart[e] \subseteq apart'[e] /\ apart'[e] \subseteq Shared
    /\ e \in crossed' => e \in crossed \/ apart'[e] = Shared
    /\ \A c \in Call : /\ HalfPassword(c, e) => HalfPassword(c, e)'
                       /\ HalfActive(c, e) => HalfActive(c, e)'

\* Then what they have alike they keep.
LEMMA UndisturbedAgree ==
    ASSUME NEW e \in Email, AgreeOK(e), Undisturbed(e) PROVE AgreeOK(e)'
<1>1. e \in crossed' => apart'[e] = Shared
    BY DEF AgreeOK, Undisturbed
<1>2. ASSUME \A c \in Call : ~HalfPassword(c, e)'
      PROVE  \A c \in Call : ~HalfPassword(c, e)
    BY <1>2 DEF Undisturbed, HalfPassword
<1>3. ASSUME \A c \in Call : ~HalfActive(c, e)'
      PROVE  \A c \in Call : ~HalfActive(c, e)
    BY <1>3 DEF Undisturbed, HalfActive
<1> QED BY <1>1, <1>2, <1>3 DEF AgreeOK, Undisturbed

\* A step of one request on one address leaves the other addresses undisturbed.
LEMMA OthersUndisturbed ==
    ASSUME TypeOK, NEW c \in Call, NEW e \in Email, NEW f \in Email, f # e,
           call[c].email \in {e, NULL}, \A d \in Call : d # c => call'[d] = call[d],
           user'[f] = user[f], host'[f] = host[f], apart'[f] = apart[f],
           f \in crossed' => f \in crossed
    PROVE  Undisturbed(f)
<1> USE AccountsAssumption
<1>1. ASSUME NEW d \in Call
      PROVE  /\ HalfPassword(d, f) => HalfPassword(d, f)'
             /\ HalfActive(d, f) => HalfActive(d, f)'
    BY DEF HalfPassword, HalfActive
<1>2. apart'[f] \subseteq Shared
    BY DEF TypeOK
<1> QED BY <1>1, <1>2 DEF Undisturbed

\* Nor does a request that changes nothing but itself disturb its own, unless it
\* is half way.
LEMMA QuietUndisturbed ==
    ASSUME TypeOK, UNCHANGED <<user, host, apart, crossed>>, NEW c \in Call, NEW e \in Email,
           \A d \in Call : d # c => call'[d] = call[d],
           HalfPassword(c, e) => HalfPassword(c, e)', HalfActive(c, e) => HalfActive(c, e)'
    PROVE  Undisturbed(e)
<1>1. ASSUME NEW d \in Call
      PROVE  /\ HalfPassword(d, e) => HalfPassword(d, e)'
             /\ HalfActive(d, e) => HalfActive(d, e)'
    BY DEF HalfPassword, HalfActive
<1>2. apart[e] \subseteq Shared
    BY DEF TypeOK
<1> QED BY <1>1, <1>2 DEF Undisturbed

\* A request begins.
LEMMA BeginUndisturbed ==
    ASSUME TypeOK, NEW c \in Call, NEW e \in Email, NEW r, Begin(c, e, r),
           UNCHANGED <<user, host>>, NEW f \in Email
    PROVE  Undisturbed(f)
<1>1. /\ call[c].stage = "idle"
      /\ \A d \in Call : d # c => call'[d] = call[d]
    BY DEF Begin, TypeOK
<1>2. ASSUME NEW d \in Call
      PROVE  /\ HalfPassword(d, f) => HalfPassword(d, f)'
             /\ HalfActive(d, f) => HalfActive(d, f)'
    BY <1>1 DEF HalfPassword, HalfActive
<1>3. /\ apart[f] \subseteq apart'[f] /\ apart'[f] \subseteq Shared
      /\ f \in crossed' => f \in crossed \/ apart'[f] = Shared
    BY DEF Begin, TypeOK
<1> QED BY <1>2, <1>3 DEF Undisturbed

\* Starting requests disturb no account.
LEMMA StartsUndisturbed ==
    ASSUME TypeOK, NEW c \in Call, NEW e \in Email, Starts(c, e), NEW f \in Email
    PROVE  Undisturbed(f)
<1>1. ASSUME NEW u, SignUp(c, e, u) PROVE Undisturbed(f)
    BY <1>1, BeginUndisturbed DEF SignUp, accounts
<1>2. ASSUME OpenSession(c, e) PROVE Undisturbed(f)
  <2>1. /\ call[c].stage = "idle" /\ UNCHANGED <<user, host, apart, crossed>>
        /\ \A d \in Call : d # c => call'[d] = call[d]
    BY <1>2 DEF OpenSession, TypeOK, accounts, history
  <2> QED BY <2>1, QuietUndisturbed DEF HalfPassword, HalfActive
<1>3. ASSUME NEW k, SendCode(c, e, k) PROVE Undisturbed(f)
    BY <1>3, BeginUndisturbed DEF SendCode, accounts
<1>4. ASSUME ValidateVerify(c, e) PROVE Undisturbed(f)
    BY <1>4, BeginUndisturbed DEF ValidateVerify, accounts
<1>5. ASSUME NEW p \in Password, CreateHostAccount(c, e, p) PROVE Undisturbed(f)
    BY <1>5, BeginUndisturbed DEF CreateHostAccount, accounts
<1>6. ASSUME NEW p \in Password, ValidateReset(c, e, p) PROVE Undisturbed(f)
    BY <1>6, BeginUndisturbed DEF ValidateReset, accounts
<1>7. ASSUME NEW p \in Password, UpdatePassword(c, e, p) PROVE Undisturbed(f)
    BY <1>7, BeginUndisturbed DEF UpdatePassword, accounts
<1>8. ASSUME NEW asked \in Asked, UpdateGuest(c, e, asked) PROVE Undisturbed(f)
    BY <1>8, BeginUndisturbed DEF UpdateGuest, accounts
<1>9. ASSUME NEW asked \in Asked, UpdatePartner(c, e, asked) PROVE Undisturbed(f)
    BY <1>9, BeginUndisturbed DEF UpdatePartner, accounts
<1>10. CASE SignUpWithPassword(c, e) \/ SignUpWithGoogle(c, e)
    BY <1>1, <1>10 DEF SignUpWithPassword, SignUpWithGoogle
<1>11. CASE LogIn(c, e) \/ LogInWithGoogle(c, e) \/ CopyUser(c, e)
    BY <1>2, <1>11 DEF LogIn, LogInWithGoogle, CopyUser
<1>12. CASE ResendConfirmationEmail(c, e) \/ ResetPassword(c, e)
    BY <1>3, <1>12 DEF ResendConfirmationEmail, ResetPassword
<1> QED BY <1>4, <1>5, <1>6, <1>7, <1>8, <1>9, <1>10, <1>11, <1>12 DEF Starts

\* What is left to be shown of a write: the request's own account, if no other
\* request has crossed it.
LEMMA WriteAgree ==
    ASSUME IInv, Agree, NEW c \in Call, NEW e \in Email, e = call[c].email,
           \A d \in Call : d # c => call'[d] = call[d],
           \A f \in Email : f # e => user'[f] = user[f] /\ host'[f] = host[f],
           NEW columns, Differ(e, columns) \/ UNCHANGED apart, UNCHANGED crossed,
           e \notin crossed => AgreeOK(e)'
    PROVE  Agree'
<1>1. TypeOK /\ AgreeOK(e)
    BY DEF IInv, Agree
<1>2. \A f \in Email : f # e => apart'[f] = apart[f]
    BY <1>1 DEF Differ, TypeOK
<1>3. ASSUME NEW f \in Email, f # e PROVE AgreeOK(f)'
    BY <1>1, <1>2, <1>3, OthersUndisturbed, UndisturbedAgree DEF Agree
<1>4. ASSUME e \in crossed PROVE AgreeOK(e)'
  <2>1. apart'[e] = Shared
    BY <1>1, <1>4 DEF AgreeOK, Differ, TypeOK
  <2> QED BY <2>1 DEF AgreeOK, Shared
<1>5. AgreeOK(e)'
    BY <1>4
<1> QED BY <1>3, <1>5 DEF Agree

\* Where no other request has crossed, none but this one is half way.
LEMMA OthersNotHalf ==
    ASSUME IInv, NEW c \in Call, NEW e \in Email, IsBusy(c, e), e \notin crossed,
           \A d \in Call : d # c => call'[d] = call[d]
    PROVE  \A d \in Call : d # c => /\ ~HalfPassword(d, e) /\ ~HalfPassword(d, e)'
                                    /\ ~HalfActive(d, e) /\ ~HalfActive(d, e)'
<1> SUFFICES ASSUME NEW d \in Call, d # c
             PROVE  ~HalfPassword(d, e) /\ ~HalfActive(d, e)
    BY DEF HalfPassword, HalfActive
<1>1. ~IsBusy(d, e)
    BY DEF IInv, Alone
<1> QED BY <1>1 DEF HalfPassword, HalfActive, IsBusy, Busying, Stage

\* Steps that write neither account.
LEMMA QuietAgree ==
    ASSUME IInv, Agree, NEW c \in Call,
           \/ FindHost(c) \/ FindUser(c) \/ RegisterCode(c) \/ FindForVerify(c) \/ FindForReset(c)
           \/ InvalidateAllTokens(c) \/ ReadUser(c) \/ ReadHost(c)
    PROVE  Agree'
<1>1. TypeOK /\ Shape(c)
    BY DEF IInv
<1>2. UNCHANGED <<user, host, apart, crossed>>
    BY DEF FindHost, FindUser, RegisterCode, FindForVerify, FindForReset, InvalidateAllTokens,
           ReadUser, ReadHost, accounts, history
<1>3. \A d \in Call : d # c => call'[d] = call[d]
    BY <1>1 DEF FindHost, FindUser, RegisterCode, FindForVerify, FindForReset, InvalidateAllTokens,
                ReadUser, ReadHost, GoOn, Finish, TypeOK
<1>4. CASE call[c].stage \notin {"readUser", "readHost"}
  <2>1. call[c].stage \notin {"writeHostPassword", "readUser", "readHost", "saveUser", "saveHost"}
    BY <1>4 DEF FindHost, FindUser, RegisterCode, FindForVerify, FindForReset,
                InvalidateAllTokens, ReadUser, ReadHost
  <2>2. ASSUME NEW e \in Email PROVE Undisturbed(e)
    BY <1>1, <1>2, <1>3, <2>1, QuietUndisturbed DEF HalfPassword, HalfActive
  <2> QED BY <2>2, UndisturbedAgree DEF Agree
<1>5. CASE call[c].stage \in {"readUser", "readHost"}
  <2>1. /\ call'[c].stage \in {"saveUser", "saveHost"} /\ call'[c].email = call[c].email
        /\ call'[c].more = call[c].more /\ ~call[c].more
    <3>1. ReadUser(c) \/ ReadHost(c)
      BY <1>5 DEF FindHost, FindUser, RegisterCode, FindForVerify, FindForReset,
                  InvalidateAllTokens
    <3>2. ~call[c].more /\ call[c] \in Request
      BY <1>1, <1>5 DEF Shape, TypeOK
    <3>3. CASE ReadUser(c)
      BY <1>1, <3>2, <3>3 DEF ReadUser, TypeOK, Request
    <3>4. CASE ReadHost(c)
      BY <1>1, <3>2, <3>4 DEF ReadHost, TypeOK, Request
    <3> QED BY <3>1, <3>2, <3>3, <3>4
  <2>2. ASSUME NEW e \in Email PROVE Undisturbed(e)
    BY <1>1, <1>2, <1>3, <1>5, <2>1, QuietUndisturbed DEF HalfPassword, HalfActive
  <2> QED BY <2>2, UndisturbedAgree DEF Agree
<1> QED BY <1>4, <1>5

\* A token is stored: other requests change no more than what they have to end.
LEMMA CreateTokenAgree ==
    ASSUME IInv, Agree, NEW c \in Call, NEW s \in Second, CreateToken(c, s) PROVE Agree'
<1>1. /\ TypeOK /\ call[c].stage = "createToken" /\ UNCHANGED <<user, host, apart, crossed>>
    BY DEF IInv, CreateToken, accounts, history
<1>2. ASSUME NEW d \in Call, d # c
      PROVE  /\ call'[d].stage = call[d].stage /\ call'[d].email = call[d].email
             /\ call'[d].more = call[d].more
    BY <1>1, <1>2 DEF CreateToken, Finish, TypeOK, Request
<1>3. ASSUME NEW e \in Email PROVE Undisturbed(e)
  <2>1. ASSUME NEW d \in Call
        PROVE  /\ HalfPassword(d, e) => HalfPassword(d, e)'
               /\ HalfActive(d, e) => HalfActive(d, e)'
    BY <1>1, <1>2 DEF HalfPassword, HalfActive
  <2> QED BY <1>1, <2>1 DEF Undisturbed, TypeOK
<1> QED BY <1>3, UndisturbedAgree DEF Agree

\* A guest that is inserted has no host yet.
LEMMA InsertUserAgree == ASSUME IInv, Agree, NEW c \in Call, InsertUser(c) PROVE Agree'
<1> USE AccountsAssumption
<1>1. call[c].stage = "insertUser" /\ UNCHANGED <<host, apart, crossed>>
    BY DEF InsertUser
<1>2. call[c].stage \in Busying
    BY <1>1 DEF Busying, Stage
<1>3. PICK e \in Email : /\ e = call[c].email /\ IsBusy(c, e) /\ TypeOK /\ RowOK(e)
    BY <1>2, Working
<1>4. /\ \A d \in Call : d # c => call'[d] = call[d]
      /\ \A f \in Email : f # e => user'[f] = user[f] /\ host'[f] = host[f]
    BY <1>1, <1>3 DEF InsertUser, SaveUser, Finish, TypeOK
<1>5. ASSUME e \notin crossed PROVE AgreeOK(e)'
  <2>1. CASE user[e] = NULL
    BY <1>1, <1>3, <1>5, <2>1 DEF AgreeOK, RowOK
  <2>2. CASE user[e] # NULL
    <3>1. user' = user /\ AgreeOK(e)
      BY <1>3, <2>2 DEF InsertUser, Agree
    <3>2. Undisturbed(e)
      BY <1>1, <1>3, <1>4, <3>1, QuietUndisturbed DEF HalfPassword, HalfActive
    <3> QED BY <3>1, <3>2, UndisturbedAgree
  <2> QED BY <2>1, <2>2
<1> QED BY <1>1, <1>3, <1>4, <1>5, WriteAgree

\* A new host has its guest's password, and is active.
LEMMA InsertHostAgree == ASSUME IInv, Agree, NEW c \in Call, InsertHost(c) PROVE Agree'
<1> USE AccountsAssumption
<1>1. call[c].stage = "insertHost" /\ UNCHANGED crossed
    BY DEF InsertHost
<1>2. call[c].stage \in Busying
    BY <1>1 DEF Busying, Stage
<1>3. PICK e \in Email : /\ e = call[c].email /\ IsBusy(c, e) /\ TypeOK /\ Fresh(c) /\ AgreeOK(e)
                         /\ user[e] # NULL
    BY <1>1, <1>2, Working DEF Agree, Shape, Found, Busying, Stage
<1>4. /\ \A d \in Call : d # c => call'[d] = call[d]
      /\ \A f \in Email : f # e => user'[f] = user[f] /\ host'[f] = host[f]
    BY <1>3 DEF InsertHost, SaveHost, accounts, Finish, TypeOK
<1>5. CASE host[e] # NULL
  <2>1. UNCHANGED <<user, host, apart>>
    BY <1>3, <1>5 DEF InsertHost, accounts
  <2>2. Undisturbed(e)
    BY <1>1, <1>3, <1>4, <2>1, QuietUndisturbed DEF HalfPassword, HalfActive
  <2> QED BY <1>1, <1>3, <1>4, <2>1, <2>2, UndisturbedAgree, WriteAgree
<1>6. CASE host[e] = NULL
  <2> DEFINE columns == IF user[e].active = "active" THEN {} ELSE {"active"}
  <2>1. Differ(e, columns)
    BY <1>3, <1>6 DEF InsertHost
  <2>2. ASSUME e \notin crossed PROVE AgreeOK(e)'
    <3>1. /\ host'[e] = [password |-> call[c].password, active |-> "active"]
          /\ user'[e] = [user[e] EXCEPT !.linked = TRUE] /\ user[e] \in User
      BY <1>3, <1>6 DEF InsertHost, SaveHost, TypeOK
    <3>2. /\ host'[e].password = call[c].password /\ host'[e].active = "active"
          /\ user'[e].password = user[e].password /\ user'[e].active = user[e].active
      BY <3>1 DEF User
    <3>3. call[c].password = user[e].password
      BY <1>1, <1>3, <2>2 DEF Fresh
    <3>4. "active" \notin apart'[e] => user[e].active = "active"
      BY <1>3, <2>1, <2>2 DEF Differ, TypeOK
    <3> QED BY <1>1, <2>2, <3>2, <3>3, <3>4 DEF AgreeOK
  <2> QED BY <1>1, <1>3, <1>4, <2>1, <2>2, WriteAgree
<1> QED BY <1>5, <1>6

\* A confirmed address touches neither column.
LEMMA SaveVerifiedAgree == ASSUME IInv, Agree, NEW c \in Call, SaveVerified(c) PROVE Agree'
<1>1. call[c].stage = "saveVerified" /\ UNCHANGED <<host, apart, crossed>>
    BY DEF SaveVerified
<1>2. call[c].stage \in Busying
    BY <1>1 DEF Busying, Stage
<1>3. PICK e \in Email : /\ e = call[c].email /\ IsBusy(c, e) /\ TypeOK /\ Fresh(c) /\ AgreeOK(e)
    BY <1>2, Working DEF Agree
<1>4. /\ \A d \in Call : d # c => call'[d] = call[d]
      /\ \A f \in Email : f # e => user'[f] = user[f] /\ host'[f] = host[f]
      /\ user'[e] = call[c].user
    BY <1>1, <1>3 DEF SaveVerified, SaveUser, Finish, TypeOK
<1>5. ASSUME e \notin crossed PROVE AgreeOK(e)'
  <2>1. user'[e].password = user[e].password /\ user'[e].active = user[e].active
    BY <1>1, <1>3, <1>4, <1>5 DEF Fresh
  <2>2. \A d \in Call : ~HalfPassword(d, e) /\ ~HalfActive(d, e)
    BY <1>1, <1>3, <1>4, <1>5, OthersNotHalf DEF HalfPassword, HalfActive
  <2> QED BY <1>1, <1>3, <1>5, <2>1, <2>2 DEF AgreeOK
<1> QED BY <1>1, <1>3, <1>4, <1>5, WriteAgree

\* A reset leaves the host's password; the status stays.
LEMMA SaveResetAgree == ASSUME IInv, Agree, NEW c \in Call, SaveReset(c) PROVE Agree'
<1>1. call[c].stage = "saveReset" /\ UNCHANGED <<host, crossed>>
    BY DEF SaveReset
<1>2. call[c].stage \in Busying
    BY <1>1 DEF Busying, Stage
<1>3. PICK e \in Email : /\ e = call[c].email /\ IsBusy(c, e) /\ TypeOK /\ Fresh(c) /\ AgreeOK(e)
    BY <1>2, Working DEF Agree
<1>4. /\ \A d \in Call : d # c => call'[d] = call[d]
      /\ \A f \in Email : f # e => user'[f] = user[f] /\ host'[f] = host[f]
      /\ user'[e] = call[c].user
    BY <1>1, <1>3 DEF SaveReset, SaveUser, Finish, TypeOK
<1> DEFINE columns == IF host[e] = NULL THEN {} ELSE apart[e] \cup {"password"}
<1>5. Differ(e, columns)
    BY <1>3 DEF SaveReset
<1>6. ASSUME e \notin crossed PROVE AgreeOK(e)'
  <2>1. user'[e].active = user[e].active
    BY <1>1, <1>3, <1>4, <1>6 DEF Fresh
  <2>2. \A d \in Call : ~HalfActive(d, e)
    BY <1>1, <1>3, <1>4, <1>6, OthersNotHalf DEF HalfActive
  <2>3. host[e] # NULL => "password" \in apart'[e] /\ apart[e] \subseteq apart'[e]
    BY <1>3, <1>5, <1>6 DEF Differ, TypeOK
  <2> QED BY <1>1, <1>3, <1>6, <2>1, <2>2, <2>3 DEF AgreeOK
<1> QED BY <1>1, <1>3, <1>4, <1>5, <1>6, WriteAgree

\* The guest's password is written first, and the request is half way.
LEMMA WritePasswordAgree == ASSUME IInv, Agree, NEW c \in Call, WritePassword(c) PROVE Agree'
<1>1. call[c].stage = "writePassword" /\ UNCHANGED <<host, apart, crossed>>
    BY DEF WritePassword
<1>2. call[c].stage \in Busying
    BY <1>1 DEF Busying, Stage
<1>3. PICK e \in Email : /\ e = call[c].email /\ IsBusy(c, e) /\ TypeOK /\ AgreeOK(e) /\ user[e] \in User
    BY <1>1, <1>2, Working, RowType DEF Agree, Shape, Found, Busying, Stage
<1>4. /\ \A d \in Call : d # c => call'[d] = call[d]
      /\ \A f \in Email : f # e => user'[f] = user[f] /\ host'[f] = host[f]
      /\ user'[e] = [user[e] EXCEPT !.password = call[c].password]
      /\ call'[c].stage = "writeHostPassword" /\ call'[c].email = e
    BY <1>1, <1>3 DEF WritePassword, GoOn, TypeOK, Request
<1>5. ASSUME e \notin crossed PROVE AgreeOK(e)'
  <2>1. user'[e].active = user[e].active
    BY <1>3, <1>4 DEF User
  <2>2. HalfPassword(c, e)'
    BY <1>4 DEF HalfPassword
  <2>3. \A d \in Call : ~HalfActive(d, e)
    BY <1>1, <1>3, <1>4, <1>5, OthersNotHalf DEF HalfActive
  <2> QED BY <1>1, <1>3, <1>5, <2>1, <2>2, <2>3 DEF AgreeOK
<1> QED BY <1>1, <1>3, <1>4, <1>5, WriteAgree

\* Then the host's.
LEMMA WriteHostPasswordAgree ==
    ASSUME IInv, Agree, NEW c \in Call, WriteHostPassword(c) PROVE Agree'
<1> USE AccountsAssumption
<1>1. call[c].stage = "writeHostPassword" /\ UNCHANGED <<user, crossed>>
    BY DEF WriteHostPassword
<1>2. call[c].stage \in Busying
    BY <1>1 DEF Busying, Stage
<1>3. PICK e \in Email : /\ e = call[c].email /\ IsBusy(c, e) /\ TypeOK /\ Fresh(c) /\ AgreeOK(e)
    BY <1>2, Working DEF Agree
<1>4. /\ \A d \in Call : d # c => call'[d] = call[d]
      /\ \A f \in Email : f # e => user'[f] = user[f] /\ host'[f] = host[f]
      /\ host[e] = NULL => host'[e] = NULL
      /\ host[e] # NULL => host'[e] = [host[e] EXCEPT !.password = call[c].password]
    BY <1>1, <1>3 DEF WriteHostPassword, Finish, TypeOK
<1>5. Differ(e, apart[e] \ {"password"})
    BY <1>3 DEF WriteHostPassword
<1>6. ASSUME e \notin crossed PROVE AgreeOK(e)'
  <2>1. user[e].password = call[c].password
    BY <1>1, <1>3, <1>6 DEF Fresh
  <2>2. host[e] # NULL => host'[e].password = call[c].password /\ host'[e].active = host[e].active
    BY <1>3, <1>4, RowType DEF Host
  <2>3. \A d \in Call : ~HalfActive(d, e)
    BY <1>1, <1>3, <1>4, <1>6, OthersNotHalf DEF HalfActive
  <2>4. "active" \in apart[e] => "active" \in apart'[e]
    BY <1>3, <1>5, <1>6 DEF Differ, TypeOK
  <2> QED BY <1>1, <1>3, <1>4, <1>6, <2>1, <2>2, <2>3, <2>4 DEF AgreeOK
<1> QED BY <1>1, <1>3, <1>4, <1>5, <1>6, WriteAgree

\* The status of the guest is saved: first, and the host's is to follow if there is
\* one, or last, and the host has it already.
LEMMA SaveGuestAgree == ASSUME IInv, Agree, NEW c \in Call, SaveGuest(c) PROVE Agree'
<1> USE AccountsAssumption
<1>1. call[c].stage = "saveUser" /\ UNCHANGED <<host, crossed>>
    BY DEF SaveGuest
<1>2. call[c].stage \in Busying
    BY <1>1 DEF Busying, Stage
<1>3. PICK e \in Email : /\ e = call[c].email /\ IsBusy(c, e) /\ TypeOK /\ Fresh(c) /\ AgreeOK(e)
                         /\ RowOK(e)
    BY <1>2, Working DEF Agree
<1>4. /\ \A d \in Call : d # c => call'[d] = call[d]
      /\ \A f \in Email : f # e => user'[f] = user[f] /\ host'[f] = host[f]
      /\ user'[e] = call[c].user
    BY <1>1, <1>3 DEF SaveGuest, SaveUser, Finish, TypeOK
<1> DEFINE columns == IF call[c].more THEN apart[e] ELSE apart[e] \ {"active"}
<1>5. Differ(e, columns)
    BY <1>3 DEF SaveGuest
<1>6. ASSUME e \notin crossed PROVE AgreeOK(e)'
  <2>1. /\ user'[e].password = user[e].password /\ user'[e].active = call[c].active
        /\ call[c].user.linked = user[e].linked
        /\ ~call[c].more => (host[e] # NULL => host[e].active = call[c].active)
    BY <1>1, <1>3, <1>4, <1>6 DEF Fresh
  <2>2. \A d \in Call : ~HalfPassword(d, e)
    BY <1>1, <1>3, <1>4, <1>6, OthersNotHalf DEF HalfPassword
  <2>3. "password" \in apart[e] => "password" \in apart'[e]
    BY <1>3, <1>5, <1>6 DEF Differ, TypeOK
  <2>4. host[e] # NULL /\ call[c].more => HalfActive(c, e)'
    <3> SUFFICES ASSUME host[e] # NULL, call[c].more PROVE HalfActive(c, e)'
      OBVIOUS
    <3>1. call[c].user.linked
      BY <1>3, <1>6, <2>1 DEF RowOK
    <3>2. call' = [call EXCEPT ![c] = OtherAccount("readHost", e, call[c].active)]
      BY <1>3, <3>1 DEF SaveGuest, OtherAccount
    <3>3. /\ OtherAccount("readHost", e, call[c].active).stage = "readHost"
          /\ OtherAccount("readHost", e, call[c].active).email = e
      BY DEF OtherAccount, Idle
    <3> QED BY <1>3, <3>2, <3>3 DEF HalfActive, TypeOK
  <2> QED BY <1>1, <1>3, <1>6, <2>1, <2>2, <2>3, <2>4 DEF AgreeOK
<1> QED BY <1>1, <1>3, <1>4, <1>5, <1>6, WriteAgree

\* The status of the host, likewise.
LEMMA SavePartnerAgree == ASSUME IInv, Agree, NEW c \in Call, SavePartner(c) PROVE Agree'
<1> USE AccountsAssumption
<1>1. call[c].stage = "saveHost" /\ UNCHANGED crossed
    BY DEF SavePartner
<1>2. call[c].stage \in Busying
    BY <1>1 DEF Busying, Stage
<1>3. PICK e \in Email : /\ e = call[c].email /\ IsBusy(c, e) /\ TypeOK /\ Fresh(c) /\ AgreeOK(e)
                         /\ RowOK(e) /\ Shape(c)
    BY <1>2, Working DEF Agree
<1>4. /\ user'[e] = [user[e] EXCEPT !.linked = call[c].linked] /\ host'[e] = call[c].host
      /\ \A f \in Email : f # e => user'[f] = user[f] /\ host'[f] = host[f]
    BY <1>3, SavePartnerEffect
<1>5. \A d \in Call : d # c => call'[d] = call[d]
    BY <1>3 DEF SavePartner, Finish, TypeOK
<1> DEFINE columns == IF call[c].more THEN apart[e] ELSE apart[e] \ {"active"}
<1>6. Differ(e, columns)
    BY <1>3 DEF SavePartner
<1>7. ASSUME e \notin crossed PROVE AgreeOK(e)'
  <2>1. user[e] \in User /\ host[e] # NULL /\ user[e].linked
    BY <1>1, <1>3, <1>7, RowType DEF Shape, RowOK
  <2>2. user'[e].password = user[e].password /\ user'[e].active = user[e].active
    BY <1>4, <2>1 DEF User
  <2>3. /\ call[c].host.active = call[c].active /\ call[c].linked
        /\ call[c].host.password = host[e].password
        /\ ~call[c].more => user[e].active = call[c].active
    BY <1>1, <1>3, <1>7, <2>1 DEF Fresh
  <2>4. \A d \in Call : ~HalfPassword(d, e)
    BY <1>1, <1>3, <1>5, <1>7, OthersNotHalf DEF HalfPassword
  <2>5. "password" \in apart[e] => "password" \in apart'[e]
    BY <1>3, <1>6, <1>7 DEF Differ, TypeOK
  <2>6. call[c].more => HalfActive(c, e)'
    <3> SUFFICES ASSUME call[c].more PROVE HalfActive(c, e)'
      OBVIOUS
    <3>1. call' = [call EXCEPT ![c] = OtherAccount("readUser", e, call[c].active)]
      BY <1>3, <2>3 DEF SavePartner, OtherAccount
    <3>2. /\ OtherAccount("readUser", e, call[c].active).stage = "readUser"
          /\ OtherAccount("readUser", e, call[c].active).email = e
      BY DEF OtherAccount, Idle
    <3> QED BY <1>3, <3>1, <3>2 DEF HalfActive, TypeOK
  <2> QED BY <1>1, <1>3, <1>4, <1>7, <2>1, <2>2, <2>3, <2>4, <2>5, <2>6 DEF AgreeOK
<1> QED BY <1>1, <1>3, <1>4, <1>5, <1>6, <1>7, WriteAgree

\* A restart ends what is half way, and says so.
LEMMA RestartAgree == ASSUME IInv, Agree, Restart PROVE Agree'
<1>1. /\ TypeOK /\ UNCHANGED <<user, host, crossed>>
      /\ apart' = [e \in Email |-> apart[e] \cup (IF host[e] = NULL THEN {} ELSE CutOff(e))]
    BY DEF IInv, Restart, accounts
<1>2. ASSUME NEW e \in Email PROVE AgreeOK(e)'
  <2>1. AgreeOK(e) /\ apart[e] \subseteq apart'[e] /\ apart'[e] \subseteq Shared
    BY <1>1 DEF Agree, CutOff, TypeOK, Shared
  <2>2. host[e] # NULL =>
          /\ "password" \notin apart'[e] => \A c \in Call : ~HalfPassword(c, e)
          /\ "active" \notin apart'[e] => \A c \in Call : ~HalfActive(c, e)
    BY <1>1 DEF CutOff
  <2> QED BY <1>1, <2>1, <2>2 DEF AgreeOK
<1> QED BY <1>2 DEF Agree

\* Every step keeps it.
LEMMA NextAgree == ASSUME IInv, Agree, [Next]_vars PROVE Agree'
<1>1. TypeOK
    BY DEF IInv
<1>2. CASE UNCHANGED vars
  <2>1. UNCHANGED <<user, host, call, apart, crossed>>
    BY <1>2 DEF vars, accounts, history
  <2> QED BY <2>1 DEF Agree, AgreeOK, HalfPassword, HalfActive
<1>3. ASSUME NEW c \in Call, NEW e \in Email, Starts(c, e) PROVE Agree'
    BY <1>1, <1>3, StartsUndisturbed, UndisturbedAgree DEF Agree
<1>4. ASSUME NEW c \in Call, Continues(c) PROVE Agree'
    BY <1>4, QuietAgree, CreateTokenAgree, InsertUserAgree, InsertHostAgree, SaveVerifiedAgree,
       SaveResetAgree, WritePasswordAgree, WriteHostPasswordAgree, SaveGuestAgree, SavePartnerAgree
       DEF Continues
<1>5. CASE \/ \E t \in token : RefreshClientToken(t)
           \/ \E e \in Email, k \in Kind : ForgetCode(e, k)
  <2>1. UNCHANGED <<user, host, call, apart, crossed>>
    BY <1>5 DEF RefreshClientToken, ForgetCode, accounts, history
  <2> QED BY <2>1 DEF Agree, AgreeOK, HalfPassword, HalfActive
<1>6. CASE Restart
    BY <1>6, RestartAgree
<1> QED BY <1>2, <1>3, <1>4, <1>5, <1>6 DEF Next

\* It holds in every state.
LEMMA AgreeInvariance == Spec => []Agree
<1>1. Init => Agree
    BY DEF Init, Agree, AgreeOK
<1> QED BY <1>1, NextAgree, Invariance, PTL DEF Spec

\* Guest and host have the same password and status when no request is at work on
\* the account, but for the named exceptions.
THEOREM GuestsAndHostsAgree == Spec => []GuestAndHostAgree
<1>1. Agree => GuestAndHostAgree
  <2> SUFFICES ASSUME Agree, NEW e \in Email, host[e] # NULL, Busy(e) = {},
                      NEW column \in Shared \ apart[e]
               PROVE  host[e][column] = user[e][column]
    BY DEF GuestAndHostAgree
  <2>1. \A c \in Call : ~HalfPassword(c, e) /\ ~HalfActive(c, e)
    BY DEF Busy, HalfPassword, HalfActive
  <2> QED BY <2>1 DEF Agree, AgreeOK, Shared
<1> QED BY <1>1, AgreeInvariance, PTL

=============================================================================
