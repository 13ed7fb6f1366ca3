----------------------------- MODULE Credentials -----------------------------
(***************************************************************************)
(* AuthService: sign-up and login, one-time codes and reset links.         *)
(***************************************************************************)
EXTENDS AccountRows

Kinds == {"otp", "reset"}

-----------------------------------------------------------------------------
(* Sign-up and login.                                                      *)

\* register: nobody has the address yet.
RegisterRead(r, u, asked) ==
    /\ role[u] = "NONE"
    /\ Begin(r, [Idle EXCEPT !.op = "register", !.pc = "create", !.user = u, !.seen = asked])

\* validateUser, or googleLogin for an address that has an account.
LoginRead(r, u) ==
    /\ Live(u)
    /\ Begin(r, [Idle EXCEPT !.op = "login", !.pc = "login", !.user = u, !.seen = role[u]])

\* googleLogin for an address that has none.
GoogleRead(r, u) ==
    /\ role[u] = "NONE"
    /\ Begin(r, [Idle EXCEPT !.op = "google", !.pc = "create", !.user = u, !.seen = "USER"])

\* UsersService.create: the account and its wallet, in one transaction.
CreateUser(r) ==
    LET u == req[r].user
    IN  /\ req[r].pc = "create"
        /\ role[u] = "NONE"
        /\ role' = [role EXCEPT ![u] = req[r].seen]
        /\ owns' = [owns EXCEPT ![u] = {"wallets"}]
        /\ enlisted' = IF req[r].seen = "COURIER" THEN enlisted \union {u} ELSE enlisted
        /\ Continue(r, "login")
        /\ UNCHANGED <<staffVars, tokens, secretVars, lost, workload>>

\* The address is unique, and somebody was faster.
CreateRefused(r) ==
    /\ req[r].pc = "create"
    /\ role[req[r].user] # "NONE"
    /\ Refuse(r)

\* login: the refresh token's hash is stored, and the token has the role that
\* was read.
LoginCommit(r) ==
    /\ req[r].pc = "login"
    /\ Live(req[r].user)
    /\ tokens' = tokens \union {<<req[r].user, req[r].seen>>}
    /\ Finish(r)
    /\ UNCHANGED <<role, owns, staffVars, enlisted, secretVars, lost, workload>>

\* refresh: who has logged in gets a token with the role of today.
Refresh(u) ==
    /\ "refresh" \in workload
    /\ LoggedIn(u) /\ Live(u)
    /\ tokens' = tokens \union {<<u, role[u]>>}
    /\ UNCHANGED <<role, owns, staffVars, enlisted, secretVars, req, lost, workload>>

-----------------------------------------------------------------------------
(* One-time codes and reset links.                                         *)

\* A code that was never made and that no request is about to store.
NewSecret(s) == secret[s] = "none" /\ \A r \in Requests : req[r].secret # s

Store(kind, u, s) ==
    /\ code' = [code EXCEPT ![kind][u] = s]
    /\ secret' = [secret EXCEPT ![s] = "sent"]
    /\ UNCHANGED used

\* sendOtp: one update, which replaces an earlier code.
SendOtp(u, s) ==
    /\ "otp" \in workload
    /\ LoggedIn(u) /\ Live(u) /\ NewSecret(s)
    /\ Store("otp", u, s)
    /\ UNCHANGED <<role, owns, staffVars, loginVars, req, lost, workload>>

ForgotRead(r, u, s) ==
    /\ Live(u) /\ NewSecret(s)
    /\ Begin(r, [Idle EXCEPT !.op = "forgot", !.pc = "store", !.user = u, !.secret = s])

ForgotCommit(r) ==
    /\ At(r, "forgot", "store")
    /\ Live(req[r].user)
    /\ Store("reset", req[r].user, req[r].secret)
    /\ Finish(r)
    /\ UNCHANGED <<role, owns, staffVars, loginVars, lost, workload>>

\* Ten minutes after a code, and thirty after a link, was made.
Expire(s) ==
    /\ secret[s] = "sent"
    /\ secret' = [secret EXCEPT ![s] = "expired"]
    /\ UNCHANGED <<role, owns, staffVars, loginVars, code, used, req, lost, workload>>

\* Mutant: a code is only compared with those that were sent.
BugVerifyRead(r, u, s) ==
    /\ LoggedIn(u) /\ Live(u)
    /\ s # None => secret[s] = "sent"
    /\ Begin(r, [Idle EXCEPT !.op = "verify", !.pc = "commit", !.user = u, !.secret = s])

\* verifyOtp: the answer is what is stored, and a code must be fresh.  Nothing
\* asks that there is one: an account without a code is verified by null.
VerifyRead(r, u, s) ==
    /\ LoggedIn(u) /\ Live(u)
    /\ code["otp"][u] = s
    /\ s # None => secret[s] = "sent"
    /\ Begin(r, [Idle EXCEPT !.op = "verify", !.pc = "commit", !.user = u, !.secret = s])

\* Mutant: the comparison with the current time is the wrong way round.
BugResetRead(r, u, s) ==
    /\ code["reset"][u] = s
    /\ Begin(r, [Idle EXCEPT !.op = "reset", !.user = u, !.secret = s,
                             !.pc = IF secret[s] = "expired" THEN "commit" ELSE "expire"])

\* resetPassword: a token that has expired is cleared whatever was presented.
ResetRead(r, u, s) ==
    /\ code["reset"][u] = s
    /\ Begin(r, [Idle EXCEPT !.op = "reset", !.user = u, !.secret = s,
                             !.pc = IF secret[s] = "expired" THEN "expire" ELSE "commit"])

KindOf(op) == IF op = "verify" THEN "otp" ELSE "reset"

\* Whatever is stored by now.
ClearCode(r) == code' = [code EXCEPT ![KindOf(req[r].op)][req[r].user] = None]

\* The answer that was read is accepted: the account is verified, or has its new
\* password.
Accept(r) ==
    /\ req[r].op \in {"verify", "reset"} /\ req[r].pc = "commit"
    /\ Live(req[r].user)
    /\ ClearCode(r)
    /\ used' = [s \in Secrets |-> IF s = req[r].secret THEN used[s] + 1 ELSE used[s]]
    /\ Finish(r)
    /\ UNCHANGED <<role, owns, staffVars, loginVars, secret, lost, workload>>

ClearExpired(r) ==
    /\ At(r, "reset", "expire")
    /\ Live(req[r].user)
    /\ ClearCode(r)
    /\ Finish(r)
    /\ UNCHANGED <<role, owns, staffVars, loginVars, secret, used, lost, workload>>

-----------------------------------------------------------------------------
\* An update of an account that was deleted throws.
UserGone(r) ==
    /\ req[r].op \in {"register", "google", "login", "forgot", "verify", "reset"}
    /\ req[r].pc \in {"login", "store", "commit", "expire"}
    /\ role[req[r].user] = "GONE"
    /\ Refuse(r)

AuthCall(r) ==
    \E u \in Users :
        \/ \E asked \in Roles : RegisterRead(r, u, asked)
        \/ LoginRead(r, u)
        \/ GoogleRead(r, u)
        \/ \E s \in Secrets : ForgotRead(r, u, s) \/ ResetRead(r, u, s)
        \/ \E s \in Secrets \union {None} : VerifyRead(r, u, s)

AuthStep(r) ==
    \/ CreateUser(r) \/ CreateRefused(r) \/ LoginCommit(r)
    \/ ForgotCommit(r) \/ Accept(r) \/ ClearExpired(r)
    \/ UserGone(r)
=============================================================================
