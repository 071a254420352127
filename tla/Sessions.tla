------------------------------- MODULE Sessions -------------------------------
(***************************************************************************)
(* Stateless sessions of one account: internal/server/server.go (login,    *)
(* second factor, sliding refresh, 2FA enrolment, logout), the api         *)
(* package's session helpers and the tokens of internal/auth/auth.go.      *)
(*                                                                         *)
(* The server keeps no session table.  A token is signed over the          *)
(* "revision" of the account, a digest of the password hash, and is        *)
(* checked against the revision read from the configuration file at that   *)
(* moment.  Each read of the configuration is a step of its own, so the    *)
(* command line (goprox passwd, 2fa-reset, user removal) may act between   *)
(* any two reads of one request, and the requests of a browser overlap.    *)
(*                                                                         *)
(* Revision n stands for the n-th password; 0 for "" (no readable          *)
(* configuration).  Tokens carry three fields the real ones do not:        *)
(* `proof`, the password its holder once typed; `needed`/`verified`, the   *)
(* second factor asked and given; `straddled`, whether the account changed *)
(* between the check and the signing of some request it descends from.     *)
(***************************************************************************)
EXTENDS Integers

CONSTANTS
    Requests,      \* concurrent requests of one browser
    MaxRev,        \* bound: passwords the account has over time
    TTL,           \* session_ttl in ticks
    RefreshBelow,  \* ticks left under which a session is renewed (25%)
    None

ASSUME MaxRevAssumption == MaxRev \in Nat \ {0}
ASSUME TTLAssumption == TTL \in Nat \ {0} /\ RefreshBelow \in 0..TTL

Token == [rev : 0..MaxRev, left : 0..TTL, proof : 1..MaxRev,
          needed : BOOLEAN, verified : BOOLEAN, straddled : BOOLEAN]

ASSUME NoneAssumption == None \notin Token

VARIABLES
    account,   \* the configuration file: password revision, 2FA, readable
    jar,       \* the browser's session and pending-2FA cookies
    req        \* the requests in progress

vars == <<account, jar, req>>

Ops == {"use", "enable", "disable", "login", "code", "logout"}
Stages == {"idle", "validate", "code", "issue", "write", "reply"}
Cookies == {"session", "pending"}

(* A request: its stage, what it asks, and one token: the cookie it came   *)
(* with (for a login, what was typed), then what its new cookie is to say, *)
(* then that cookie.                                                       *)
Idle == [at |-> "idle", op |-> "use", token |-> None]

(* currentSessionRev: the revision of the readable configuration, or "".   *)
currentSessionRev == IF account.readable THEN account.rev ELSE 0

(* CreateSessionToken, CreatePendingToken: sign what the request has       *)
(* proved, for the revision just read.                                     *)
Signed(claim, rev) == [claim EXCEPT !.rev = rev, !.left = TTL]

(* Proved so far by who types password n.                                  *)
Typed(n) == [rev |-> 0, left |-> 0, proof |-> n,
             needed |-> FALSE, verified |-> FALSE, straddled |-> FALSE]

(* ValidateSessionToken, ValidatePendingToken.  An expired token is        *)
(* removed by Tick.                                                        *)
Accepted(token) == token # None /\ token.rev = currentSessionRev

ShouldRefreshSession(token) == 0 < token.left /\ token.left < RefreshBelow

-----------------------------------------------------------------------------
Init ==
    /\ account = [rev |-> 1, totp |-> FALSE, readable |-> TRUE]
    /\ jar = [c \in Cookies |-> None]
    /\ req = [r \in Requests |-> Idle]

(* A browser request takes along the cookie that is in the jar now.        *)
Send(r, op, token) ==
    /\ req[r].at = "idle"
    /\ req' = [req EXCEPT ![r] = [at |-> IF op = "logout" THEN "reply" ELSE "validate",
                                  op |-> op, token |-> token]]
    /\ UNCHANGED <<account, jar>>

(* A page, proxy or API request, or a 2FA enrolment or removal.            *)
SendWithSession(r) ==
    /\ jar["session"] # None
    /\ \E op \in {"use", "enable", "disable"} : Send(r, op, jar["session"])

(* The login form, with the password of the moment (it may be a former one *)
(* when the form is served; wrong ones are LoginThrottle's).               *)
SendLogin(r) == Send(r, "login", Typed(account.rev))

SendCode(r) == jar["pending"] # None /\ Send(r, "code", jar["pending"])

(* handleLogout reads nothing: it clears both cookies.                     *)
SendLogout(r) == Send(r, "logout", None)

(* The response sets no cookie: 401, a page or a redirect.                 *)
Finish(r) == req' = [req EXCEPT ![r] = Idle]

Continue(r, stage, token) ==
    req' = [req EXCEPT ![r] = [at |-> stage, op |-> @.op, token |-> token]]

(* What a handler does with a valid session: enrol or remove 2FA, renew    *)
(* the cookie, or just answer.                                             *)
Serve(r) ==
    LET token == req[r].token IN
    IF req[r].op # "use" THEN Continue(r, "write", token)
    ELSE IF ShouldRefreshSession(token) THEN Continue(r, "issue", token)
    ELSE Finish(r)

(* Mutant: the session's revision is not compared (signature only).        *)
Validate_AnyRevision(r) ==
    /\ req[r].at = "validate" /\ req[r].op \in {"use", "enable", "disable"}
    /\ IF req[r].token # None /\ account.readable THEN Serve(r) ELSE Finish(r)
    /\ UNCHANGED <<account, jar>>

(* sessionFromCookies, then the handler.                                   *)
Validate(r) ==
    /\ req[r].at = "validate" /\ req[r].op \in {"use", "enable", "disable"}
    /\ IF Accepted(req[r].token) THEN Serve(r) ELSE Finish(r)
    /\ UNCHANGED <<account, jar>>

(* handleLogin: the password is compared with the configuration read here. *)
(* With 2FA on, the pending token is signed with the revision of that same *)
(* copy; without, the session will be signed with a revision read later.   *)
VerifyPassword(r) ==
    /\ req[r].at = "validate" /\ req[r].op = "login"
    /\ LET claim == [req[r].token EXCEPT !.needed = account.totp] IN
       IF ~account.readable \/ claim.proof # account.rev THEN Finish(r)
       ELSE IF account.totp THEN Continue(r, "reply", Signed(claim, account.rev))
       ELSE Continue(r, "issue", claim)
    /\ UNCHANGED <<account, jar>>

(* pendingTwoFAUser.  The five-minute token may also have expired.         *)
CheckPending(r) ==
    /\ req[r].at = "validate" /\ req[r].op = "code"
    /\ \/ Accepted(req[r].token) /\ Continue(r, "code", req[r].token)
       \/ Finish(r)
    /\ UNCHANGED <<account, jar>>

(* Mutant: an account whose secret is gone passes without a code.          *)
VerifyCode_NoSecretPasses(r) ==
    /\ req[r].at = "code"
    /\ \/ /\ account.readable
          /\ Continue(r, "issue", [req[r].token EXCEPT !.verified = account.totp])
       \/ Finish(r)
    /\ UNCHANGED <<account, jar>>

(* handleTwoFAPost: the configuration is read again for the TOTP secret;   *)
(* without one, or with a wrong code, there is no session.                 *)
VerifyCode(r) ==
    /\ req[r].at = "code"
    /\ \/ /\ account.readable /\ account.totp
          /\ Continue(r, "issue", [req[r].token EXCEPT !.verified = TRUE])
       \/ Finish(r)
    /\ UNCHANGED <<account, jar>>

(* Mutant: the renewed token adds its lifetime to what was left.           *)
Issue_Extends(r) ==
    /\ req[r].at = "issue"
    /\ Continue(r, "reply", [Signed(req[r].token, currentSessionRev)
                             EXCEPT !.left = TTL + req[r].token.left])
    /\ UNCHANGED <<account, jar>>

(* issueSessionCookie: the revision is read once more, now for signing.    *)
Issue(r) ==
    /\ req[r].at = "issue"
    /\ Continue(r, "reply", Signed(req[r].token, currentSessionRev))
    /\ UNCHANGED <<account, jar>>

(* A login that got the pending cookie rather than a session.              *)
HeldAtCode(request) ==
    request.op = "login" /\ request.token # None /\ request.token.needed

(* UpdateTOTPSecret by handleTwoFASetupPost (after a matching code) or     *)
(* handleTwoFADisable; the code or the write may fail.                     *)
Write(r) ==
    /\ req[r].at = "write"
    /\ Finish(r)
    /\ \/ account.readable /\ account' = [account EXCEPT !.totp = (req[r].op = "enable")]
       \/ UNCHANGED account
    /\ UNCHANGED jar

(* The response reaches the browser, in any order, or is given up.  A      *)
(* login held at the second factor sets the pending cookie.                *)
Deliver(r) ==
    LET token == req[r].token
        set == CASE req[r].op = "logout" -> [c \in Cookies |-> None]
                 [] req[r].op = "code" -> [session |-> token, pending |-> None]
                 [] HeldAtCode(req[r]) -> [jar EXCEPT !["pending"] = token]
                 [] OTHER -> [jar EXCEPT !["session"] = token]
    IN  /\ req[r].at = "reply"
        /\ jar' \in {set, jar}
        /\ Finish(r)
        /\ UNCHANGED account

-----------------------------------------------------------------------------
(* Requests that have checked the account and not yet acted on it.         *)
Straddle ==
    [r \in Requests |-> IF req[r].at \in {"code", "issue", "write"}
                        THEN [req[r] EXCEPT !.token.straddled = TRUE] ELSE req[r]]

(* goprox passwd <user>.                                                   *)
Passwd ==
    /\ account.readable /\ account.rev < MaxRev
    /\ account' = [account EXCEPT !.rev = account.rev + 1]
    /\ req' = Straddle
    /\ UNCHANGED jar

(* goprox 2fa-reset <user>.                                                *)
ResetTwoFA ==
    /\ account.readable /\ account.totp
    /\ account' = [account EXCEPT !.totp = FALSE]
    /\ UNCHANGED <<jar, req>>

(* The user is removed, or the file unreadable; and it comes back.         *)
Toggle ==
    /\ account' = [account EXCEPT !.readable = ~account.readable]
    /\ req' = Straddle
    /\ UNCHANGED jar

(* A token a tick older.  Pending ones are not timed here (CheckPending).  *)
Aged(token) ==
    IF token = None \/ token.left = 0 THEN None ELSE [token EXCEPT !.left = token.left - 1]

AgedRequest(request) ==
    IF \/ request.at = "validate" /\ request.op \in {"use", "enable", "disable"}
       \/ request.at = "reply" /\ ~HeldAtCode(request)
    THEN [request EXCEPT !.token = Aged(request.token)] ELSE request

(* A tick of session time, seen by every copy of a session token.          *)
Tick ==
    /\ jar' = [jar EXCEPT !["session"] = Aged(jar["session"])]
    /\ req' = [r \in Requests |-> AgedRequest(req[r])]
    /\ UNCHANGED account

Server(r) == Validate(r) \/ VerifyPassword(r) \/ CheckPending(r) \/ VerifyCode(r)
             \/ Issue(r) \/ Write(r)

Browser(r) == SendWithSession(r) \/ SendLogin(r) \/ SendCode(r) \/ SendLogout(r)
              \/ Deliver(r)

Next ==
    \/ \E r \in Requests : Server(r) \/ Browser(r)
    \/ Passwd \/ ResetTwoFA \/ Toggle \/ Tick

Spec == Init /\ [][Next]_vars

-----------------------------------------------------------------------------
TypeOK ==
    /\ account \in [rev : 1..MaxRev, totp : BOOLEAN, readable : BOOLEAN]
    /\ jar \in [Cookies -> Token \cup {None}]
    /\ req \in [Requests -> [at : Stages, op : Ops, token : Token \cup {None}]]

(* "Changing the password revokes all previously-issued sessions"          *)
(* (currentSessionRev): a session the server would accept belongs to       *)
(* someone who has proved the current password.  (The comment's claim; the *)
(* revision is read again when a token is signed, so a request under way   *)
(* during the change obtains a token for the new password.)                *)
PasswordChangeRevokes ==
    Accepted(jar["session"]) => account.readable /\ jar["session"].proof = account.rev

(* That holds, through any interleaving of logins, refreshes, codes and    *)
(* password changes, for every session none of whose requests was being    *)
(* served while the account changed.  It covers a removed account, whose   *)
(* "" revision could match a token signed while it was away.               *)
RevokedUnlessStraddled ==
    Accepted(jar["session"]) /\ ~jar["session"].straddled =>
        account.readable /\ jar["session"].proof = account.rev

(* An account with 2FA on when the password was checked gets no session    *)
(* without a code, by any mixture of login, code and refresh requests      *)
(* (handleLogin, handleTwoFAPost).                                         *)
SecondFactorHeld ==
    jar["session"] # None /\ jar["session"].needed => jar["session"].verified

(* Only someone who proved the current password turns 2FA on or off        *)
(* through the gateway, unless the account changed while the request was   *)
(* being served (handleTwoFASetupPost, handleTwoFADisable).                *)
TwoFAChangesAuthorised ==
    [][\A r \in Requests :
        Write(r) /\ account'.totp # account.totp /\ ~req[r].token.straddled =>
            account.readable /\ req[r].token.proof = account.rev]_vars
===============================================================================
