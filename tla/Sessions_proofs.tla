---------------------------- MODULE Sessions_proofs ----------------------------
(***************************************************************************)
(* RevokedUnlessStraddled, TwoFAChangesAuthorised and SecondFactorHeld for *)
(* any number of requests, passwords and any session lifetime.             *)
(*                                                                         *)
(* The argument follows the claim a request carries.  A signed token that  *)
(* did not straddle a change names the password its holder proved; while a *)
(* request stands between its check and its signature or write, that       *)
(* password is the current one, because a change would have marked it.     *)
(***************************************************************************)
EXTENDS Sessions, TLAPS

Honest(token) == ~token.straddled => token.rev = token.proof

Grounded(token) == ~token.straddled => account.readable /\ token.proof = account.rev

Serving == {"code", "issue", "write"}

Sound(request) ==
    /\ request.at \in Serving => request.token # None /\ Grounded(request.token)
    /\ request.at = "validate" /\ request.op = "login" => request.token # None
    /\ request.at \in {"validate", "reply"} /\ request.op # "login" /\ request.token # None
         => Honest(request.token)
    /\ request.at = "reply" /\ request.token # None => Honest(request.token)

IInv ==
    /\ TypeOK
    /\ \A c \in Cookies : jar[c] # None => Honest(jar[c])
    /\ \A r \in Requests : Sound(req[r])

Request == [at : Stages, op : Ops, token : Token \cup {None}]

-----------------------------------------------------------------------------
LEMMA SignedToken ==
    ASSUME NEW claim \in Token, NEW rev \in 0..MaxRev
    PROVE  /\ Signed(claim, rev) \in Token
           /\ Signed(claim, rev).rev = rev
           /\ Signed(claim, rev).proof = claim.proof
           /\ Signed(claim, rev).straddled = claim.straddled
<1>1. TTL \in 0..TTL
  BY TTLAssumption
<1>2. [claim EXCEPT !.rev = rev] \in Token
  BY DEF Token
<1> DEFINE for == [claim EXCEPT !.rev = rev]
<1>3. [for EXCEPT !.left = TTL] \in Token
  BY <1>1, <1>2 DEF Token
<1>4. Signed(claim, rev) = [for EXCEPT !.left = TTL]
  BY DEF Signed
<1> QED
  BY <1>3, <1>4 DEF Token

LEMMA AgedToken ==
    ASSUME NEW token \in Token \cup {None}
    PROVE  /\ Aged(token) \in Token \cup {None}
           /\ Aged(token) # None => /\ token # None
                                    /\ Aged(token).rev = token.rev
                                    /\ Aged(token).proof = token.proof
                                    /\ Aged(token).straddled = token.straddled
<1>1. CASE token = None \/ token.left = 0
  BY <1>1 DEF Aged
<1>2. CASE ~(token = None \/ token.left = 0)
  <2>1. token \in Token /\ token.left \in 1..TTL
    BY <1>2, TTLAssumption DEF Token
  <2>2. token.left - 1 \in 0..TTL
    BY <2>1, TTLAssumption
  <2>3. Aged(token) = [token EXCEPT !.left = token.left - 1]
    BY <1>2 DEF Aged
  <2>4. [token EXCEPT !.left = token.left - 1] \in Token
    BY <2>1, <2>2 DEF Token
  <2> QED
    BY <1>2, <2>1, <2>3, <2>4, NoneAssumption DEF Token
<1> QED
  BY <1>1, <1>2

LEMMA CurrentRevision ==
    ASSUME TypeOK
    PROVE  currentSessionRev \in 0..MaxRev
  BY MaxRevAssumption DEF TypeOK, currentSessionRev

(* An accepted token that did not straddle a change is grounded.           *)
LEMMA AcceptedGrounded ==
    ASSUME TypeOK, NEW token \in Token, Honest(token), Accepted(token)
    PROVE  Grounded(token)
  BY MaxRevAssumption DEF TypeOK, Token, Honest, Accepted, Grounded, currentSessionRev

(* A grounded claim is honest once signed with the revision of the moment. *)
LEMMA GroundedSigned ==
    ASSUME TypeOK, NEW claim \in Token, Grounded(claim)
    PROVE  Honest(Signed(claim, currentSessionRev))
<1>1. currentSessionRev \in 0..MaxRev
  BY CurrentRevision
<1> QED
  BY <1>1, SignedToken DEF Grounded, Honest, currentSessionRev

(* What is left to show for a step that changes one request and neither    *)
(* the account nor the cookies.                                            *)
LEMMA OneRequest ==
    ASSUME IInv, NEW r \in Requests, NEW q \in Request,
           req' = [req EXCEPT ![r] = q], Sound(q), UNCHANGED <<account, jar>>
    PROVE  IInv'
<1>1. req' \in [Requests -> Request]
  BY DEF IInv, TypeOK, Request
<1>2. \A x \in Requests : Sound(req'[x])
  BY DEF IInv, TypeOK
<1>3. \A x \in Requests : Sound(req[x])'
  BY <1>2 DEF Sound, Grounded, Honest
<1> QED
  BY <1>1, <1>3 DEF IInv, TypeOK, Request, Honest

LEMMA IdleSound == Idle \in Request /\ Sound(Idle)
  BY DEF Idle, Request, Sound, Stages, Ops, Serving

LEMMA FinishStep ==
    ASSUME IInv, NEW r \in Requests, Finish(r), UNCHANGED <<account, jar>>
    PROVE  IInv'
  BY OneRequest, IdleSound DEF Finish

LEMMA SendStep ==
    ASSUME IInv, NEW r \in Requests, NEW op \in Ops, NEW token \in Token \cup {None},
           Send(r, op, token),
           op = "login" => token # None,
           op # "login" /\ token # None => Honest(token)
    PROVE  IInv'
<1> DEFINE q == [at |-> IF op = "logout" THEN "reply" ELSE "validate",
                 op |-> op, token |-> token]
<1>1. q \in Request
  BY DEF Request, Stages
<1>2. Sound(q)
  BY DEF Sound, Serving
<1>3. req' = [req EXCEPT ![r] = q] /\ UNCHANGED <<account, jar>>
  BY DEF Send
<1> HIDE DEF q
<1> QED
  BY <1>1, <1>2, <1>3, OneRequest

(* A step of the server: the request moves to a stage with a token.        *)
LEMMA ContinueStep ==
    ASSUME IInv, NEW r \in Requests, NEW stage \in Serving \cup {"reply"},
           NEW token \in Token, Continue(r, stage, token), UNCHANGED <<account, jar>>,
           stage \in Serving => Grounded(token),
           stage = "reply" => Honest(token)
    PROVE  IInv'
<1> DEFINE q == [at |-> stage, op |-> req[r].op, token |-> token]
<1>1. q \in Request
  BY DEF IInv, TypeOK, Request, Stages, Serving
<1>2. Sound(q)
  BY NoneAssumption DEF Sound, Serving
<1>3. req' = [req EXCEPT ![r] = q]
  BY DEF Continue, IInv, TypeOK
<1> HIDE DEF q
<1> QED
  BY <1>1, <1>2, <1>3, OneRequest

-----------------------------------------------------------------------------
LEMMA Initially == Init => IInv
<1> SUFFICES ASSUME Init PROVE IInv
  OBVIOUS
<1>1. TypeOK
  BY MaxRevAssumption, IdleSound DEF Init, TypeOK, Request
<1> QED
  BY <1>1, IdleSound DEF Init, IInv

LEMMA ValidateStep ==
    ASSUME IInv, NEW r \in Requests, Validate(r)
    PROVE  IInv'
<1> DEFINE token == req[r].token
<1>1. CASE Accepted(token)
  <2>1. token \in Token
    BY <1>1 DEF IInv, TypeOK, Accepted
  <2>2. Honest(token)
    BY <2>1, NoneAssumption DEF Validate, IInv, Sound
  <2>3. Grounded(token)
    BY <1>1, <2>1, <2>2, AcceptedGrounded DEF IInv
  <2>4. Finish(r) \/ Continue(r, "write", token) \/ Continue(r, "issue", token)
    BY <1>1 DEF Validate, Serve
  <2>5. UNCHANGED <<account, jar>>
    BY DEF Validate
  <2> HIDE DEF token
  <2> QED
    BY <2>1, <2>3, <2>4, <2>5, FinishStep, ContinueStep DEF Serving
<1>2. CASE ~Accepted(token)
  BY <1>2, FinishStep DEF Validate
<1> QED
  BY <1>1, <1>2

LEMMA VerifyPasswordStep ==
    ASSUME IInv, NEW r \in Requests, VerifyPassword(r)
    PROVE  IInv'
<1> DEFINE claim == [req[r].token EXCEPT !.needed = account.totp]
<1>1. req[r].token \in Token
  BY DEF VerifyPassword, IInv, TypeOK, Sound
<1>2. claim \in Token /\ claim.proof = req[r].token.proof
  BY <1>1 DEF IInv, TypeOK, Token
<1>3. UNCHANGED <<account, jar>>
  BY DEF VerifyPassword
<1>4. CASE ~account.readable \/ claim.proof # account.rev
  BY <1>3, <1>4, FinishStep DEF VerifyPassword
<1>5. CASE account.readable /\ claim.proof = account.rev
  <2>1. Grounded(claim)
    BY <1>5 DEF Grounded
  <2>2. currentSessionRev = account.rev
    BY <1>5 DEF currentSessionRev
  <2>3. Signed(claim, account.rev) \in Token /\ Honest(Signed(claim, account.rev))
    BY <1>2, <2>1, <2>2, CurrentRevision, SignedToken, GroundedSigned DEF IInv
  <2>4. \/ Continue(r, "reply", Signed(claim, account.rev))
        \/ Continue(r, "issue", claim)
    BY <1>5 DEF VerifyPassword
  <2> HIDE DEF claim
  <2> QED
    BY <1>2, <1>3, <2>1, <2>3, <2>4, ContinueStep DEF Serving
<1> QED
  BY <1>4, <1>5

LEMMA CheckPendingStep ==
    ASSUME IInv, NEW r \in Requests, CheckPending(r)
    PROVE  IInv'
<1> DEFINE token == req[r].token
<1>1. UNCHANGED <<account, jar>>
  BY DEF CheckPending
<1>2. CASE Accepted(token) /\ Continue(r, "code", token)
  <2>1. token \in Token
    BY <1>2 DEF IInv, TypeOK, Accepted
  <2>2. Honest(token)
    BY <2>1, NoneAssumption DEF CheckPending, IInv, Sound
  <2>3. Grounded(token)
    BY <1>2, <2>1, <2>2, AcceptedGrounded DEF IInv
  <2> HIDE DEF token
  <2> QED
    BY <1>1, <1>2, <2>1, <2>3, ContinueStep DEF Serving
<1>3. CASE Finish(r)
  BY <1>1, <1>3, FinishStep
<1> QED
  BY <1>2, <1>3 DEF CheckPending

LEMMA VerifyCodeStep ==
    ASSUME IInv, NEW r \in Requests, VerifyCode(r)
    PROVE  IInv'
<1> DEFINE token == [req[r].token EXCEPT !.verified = TRUE]
<1>1. UNCHANGED <<account, jar>>
  BY DEF VerifyCode
<1>2. CASE Continue(r, "issue", token)
  <2>1. req[r].token \in Token /\ Grounded(req[r].token)
    BY DEF VerifyCode, IInv, TypeOK, Sound, Serving
  <2>2. token \in Token /\ Grounded(token)
    BY <2>1 DEF Token, Grounded
  <2> HIDE DEF token
  <2> QED
    BY <1>1, <1>2, <2>2, ContinueStep DEF Serving
<1>3. CASE Finish(r)
  BY <1>1, <1>3, FinishStep
<1> QED
  BY <1>2, <1>3 DEF VerifyCode

LEMMA IssueStep ==
    ASSUME IInv, NEW r \in Requests, Issue(r)
    PROVE  IInv'
<1> DEFINE token == Signed(req[r].token, currentSessionRev)
<1>1. req[r].token \in Token /\ Grounded(req[r].token)
  BY DEF Issue, IInv, TypeOK, Sound, Serving
<1>2. token \in Token /\ Honest(token)
  BY <1>1, CurrentRevision, SignedToken, GroundedSigned DEF IInv
<1>3. Continue(r, "reply", token) /\ UNCHANGED <<account, jar>>
  BY DEF Issue
<1> HIDE DEF token
<1> QED
  BY <1>2, <1>3, ContinueStep DEF Serving

(* 2FA enrolment leaves the password alone, so nobody's grounds change.    *)
LEMMA WriteStep ==
    ASSUME IInv, NEW r \in Requests, Write(r)
    PROVE  IInv'
<1>1. /\ account' \in [rev : 1..MaxRev, totp : BOOLEAN, readable : BOOLEAN]
      /\ account'.rev = account.rev /\ account'.readable = account.readable
  BY DEF Write, IInv, TypeOK
<1>2. req' \in [Requests -> Request]
  BY IdleSound DEF Write, Finish, IInv, TypeOK, Request
<1>3. \A x \in Requests : Sound(req[x])'
  BY <1>1, IdleSound DEF Write, Finish, IInv, TypeOK, Sound, Grounded, Honest
<1> QED
  BY <1>1, <1>2, <1>3 DEF Write, IInv, TypeOK, Request, Honest

LEMMA DeliverStep ==
    ASSUME IInv, NEW r \in Requests, Deliver(r)
    PROVE  IInv'
<1> DEFINE token == req[r].token
<1>1. token \in Token \cup {None} /\ (token # None => Honest(token))
  BY DEF Deliver, IInv, TypeOK, Sound
<1>2. \/ jar' = jar
      \/ jar' = [c \in Cookies |-> None]
      \/ jar' = [session |-> token, pending |-> None]
      \/ jar' = [jar EXCEPT !["pending"] = token]
      \/ jar' = [jar EXCEPT !["session"] = token]
  BY DEF Deliver
<1> HIDE DEF token
<1>3. /\ jar' \in [Cookies -> Token \cup {None}]
      /\ \A c \in Cookies : jar'[c] # None => Honest(jar'[c])
  BY <1>1, <1>2 DEF IInv, TypeOK, Cookies
<1>4. req' \in [Requests -> Request]
  BY IdleSound DEF Deliver, Finish, IInv, TypeOK, Request
<1>5. \A x \in Requests : Sound(req[x])'
  BY IdleSound DEF Deliver, Finish, IInv, TypeOK, Sound, Grounded, Honest
<1> QED
  BY <1>3, <1>4, <1>5 DEF Deliver, IInv, TypeOK, Request, Honest

(* A change of password, or of readability, marks whoever it overtakes.    *)
LEMMA ChangeStep ==
    ASSUME IInv, req' = Straddle, UNCHANGED jar,
           account' \in [rev : 1..MaxRev, totp : BOOLEAN, readable : BOOLEAN]
    PROVE  IInv'
<1>1. ASSUME NEW r \in Requests
      PROVE  req'[r] \in Request /\ Sound(req[r])'
  <2>1. CASE req[r].at \in Serving
    <3>1. req[r].token \in Token /\ req[r] \in Request
      BY <2>1 DEF IInv, TypeOK, Sound, Request
    <3> DEFINE marked == [req[r].token EXCEPT !.straddled = TRUE]
    <3>2. marked \in Token /\ marked.straddled
      BY <3>1 DEF Token
    <3>3. req'[r] = [req[r] EXCEPT !.token = marked]
      BY <2>1 DEF Straddle, Serving
    <3>4. req'[r].token = marked /\ req'[r].at = req[r].at /\ req'[r] \in Request
      BY <3>1, <3>2, <3>3 DEF Request
    <3> HIDE DEF marked
    <3> QED
      BY <2>1, <3>2, <3>4, NoneAssumption DEF Sound, Grounded, Honest, Serving
  <2>2. CASE req[r].at \notin Serving
    BY <2>2 DEF Straddle, Serving, IInv, TypeOK, Request, Sound, Honest
  <2> QED
    BY <2>1, <2>2
<1>2. req' \in [Requests -> Request]
  BY <1>1 DEF Straddle
<1> QED
  BY <1>1, <1>2 DEF IInv, TypeOK, Request, Honest

LEMMA TickStep ==
    ASSUME IInv, Tick
    PROVE  IInv'
<1>1. /\ jar' \in [Cookies -> Token \cup {None}]
      /\ \A c \in Cookies : jar'[c] # None => Honest(jar'[c])
  <2>1. jar["session"] \in Token \cup {None}
    BY DEF IInv, TypeOK, Cookies
  <2> QED
    BY <2>1, AgedToken DEF Tick, IInv, TypeOK, Cookies, Honest
<1>2. ASSUME NEW r \in Requests
      PROVE  req'[r] \in Request /\ Sound(req[r])'
  <2>1. req[r] \in Request /\ Sound(req[r])
    BY DEF IInv, TypeOK, Request
  <2>2. CASE req'[r] = req[r]
    BY <2>1, <2>2 DEF Tick, Sound, Grounded, Honest
  <2>3. CASE req'[r] = [req[r] EXCEPT !.token = Aged(req[r].token)]
             /\ req[r].at \in {"validate", "reply"}
             /\ (req[r].at = "validate" => req[r].op # "login")
    <3>1. Aged(req[r].token) \in Token \cup {None}
      BY <2>1, AgedToken DEF Request
    <3>2. /\ req'[r] \in Request
          /\ req'[r].token = Aged(req[r].token)
          /\ req'[r].at = req[r].at /\ req'[r].op = req[r].op
      BY <2>1, <2>3, <3>1 DEF Request
    <3> QED
      BY <2>1, <2>3, <3>2, AgedToken DEF Sound, Serving, Honest, Request
  <2> QED
    BY <2>2, <2>3 DEF Tick, AgedRequest
<1>3. req' \in [Requests -> Request]
  BY <1>2 DEF Tick
<1> QED
  BY <1>1, <1>2, <1>3 DEF Tick, IInv, TypeOK, Request, Honest

LEMMA Inductive == IInv /\ [Next]_vars => IInv'
<1> SUFFICES ASSUME IInv, [Next]_vars PROVE IInv'
  OBVIOUS
<1>1. ASSUME NEW r \in Requests, Server(r) PROVE IInv'
  BY <1>1, ValidateStep, VerifyPasswordStep, CheckPendingStep, VerifyCodeStep,
     IssueStep, WriteStep DEF Server
<1>2. ASSUME NEW r \in Requests, SendWithSession(r) PROVE IInv'
  BY <1>2, SendStep DEF SendWithSession, IInv, TypeOK, Cookies, Ops
<1>3. ASSUME NEW r \in Requests, SendLogin(r) PROVE IInv'
  <2>1. Typed(account.rev) \in Token
    BY MaxRevAssumption, TTLAssumption DEF IInv, TypeOK, Typed, Token
  <2> QED
    BY <1>3, <2>1, SendStep, NoneAssumption DEF SendLogin, Ops
<1>4. ASSUME NEW r \in Requests, SendCode(r) PROVE IInv'
  BY <1>4, SendStep DEF SendCode, IInv, TypeOK, Cookies, Ops
<1>5. ASSUME NEW r \in Requests, SendLogout(r) PROVE IInv'
  BY <1>5, SendStep DEF SendLogout, Ops
<1>6. ASSUME NEW r \in Requests, Deliver(r) PROVE IInv'
  BY <1>6, DeliverStep
<1>7. CASE Passwd
  <2>1. account' \in [rev : 1..MaxRev, totp : BOOLEAN, readable : BOOLEAN]
    BY <1>7, MaxRevAssumption DEF Passwd, IInv, TypeOK
  <2> QED
    BY <1>7, <2>1, ChangeStep DEF Passwd
<1>8. CASE ResetTwoFA
  <2>1. /\ account' \in [rev : 1..MaxRev, totp : BOOLEAN, readable : BOOLEAN]
        /\ account'.rev = account.rev /\ account'.readable = account.readable
    BY <1>8 DEF ResetTwoFA, IInv, TypeOK
  <2> QED
    BY <1>8, <2>1 DEF ResetTwoFA, IInv, TypeOK, Sound, Grounded, Honest
<1>9. CASE Toggle
  <2>1. account' \in [rev : 1..MaxRev, totp : BOOLEAN, readable : BOOLEAN]
    BY <1>9 DEF Toggle, IInv, TypeOK
  <2> QED
    BY <1>9, <2>1, ChangeStep DEF Toggle
<1>10. CASE Tick
  BY <1>10, TickStep
<1>11. CASE UNCHANGED vars
  BY <1>11 DEF vars, IInv, TypeOK, Sound, Grounded, Honest
<1> QED
  BY <1>1, <1>2, <1>3, <1>4, <1>5, <1>6, <1>7, <1>8, <1>9, <1>10, <1>11
     DEF Next, Browser

-----------------------------------------------------------------------------
LEMMA Invariant == Spec => []IInv
  BY Initially, Inductive, PTL DEF Spec

(* Account, cookies and requests keep their types in every behaviour.      *)
THEOREM TypeCorrect == Spec => []TypeOK
<1>1. IInv => TypeOK
  BY DEF IInv
<1> QED
  BY <1>1, Invariant, PTL

(* currentSessionRev, issueSessionCookie: a session that is accepted, and  *)
(* of which no request was under way during a change, belongs to someone   *)
(* who proved the current password of a readable account, whatever         *)
(* requests, refreshes and password changes came before.                   *)
THEOREM Revocation == Spec => []RevokedUnlessStraddled
<1>1. ASSUME IInv, Accepted(jar["session"]), ~jar["session"].straddled
      PROVE  account.readable /\ jar["session"].proof = account.rev
  <2>1. jar["session"] \in Token /\ Honest(jar["session"])
    BY <1>1 DEF IInv, TypeOK, Cookies, Accepted
  <2> QED
    BY <1>1, <2>1, AcceptedGrounded DEF IInv, Grounded
<1>2. IInv => RevokedUnlessStraddled
  BY <1>1 DEF RevokedUnlessStraddled
<1> QED
  BY <1>2, Invariant, PTL

(* handleTwoFASetupPost, handleTwoFADisable: the second factor is turned   *)
(* on or off only for someone who proved the current password, unless the  *)
(* account changed while the request was served.                           *)
THEOREM FactorChanges == Spec => TwoFAChangesAuthorised
<1>1. ASSUME IInv, NEW r \in Requests, Write(r), ~req[r].token.straddled
      PROVE  account.readable /\ req[r].token.proof = account.rev
  BY <1>1 DEF IInv, Sound, Serving, Write, Grounded
<1>2. IInv /\ [Next]_vars =>
        [\A r \in Requests :
           Write(r) /\ account'.totp # account.totp /\ ~req[r].token.straddled =>
             account.readable /\ req[r].token.proof = account.rev]_vars
  BY <1>1
<1> QED
  BY <1>2, Invariant, PTL DEF Spec, TwoFAChangesAuthorised

-----------------------------------------------------------------------------
(* The second factor.  What was asked of whoever typed the password goes   *)
(* with the token: a request that serves a session has given it, one past  *)
(* the code has verified it, and a login that goes on to a session was not *)
(* asked for it.                                                           *)
Given(token) == token.needed => token.verified

Factored(request) ==
    request.token # None =>
        /\ request.op \in {"use", "enable", "disable"} => Given(request.token)
        /\ request.op = "code" /\ request.at \in {"issue", "reply"} => request.token.verified
        /\ request.op = "login" /\ request.at = "issue" => ~request.token.needed

AtCode(request) == request.at = "code" => request.op = "code"

HeldInv ==
    /\ SecondFactorHeld
    /\ \A r \in Requests : Factored(req[r]) /\ AtCode(req[r])

(* Neither signing nor age nor a change of the account touches it.         *)
SameFactor(old, new) == new.needed = old.needed /\ new.verified = old.verified

LEMMA SignedFactor ==
    ASSUME NEW claim \in Token, NEW rev \in 0..MaxRev
    PROVE  SameFactor(claim, Signed(claim, rev))
<1> DEFINE for == [claim EXCEPT !.rev = rev]
<1>1. for \in Token /\ for.needed = claim.needed /\ for.verified = claim.verified
  BY DEF Token
<1>2. Signed(claim, rev) = [for EXCEPT !.left = TTL]
  BY DEF Signed
<1> HIDE DEF for
<1> QED
  BY <1>1, <1>2 DEF Token, SameFactor

LEMMA AgedFactor ==
    ASSUME NEW token \in Token \cup {None}, Aged(token) # None
    PROVE  token # None /\ SameFactor(token, Aged(token))
<1>1. token # None /\ token.left # 0 /\ Aged(token) = [token EXCEPT !.left = token.left - 1]
  BY DEF Aged
<1> QED
  BY <1>1 DEF Token, SameFactor

LEMMA OneFactored ==
    ASSUME IInv, HeldInv, NEW r \in Requests, NEW q, req' = [req EXCEPT ![r] = q],
           Factored(q), AtCode(q), UNCHANGED jar
    PROVE  HeldInv'
<1>1. \A x \in Requests : req'[x] = q \/ req'[x] = req[x]
  BY DEF IInv, TypeOK
<1> QED
  BY <1>1 DEF HeldInv, SecondFactorHeld, Factored, AtCode

LEMMA IdleFactored == Factored(Idle) /\ AtCode(Idle)
  BY DEF Idle, Factored, AtCode

LEMMA FinishFactored ==
    ASSUME IInv, HeldInv, NEW r \in Requests, Finish(r), UNCHANGED jar
    PROVE  HeldInv'
  BY OneFactored, IdleFactored DEF Finish

LEMMA SendFactored ==
    ASSUME IInv, HeldInv, NEW r \in Requests, NEW op, NEW token, Send(r, op, token),
           op \in {"use", "enable", "disable"} /\ token # None => Given(token)
    PROVE  HeldInv'
<1> DEFINE q == [at |-> IF op = "logout" THEN "reply" ELSE "validate", op |-> op, token |-> token]
<1>1. Factored(q) /\ AtCode(q)
  BY DEF Factored, AtCode
<1>2. req' = [req EXCEPT ![r] = q] /\ UNCHANGED jar
  BY DEF Send
<1> HIDE DEF q
<1> QED
  BY <1>1, <1>2, OneFactored

LEMMA ContinueFactored ==
    ASSUME IInv, HeldInv, NEW r \in Requests, NEW stage, NEW token, Continue(r, stage, token),
           Factored([at |-> stage, op |-> req[r].op, token |-> token]),
           stage = "code" => req[r].op = "code", UNCHANGED jar
    PROVE  HeldInv'
<1> DEFINE q == [at |-> stage, op |-> req[r].op, token |-> token]
<1>1. req' = [req EXCEPT ![r] = q]
  BY DEF Continue, IInv, TypeOK
<1>2. Factored(q) /\ AtCode(q)
  BY DEF AtCode
<1> HIDE DEF q
<1> QED
  BY <1>1, <1>2, OneFactored

LEMMA ServerFactored ==
    ASSUME IInv, HeldInv, NEW r \in Requests, Server(r)
    PROVE  HeldInv'
<1>1. UNCHANGED jar
  BY DEF Server, Validate, VerifyPassword, CheckPending, VerifyCode, Issue, Write
<1>2. CASE Finish(r)
  BY <1>1, <1>2, FinishFactored
<1>3. CASE Validate(r) /\ ~Finish(r)
  <2>1. /\ req[r].op \in {"use", "enable", "disable"} /\ req[r].token # None
        /\ Continue(r, "write", req[r].token) \/ Continue(r, "issue", req[r].token)
    BY <1>3 DEF Validate, Serve, Accepted
  <2>2. Given(req[r].token)
    BY <2>1 DEF HeldInv, Factored
  <2>3. \A stage : Factored([at |-> stage, op |-> req[r].op, token |-> req[r].token])
    BY <2>1, <2>2 DEF Factored
  <2> QED
    BY <1>1, <2>1, <2>3, ContinueFactored
<1>4. CASE VerifyPassword(r) /\ ~Finish(r)
  <2> DEFINE claim == [req[r].token EXCEPT !.needed = account.totp]
  <2>1. req[r].op = "login" /\ req[r].token \in Token
    BY <1>4 DEF VerifyPassword, IInv, TypeOK, Sound
  <2>2. claim.needed = account.totp
    BY <2>1 DEF Token
  <2>3. \/ account.totp /\ Continue(r, "reply", Signed(claim, account.rev))
        \/ ~account.totp /\ Continue(r, "issue", claim)
    BY <1>4 DEF VerifyPassword
  <2> HIDE DEF claim
  <2>4. \A token : Factored([at |-> "reply", op |-> req[r].op, token |-> token])
    BY <2>1 DEF Factored
  <2>5. ~account.totp => Factored([at |-> "issue", op |-> req[r].op, token |-> claim])
    BY <2>1, <2>2 DEF Factored
  <2> QED
    BY <1>1, <2>3, <2>4, <2>5, ContinueFactored
<1>5. CASE CheckPending(r) /\ ~Finish(r)
  <2>1. req[r].op = "code" /\ Continue(r, "code", req[r].token)
    BY <1>5 DEF CheckPending
  <2>2. Factored([at |-> "code", op |-> req[r].op, token |-> req[r].token])
    BY <2>1 DEF Factored
  <2> QED
    BY <1>1, <2>1, <2>2, ContinueFactored
<1>6. CASE VerifyCode(r) /\ ~Finish(r)
  <2> DEFINE token == [req[r].token EXCEPT !.verified = TRUE]
  <2>1. req[r].token \in Token /\ Continue(r, "issue", token)
    BY <1>6 DEF VerifyCode, IInv, TypeOK, Sound, Serving
  <2>2. token.verified
    BY <2>1 DEF Token
  <2> HIDE DEF token
  <2>3. req[r].op = "code"
    BY <1>6 DEF VerifyCode, HeldInv, AtCode
  <2>4. Factored([at |-> "issue", op |-> req[r].op, token |-> token])
    BY <2>2, <2>3 DEF Factored
  <2> QED
    BY <1>1, <2>1, <2>4, ContinueFactored
<1>7. CASE Issue(r)
  <2> DEFINE token == Signed(req[r].token, currentSessionRev)
  <2>1. /\ req[r].at = "issue" /\ req[r].token \in Token
        /\ Continue(r, "reply", token)
    BY <1>7 DEF Issue, IInv, TypeOK, Sound, Serving
  <2>2. SameFactor(req[r].token, token)
    BY <2>1, SignedFactor, CurrentRevision DEF IInv
  <2> HIDE DEF token
  <2>3. Factored([at |-> "reply", op |-> req[r].op, token |-> token])
    BY <2>1, <2>2, NoneAssumption DEF HeldInv, Factored, SameFactor, Given
  <2> QED
    BY <1>1, <2>1, <2>3, ContinueFactored
<1>8. CASE Write(r)
  BY <1>2, <1>8 DEF Write
<1> QED
  BY <1>2, <1>3, <1>4, <1>5, <1>6, <1>7, <1>8 DEF Server

LEMMA DeliverFactored ==
    ASSUME IInv, HeldInv, NEW r \in Requests, Deliver(r)
    PROVE  HeldInv'
<1> DEFINE token == req[r].token
           op == req[r].op
<1>1. /\ req[r].at = "reply" /\ op \in Ops
      /\ Factored(req[r]) /\ jar \in [Cookies -> Token \cup {None}]
  BY DEF Deliver, HeldInv, IInv, TypeOK
<1>2. \/ jar'["session"] \in {None, jar["session"]}
      \/ /\ jar'["session"] = token
         /\ op # "logout"
         /\ op = "login" /\ token # None => ~token.needed
  BY <1>1 DEF Deliver, HeldAtCode, Cookies
<1>3. jar'["session"] # None => Given(jar'["session"])
  BY <1>1, <1>2 DEF HeldInv, SecondFactorHeld, Factored, Given, Ops
<1>4. req' = [req EXCEPT ![r] = Idle]
  BY DEF Deliver, Finish
<1>5. \A x \in Requests : Factored(req'[x]) /\ AtCode(req'[x])
  BY <1>4, IdleFactored DEF HeldInv, IInv, TypeOK
<1> QED
  BY <1>3, <1>5 DEF HeldInv, SecondFactorHeld, Given, Factored, AtCode

(* Every request keeps its place, and its token what it says of the factor.*)
LEMMA AllFactored ==
    ASSUME HeldInv,
           jar'["session"] # None => /\ jar["session"] # None
                                     /\ SameFactor(jar["session"], jar'["session"]),
           \A r \in Requests :
             /\ req'[r].at = req[r].at /\ req'[r].op = req[r].op
             /\ req'[r].token # None => /\ req[r].token # None
                                        /\ SameFactor(req[r].token, req'[r].token)
    PROVE  HeldInv'
<1>1. SecondFactorHeld'
  BY DEF HeldInv, SecondFactorHeld, SameFactor
<1>2. ASSUME NEW r \in Requests
      PROVE  Factored(req[r])' /\ AtCode(req[r])'
  BY DEF HeldInv, Factored, AtCode, Given, SameFactor
<1> QED
  BY <1>1, <1>2 DEF HeldInv

LEMMA ChangeFactored ==
    ASSUME IInv, HeldInv, req' = Straddle, UNCHANGED jar
    PROVE  HeldInv'
<1>1. ASSUME NEW r \in Requests
      PROVE  /\ req'[r].at = req[r].at /\ req'[r].op = req[r].op
             /\ req'[r].token # None => /\ req[r].token # None
                                        /\ SameFactor(req[r].token, req'[r].token)
  <2>1. CASE req[r].at \in Serving
    <3>1. req[r].token \in Token /\ req[r] \in Request
      BY <2>1 DEF IInv, TypeOK, Sound, Request
    <3> DEFINE marked == [req[r].token EXCEPT !.straddled = TRUE]
    <3>2. SameFactor(req[r].token, marked)
      BY <3>1 DEF Token, SameFactor
    <3>3. req'[r] = [req[r] EXCEPT !.token = marked]
      BY <2>1 DEF Straddle, Serving
    <3> HIDE DEF marked
    <3> QED
      BY <3>1, <3>2, <3>3, NoneAssumption DEF Request
  <2>2. CASE req[r].at \notin Serving
    BY <2>2 DEF Straddle, Serving, SameFactor
  <2> QED
    BY <2>1, <2>2
<1> QED
  BY <1>1, AllFactored DEF SameFactor

LEMMA TickFactored ==
    ASSUME IInv, HeldInv, Tick
    PROVE  HeldInv'
<1>1. jar["session"] \in Token \cup {None} /\ jar'["session"] = Aged(jar["session"])
  BY DEF Tick, IInv, TypeOK, Cookies
<1>2. ASSUME NEW r \in Requests
      PROVE  /\ req'[r].at = req[r].at /\ req'[r].op = req[r].op
             /\ req'[r].token # None => /\ req[r].token # None
                                        /\ SameFactor(req[r].token, req'[r].token)
  <2>1. req[r] \in Request
    BY DEF IInv, TypeOK, Request
  <2>2. CASE req'[r] = req[r]
    BY <2>2 DEF SameFactor
  <2>3. CASE req'[r] = [req[r] EXCEPT !.token = Aged(req[r].token)]
    <3>1. /\ req'[r].token = Aged(req[r].token)
          /\ req'[r].at = req[r].at /\ req'[r].op = req[r].op
      BY <2>1, <2>3 DEF Request
    <3> QED
      BY <2>1, <3>1, AgedFactor DEF Request
  <2> QED
    BY <2>2, <2>3 DEF Tick, AgedRequest
<1> QED
  BY <1>1, <1>2, AgedFactor, AllFactored

(* handleLogin, handleTwoFAPost: whoever logged in to an account with a    *)
(* second factor has a session only after a code, through any mixture of   *)
(* logins, codes, refreshes and changes of the account.                    *)
THEOREM SecondFactor == Spec => []SecondFactorHeld
<1>1. Init => HeldInv
  BY IdleFactored DEF Init, HeldInv, SecondFactorHeld, Cookies
<1>2. ASSUME IInv, HeldInv, [Next]_vars
      PROVE  HeldInv'
  <2>1. ASSUME NEW r \in Requests, Browser(r)
        PROVE  HeldInv'
    <3>1. CASE SendWithSession(r)
      <4>1. PICK op \in {"use", "enable", "disable"} : Send(r, op, jar["session"])
        BY <3>1 DEF SendWithSession
      <4>2. Given(jar["session"])
        BY <1>2, <3>1 DEF SendWithSession, HeldInv, SecondFactorHeld, Given
      <4> QED
        BY <1>2, <4>1, <4>2, SendFactored
    <3>2. CASE SendLogin(r)
      BY <1>2, <3>2, SendFactored DEF SendLogin
    <3>3. CASE SendCode(r)
      BY <1>2, <3>3, SendFactored DEF SendCode
    <3>4. CASE SendLogout(r)
      BY <1>2, <3>4, SendFactored DEF SendLogout
    <3> QED
      BY <1>2, <2>1, <3>1, <3>2, <3>3, <3>4, DeliverFactored DEF Browser
  <2>2. CASE Passwd \/ Toggle
    BY <1>2, <2>2, ChangeFactored DEF Passwd, Toggle
  <2>3. CASE ResetTwoFA \/ UNCHANGED vars
    BY <1>2, <2>3 DEF ResetTwoFA, vars, HeldInv, SecondFactorHeld, Factored, AtCode, Given
  <2> QED
    BY <1>2, <2>1, <2>2, <2>3, ServerFactored, TickFactored DEF Next
<1>3. HeldInv => SecondFactorHeld
  BY DEF HeldInv
<1> QED
  BY <1>1, <1>2, <1>3, Invariant, PTL DEF Spec
===============================================================================
