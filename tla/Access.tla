------------------------------- MODULE Access -------------------------------
(***************************************************************************)
(* Signing in to the hub: hub/server/auth.js, the handlers of              *)
(* hub/server/routes.js for the password, the sessions and the second      *)
(* factor, and the sign-in form and settings of hub/public/app.js.         *)
(*                                                                         *)
(* The hub has one operator, who works on several pages; the pages of one  *)
(* browser share the cookie of the session.  Passwords, secrets and        *)
(* sessions are numbered in the order in which they are made.  The hub     *)
(* handles a request without giving way to another; the reply may be lost. *)
(***************************************************************************)
EXTENDS Naturals

CONSTANTS
  Pages, Browsers,
  MaxSessions, MaxPasswords, MaxSecrets,   \* bounds: how many are made
  MaxWrong,                                \* bound: wrong passwords
  MaxFails                                 \* MAX_FAILS

ASSUME AccessAssumption ==
  /\ {MaxSessions, MaxPasswords, MaxSecrets, MaxWrong} \subseteq Nat
  /\ MaxFails \in Nat \ {0}

VARIABLES
  browserOf,  \* page -> its browser
  password,   \* the password of the hub, 0 before the setup
  factor,     \* the second factor: enabled, secret, pending, unused codes
  sessions,   \* token -> the password it was signed in with, 0 when destroyed
  guesses,    \* browser -> its count of failed sign-ins, and its lock
  cookie,     \* browser -> the token it presents, or 0
  pages,      \* page -> what it shows and knows
  owner,      \* what the operator has kept: secrets, and recovery codes
  made        \* how many sessions, secrets and wrong guesses there were

accessVars == <<browserOf, password, factor, sessions, guesses, cookie, pages, owner, made>>

NoFactor == [enabled |-> FALSE, secret |-> 0, pending |-> 0, codes |-> {}]
SignedOutPage == [view |-> "auth", csrf |-> 0, need2fa |-> FALSE, dialog |-> 0]
Codes(secret) == {secret} \X {1, 2}   \* the codes issued with a secret; ten in the code

AccessInit ==
  /\ browserOf \in [Pages -> Browsers]
  /\ password = 0 /\ factor = NoFactor
  /\ sessions = [t \in 1..MaxSessions |-> 0]
  /\ guesses = [b \in Browsers |-> [count |-> 0, locked |-> FALSE]]
  /\ cookie = [b \in Browsers |-> 0]
  /\ pages = [p \in Pages |-> SignedOutPage]
  /\ owner = [secrets |-> {}, codes |-> {}]
  /\ made = [sessions |-> 0, secrets |-> 0, wrong |-> 0]

Token(p) == cookie[browserOf[p]]

-----------------------------------------------------------------------------
(* createSession, its cookie, and its CSRF token, which has its number.    *)
SignIn(p) ==
  LET t == made.sessions + 1 IN
  /\ t <= MaxSessions
  /\ sessions' = [sessions EXCEPT ![t] = password']
  /\ cookie' = [cookie EXCEPT ![browserOf[p]] = t]
  /\ pages' = [pages EXCEPT ![p] = [SignedOutPage EXCEPT !.view = "main", !.csrf = t]]

Setup(p) ==
  /\ pages[p].view = "auth" /\ password = 0
  /\ password' = 1
  /\ SignIn(p)
  /\ made' = [made EXCEPT !.sessions = @ + 1]
  /\ UNCHANGED <<browserOf, factor, guesses, owner>>

(* recordFail: a lock starts the count anew, and stays when it is over.    *)
RecordFail(b) ==
  IF guesses[b].count + 1 >= MaxFails
  THEN guesses' = [guesses EXCEPT ![b] = [count |-> 0, locked |-> TRUE]]
  ELSE guesses' = [guesses EXCEPT ![b].count = @ + 1]

WrongPassword(p) ==
  /\ pages[p].view = "auth" /\ password # 0
  /\ ~guesses[browserOf[p]].locked
  /\ made.wrong < MaxWrong /\ made' = [made EXCEPT !.wrong = @ + 1]
  /\ RecordFail(browserOf[p])
  /\ UNCHANGED <<browserOf, password, factor, sessions, cookie, pages, owner>>

LockEnds(b) ==
  /\ guesses[b].locked
  /\ guesses' = [guesses EXCEPT ![b].locked = FALSE]
  /\ UNCHANGED <<browserOf, password, factor, sessions, cookie, pages, owner, made>>

(* The counts and locks are in memory.                                     *)
Forget ==
  /\ guesses' = [b \in Browsers |-> [count |-> 0, locked |-> FALSE]]
  /\ UNCHANGED <<browserOf, password, factor, sessions, cookie, pages, owner, made>>

(* What a code proves: one of an authenticator its secret, a recovery code *)
(* itself, once.                                                           *)
VerifyTotp(secret) == secret \in owner.secrets

ConsumeRecoveryCode(code) ==
  /\ code \in factor.codes
  /\ factor' = [factor EXCEPT !.codes = @ \ {code}]

(* POST /login with the right password: the first answer may ask for a     *)
(* code, which the form then sends along.                                  *)
Login(p) ==
  /\ pages[p].view = "auth" /\ password # 0
  /\ ~guesses[browserOf[p]].locked
  /\ UNCHANGED <<browserOf, password, owner>>
  /\ IF factor.enabled /\ ~pages[p].need2fa
     THEN /\ pages' = [pages EXCEPT ![p].need2fa = TRUE]
          /\ UNCHANGED <<factor, sessions, guesses, cookie, made>>
     ELSE /\ \/ (factor.enabled => VerifyTotp(factor.secret)) /\ UNCHANGED factor
             \/ factor.enabled /\ \E code \in owner.codes : ConsumeRecoveryCode(code)
          /\ guesses' = [guesses EXCEPT ![browserOf[p]] = [count |-> 0, locked |-> FALSE]]
          /\ SignIn(p)
          /\ made' = [made EXCEPT !.sessions = @ + 1]

-----------------------------------------------------------------------------
(* requireAuth: the session of the cookie, and for all but GET its CSRF    *)
(* token.  A 401 shows the sign-in form.                                   *)
Signed(p)     == Token(p) # 0 /\ sessions[Token(p)] # 0
Authorized(p) == pages[p].view = "main" /\ Signed(p) /\ pages[p].csrf = Token(p)

Refused(p) ==
  /\ pages[p].view = "main" /\ ~Signed(p)
  /\ pages' = [pages EXCEPT ![p] = SignedOutPage]
  /\ UNCHANGED <<browserOf, password, factor, sessions, guesses, cookie, owner, made>>

(* getSession: an hour without a request, or twelve in all.                *)
Expire(t) ==
  /\ sessions[t] # 0
  /\ sessions' = [sessions EXCEPT ![t] = 0]
  /\ UNCHANGED <<browserOf, password, factor, guesses, cookie, pages, owner, made>>

(* Loading the page: GET /me tells it the CSRF token.                      *)
Boot(p) ==
  /\ pages' = [pages EXCEPT ![p] =
       IF Signed(p) THEN [SignedOutPage EXCEPT !.view = "main", !.csrf = Token(p)]
       ELSE SignedOutPage]
  /\ UNCHANGED <<browserOf, password, factor, sessions, guesses, cookie, owner, made>>

Logout(p) ==
  /\ Authorized(p)
  /\ sessions' = [sessions EXCEPT ![Token(p)] = 0]
  /\ cookie' = [cookie EXCEPT ![browserOf[p]] = 0]
  /\ pages' = [pages EXCEPT ![p] = SignedOutPage]
  /\ UNCHANGED <<browserOf, password, factor, guesses, owner, made>>

DestroyOtherSessions(p) ==
  sessions' = [t \in DOMAIN sessions |-> IF t = Token(p) THEN sessions[t] ELSE 0]

LogoutAll(p) ==
  /\ Authorized(p)
  /\ DestroyOtherSessions(p)
  /\ UNCHANGED <<browserOf, password, factor, guesses, cookie, pages, owner, made>>

(* The session that changes the password goes on.                          *)
ChangePassword(p) ==
  /\ Authorized(p) /\ password < MaxPasswords
  /\ password' = password + 1
  /\ sessions' = [t \in DOMAIN sessions |-> IF t = Token(p) THEN password' ELSE 0]
  /\ UNCHANGED <<browserOf, factor, guesses, cookie, pages, owner, made>>

-----------------------------------------------------------------------------
(* open2faEnable: a new secret is pending; when the reply arrives the      *)
(* dialog shows it and the operator adds it to the authenticator.          *)
Setup2fa(p) ==
  LET secret == made.secrets + 1 IN
  /\ Authorized(p) /\ ~factor.enabled
  /\ secret <= MaxSecrets /\ made' = [made EXCEPT !.secrets = secret]
  /\ factor' = [factor EXCEPT !.pending = secret]
  /\ \/ /\ pages' = [pages EXCEPT ![p].dialog = secret]
        /\ owner' = [owner EXCEPT !.secrets = @ \cup {secret}]
     \/ UNCHANGED <<pages, owner>>
  /\ UNCHANGED <<browserOf, password, sessions, guesses, cookie>>

(* The code is one for the secret of the dialog; the one it is checked     *)
(* against is the pending one.  Mutant: it is checked against the secret   *)
(* that was shown.                                                         *)
ProvedShown(p)   == pages[p].dialog # 0 /\ VerifyTotp(pages[p].dialog) /\ factor.pending # 0
ProvedPending(p) == pages[p].dialog # 0 /\ factor.pending = pages[p].dialog

(* Each setting and each code is a statement of its own: the hub may stop  *)
(* before the pending secret is deleted, or before all codes are inserted. *)
Enabled(left, codes) == [enabled |-> TRUE, secret |-> factor.pending, pending |-> left, codes |-> codes]

Enable2fa(p) ==
  /\ Authorized(p) /\ ~factor.enabled
  /\ ProvedPending(p)
  /\ \/ /\ factor' = Enabled(0, Codes(factor.pending))
        /\ owner' = [owner EXCEPT !.codes = @ \cup factor'.codes]
        /\ pages' = [pages EXCEPT ![p].dialog = 0]
     \/ /\ \/ \E some \in SUBSET Codes(factor.pending) : factor' = Enabled(0, some)
           \/ factor' = Enabled(factor.pending, {})
        /\ UNCHANGED <<owner, pages>>
  /\ UNCHANGED <<browserOf, password, sessions, guesses, cookie, made>>

CancelDialog(p) ==
  /\ pages[p].dialog # 0
  /\ pages' = [pages EXCEPT ![p].dialog = 0]
  /\ UNCHANGED <<browserOf, password, factor, sessions, guesses, cookie, owner, made>>

(* With the password and a code of either kind.                            *)
Disable2fa(p) ==
  /\ Authorized(p) /\ factor.enabled
  /\ VerifyTotp(factor.secret) \/ owner.codes \cap factor.codes # {}
  /\ factor' = [NoFactor EXCEPT !.pending = factor.pending]
  /\ UNCHANGED <<browserOf, password, sessions, guesses, cookie, pages, owner, made>>

AccessNext ==
  \/ \E p \in Pages :
       \/ Setup(p) \/ WrongPassword(p) \/ Login(p) \/ Refused(p) \/ Boot(p) \/ Logout(p)
       \/ LogoutAll(p) \/ ChangePassword(p) \/ Setup2fa(p) \/ Enable2fa(p)
       \/ CancelDialog(p) \/ Disable2fa(p)
  \/ \E b \in Browsers : LockEnds(b)
  \/ Forget
  \/ \E t \in 1..MaxSessions : Expire(t)

AccessSpec == AccessInit /\ [][AccessNext]_accessVars

-----------------------------------------------------------------------------
(* The operator is never locked out by the enrolment: when the second      *)
(* factor is on, its secret is in the authenticator, although two pages    *)
(* may have set one up, replies get lost and the hub stops half-way.       *)
SecondFactorHeld == factor.enabled => factor.secret \in owner.secrets
=============================================================================
