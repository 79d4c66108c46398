------------------------------- MODULE Sessions -------------------------------
(***************************************************************************)
(* One account and its sessions: a customer's (users.service.ts with       *)
(* user-mobile-session.ts), who signs in with a code from an SMS, or a     *)
(* store account's (store_auth.service.ts with mobile-session.ts), with a  *)
(* password.  A session is a chain of refresh tokens: each use of a token  *)
(* gives its heir.  Both kinds of account take a used token that comes     *)
(* again for a stolen one, and end every session of the account, but a     *)
(* customer's counts as a retry, and is given the same heir, for a while.  *)
(*                                                                         *)
(* No handler here locks anything; each is a series of single statements,  *)
(* so an action stands for one access to the database, with what was read  *)
(* kept in the call.  A token is its number; the row keeps its hash.       *)
(***************************************************************************)
EXTENDS Naturals, FiniteSets

CONSTANTS
  Devices,      \* the devices of the account's holder
  Procs,        \* requests that may be between two database accesses
  MaxTokens,    \* bound on refresh tokens ever issued
  MaxCodes,     \* bound on codes ever sent
  DailyLimit,   \* OTP_DAILY_LIMIT
  MaxAttempts,  \* OTP_MAX_ATTEMPTS
  MaxVersion,   \* bound on token_version
  Null          \* no token

Tokens == 1 .. MaxTokens
Codes  == 1 .. MaxCodes
Legacy == 0     \* the JWT that sessions had before user_refresh_tokens

ASSUME SessionsAssumption ==
  /\ MaxTokens \in Nat /\ MaxCodes \in Nat /\ MaxVersion \in Nat
  /\ DailyLimit \in Nat \ {0} /\ MaxAttempts \in Nat \ {0}
  /\ Null \notin Nat

VARIABLES
  kind,     \* "customer" or "store"
  account,  \* the row of users or store_users
  code,     \* code[c]: the row of otp
  token,    \* token[t]: the row of user_refresh_tokens or store_refresh_tokens
  held,     \* held[d]: the token that device d has
  calls,    \* calls[p]: the handler p is in the middle of, and what it has read
  uses,     \* history: uses[c], guesses compared with code c, sessions it opened
  closed,   \* history: first tokens of the sessions ended by reuse, or by a
            \* new password
  lowered   \* history: a change of the password came so late that it wrote a
            \* token_version lower than the one there was

vars == <<kind, account, code, token, held, calls, uses, closed, lowered>>

(***************************************************************************)
(* tv: token_version; legacy: users.refresh_token is set.  A "deleted"     *)
(* account had sessions; a later one of the same phone is another row.     *)
(***************************************************************************)
Account == [status : {"none", "inactive", "active", "deleted"},
            tv : 0 .. MaxVersion, legacy : BOOLEAN]

Code == [state : {"none", "sent", "verified"}, expired : BOOLEAN, attempts : 0 .. MaxAttempts]

(***************************************************************************)
(* root: the token the session began with; next: replaced_by_id, or 0;     *)
(* window: less than REFRESH_GRACE_MS since replaced_at; "revoked" is      *)
(* revoked_at, "expired" is expires_at, of a token that is not revoked,    *)
(* and "gone" a row that was deleted.                                      *)
(***************************************************************************)
Token == [state : {"none", "live", "expired", "revoked", "gone"}, tv : 0 .. MaxVersion,
          root : 0 .. MaxTokens, next : 0 .. MaxTokens, window : BOOLEAN]

Call == [step : {"idle", "sms", "reserve", "claim", "activate", "issue", "account", "grace",
                 "create", "swap", "discard", "again", "take", "link", "close", "reply",
                 "spend", "bump", "end"},
         device : Devices \cup {Null}, token : Tokens \cup {Legacy, Null}, next : 0 .. MaxTokens,
         tv : 0 .. MaxVersion, code : 0 .. MaxCodes]

TypeOK ==
  /\ kind \in {"customer", "store"}
  /\ account \in Account
  /\ code \in [Codes -> Code]
  /\ token \in [Tokens -> Token]
  /\ held \in [Devices -> Tokens \cup {Legacy, Null}]
  /\ calls \in [Procs -> Call]
  /\ uses \in [Codes -> [tried : Nat, sessions : Nat]]
  /\ closed \subseteq Tokens
  /\ lowered \in BOOLEAN

IdleCall == [step |-> "idle", device |-> Null, token |-> Null, next |-> 0, tv |-> 0, code |-> 0]
NoToken == [state |-> "none", tv |-> 0, root |-> 0, next |-> 0, window |-> FALSE]

\* A customer who is new, or signed in before the tokens were rows; a store account
Init ==
  /\ \/ /\ kind = "customer"
        /\ account = [status |-> "none", tv |-> 0, legacy |-> FALSE]
        /\ held = [d \in Devices |-> Null]
     \/ /\ kind = "customer"
        /\ account = [status |-> "active", tv |-> 0, legacy |-> TRUE]
        /\ held \in [Devices -> {Legacy, Null}]
     \/ /\ kind = "store"
        /\ account = [status |-> "active", tv |-> 0, legacy |-> FALSE]
        /\ held = [d \in Devices |-> Null]
  /\ code = [c \in Codes |-> [state |-> "none", expired |-> FALSE, attempts |-> 0]]
  /\ token = [t \in Tokens |-> NoToken]
  /\ calls = [p \in Procs |-> IdleCall]
  /\ uses = [c \in Codes |-> [tried |-> 0, sessions |-> 0]]
  /\ closed = {}
  /\ lowered = FALSE

-----------------------------------------------------------------------------
At(p, step) == calls[p].step = step
Begin(p, call) == At(p, "idle") /\ calls' = [calls EXCEPT ![p] = call]
Step(p, step) == calls' = [calls EXCEPT ![p].step = step]
End(p) == calls' = [calls EXCEPT ![p] = IdleCall]

Live(t) == token[t].state = "live"
Unrevoked(t) == token[t].state \in {"live", "expired"}
Replaced(t) == token[t].state = "revoked" /\ token[t].next # 0
Roots == {token[t].root : t \in {u \in Tokens : token[u].state # "none"}}

\* The next number of the table
Fresh(t) == token[t].state = "none" /\ \A u \in Tokens : u < t => token[u].state # "none"

\* issueUserRefreshToken, issueRefreshToken: a session's first token, or a heir
IssuedTo(t, tv, root) ==
  [token EXCEPT ![t] = [NoToken EXCEPT !.state = "live", !.tv = tv, !.root = root]]

\* revokeAllUserRefreshTokens, revokeAllRefreshTokens
AllRevoked == [t \in Tokens |-> IF Unrevoked(t) THEN [token[t] EXCEPT !.state = "revoked"]
                                                ELSE token[t]]

\* The request of device d is answered 401: it drops the token it came with
Refused(d, t) == held' = [held EXCEPT ![d] = IF @ = t THEN Null ELSE @]
Refuse(p) == End(p) /\ Refused(calls[p].device, calls[p].token)

-----------------------------------------------------------------------------
(* The customer signs in                                                   *)

Unexpired(c) == code[c].state # "none" /\ ~code[c].expired

(***************************************************************************)
(* loginUser: the account is created if need be, also when newOtp then     *)
(* refuses to send a code: too many today, or one is not expired yet.      *)
(***************************************************************************)
Login(p) ==
  /\ kind = "customer" /\ account.status # "deleted" /\ At(p, "idle")
  /\ account' = [account EXCEPT !.status = IF @ = "none" THEN "inactive" ELSE @]
  /\ IF /\ Cardinality({c \in Codes : code[c].state # "none"}) < DailyLimit
        /\ ~\E c \in Codes : Unexpired(c)
       THEN Step(p, "sms") ELSE UNCHANGED calls
  /\ UNCHANGED <<kind, code, token, held, uses, closed, lowered>>

\* The SMS is sent, then the row of the code written
SendCode(p, c) ==
  /\ At(p, "sms")
  /\ code[c].state = "none" /\ \A b \in Codes : b < c => code[b].state # "none"
  /\ code' = [code EXCEPT ![c].state = "sent"]
  /\ End(p)
  /\ UNCHANGED <<kind, account, token, held, uses, closed, lowered>>

\* verifyOtpClient reads the row of the code and checks it
VerifyBegin(p, d, c) ==
  /\ kind = "customer" /\ held[d] = Null
  /\ code[c].state = "sent" /\ ~code[c].expired /\ code[c].attempts < MaxAttempts
  /\ Begin(p, [IdleCall EXCEPT !.step = "reserve", !.device = d, !.code = c])
  /\ UNCHANGED <<kind, account, code, token, held, uses, closed, lowered>>

\* UPDATE ... attempts + 1 WHERE NOT verified AND attempts < 3, then the comparison
Reserve(p, right) ==
  LET c == calls[p].code IN
  /\ At(p, "reserve")
  /\ IF code[c].state = "sent" /\ code[c].attempts < MaxAttempts
       THEN /\ code' = [code EXCEPT ![c].attempts = @ + 1]
            /\ uses' = [uses EXCEPT ![c].tried = @ + 1]
            /\ IF right THEN Step(p, "claim") ELSE End(p)
       ELSE End(p) /\ UNCHANGED <<code, uses>>
  /\ UNCHANGED <<kind, account, token, held, closed, lowered>>

\* Mutant (CodeOpensOneSession): without the WHERE
ClaimAgain(p) ==
  LET c == calls[p].code IN
  /\ At(p, "claim")
  /\ code' = [code EXCEPT ![c].state = "verified"]
  /\ Step(p, "activate")
  /\ UNCHANGED <<kind, account, token, held, uses, closed, lowered>>

\* UPDATE ... verified WHERE NOT verified
Claim(p) ==
  LET c == calls[p].code IN
  /\ At(p, "claim")
  /\ IF code[c].state = "sent"
       THEN code' = [code EXCEPT ![c].state = "verified"] /\ Step(p, "activate")
       ELSE End(p) /\ UNCHANGED code
  /\ UNCHANGED <<kind, account, token, held, uses, closed, lowered>>

\* The account becomes active and is read; it may have been deleted
Activate(p) ==
  /\ At(p, "activate")
  /\ IF account.status \in {"none", "deleted"}
       THEN End(p) /\ UNCHANGED account
       ELSE /\ account' = [account EXCEPT !.status = "active"]
            /\ calls' = [calls EXCEPT ![p].step = "issue", ![p].tv = account.tv]
  /\ UNCHANGED <<kind, code, token, held, uses, closed, lowered>>

\* A first token: of verifyOtpClient, upgradeLegacySession or the store's login
Issue(p, t) ==
  LET c == calls[p].code IN
  /\ At(p, "issue") /\ Fresh(t)
  /\ account.status = "active"
  /\ token' = IssuedTo(t, calls[p].tv, t)
  /\ account' = [account EXCEPT !.legacy = IF c # 0 THEN FALSE ELSE @]
  /\ uses' = [b \in Codes |-> IF b = c THEN [uses[b] EXCEPT !.sessions = @ + 1] ELSE uses[b]]
  /\ calls' = [calls EXCEPT ![p].step = "reply", ![p].next = t]
  /\ UNCHANGED <<kind, code, held, closed, lowered>>

\* upgradeLegacySession, up to the comparison with users.refresh_token
Upgrade(p, d) ==
  /\ held[d] = Legacy
  /\ IF account.status = "active" /\ account.legacy
       THEN /\ Begin(p, [IdleCall EXCEPT !.step = "spend", !.device = d, !.token = Legacy,
                                         !.tv = account.tv])
            /\ UNCHANGED held
       ELSE At(p, "idle") /\ Refused(d, Legacy) /\ UNCHANGED calls
  /\ UNCHANGED <<kind, account, code, token, uses, closed, lowered>>

Spend(p) ==
  /\ At(p, "spend")
  /\ account' = [account EXCEPT !.legacy = FALSE]
  /\ Step(p, "issue")
  /\ UNCHANGED <<kind, code, token, held, uses, closed, lowered>>

-----------------------------------------------------------------------------
(* A session is renewed                                                    *)

\* findUserRefreshToken, findRefreshToken for the token device d has
Refresh(p, d) ==
  LET t == held[d]
      call(step) == [IdleCall EXCEPT !.step = step, !.device = d, !.token = t]
  IN
  /\ t \notin {Legacy, Null}
  /\ IF Replaced(t) /\ token[t].window /\ kind = "customer"
       THEN Begin(p, [call("grace") EXCEPT !.next = token[t].next]) /\ UNCHANGED held
     ELSE IF Replaced(t)
       THEN Begin(p, call("close")) /\ UNCHANGED held
     ELSE IF Live(t)
       THEN Begin(p, [call("account") EXCEPT !.tv = token[t].tv]) /\ UNCHANGED held
     ELSE At(p, "idle") /\ Refused(d, t) /\ UNCHANGED calls
  /\ UNCHANGED <<kind, account, code, token, uses, closed, lowered>>

\* The account must be there, active, and of the version of the token
CheckAccount(p) ==
  /\ calls[p].step \in {"account", "grace"}
  /\ IF account.status # "active" \/ account.tv # token[calls[p].token].tv THEN Step(p, "close")
     ELSE IF At(p, "grace") THEN Step(p, "reply")
     ELSE Step(p, IF kind = "customer" THEN "create" ELSE "take")
  /\ UNCHANGED <<kind, account, code, token, held, uses, closed, lowered>>

\* Mutant (PasswordEndsSessions): a heir is of the account's version by then
CreateOfToday(p, t) ==
  /\ At(p, "create") /\ Fresh(t)
  /\ account.status = "active"
  /\ token' = IssuedTo(t, account.tv, token[calls[p].token].root)
  /\ calls' = [calls EXCEPT ![p].step = IF kind = "customer" THEN "swap" ELSE "link",
                            ![p].next = t]
  /\ UNCHANGED <<kind, account, code, held, uses, closed, lowered>>

\* The heir is issued, of the version read with the account
Create(p, t) ==
  /\ At(p, "create") /\ Fresh(t)
  /\ account.status = "active"
  /\ token' = IssuedTo(t, calls[p].tv, token[calls[p].token].root)
  /\ calls' = [calls EXCEPT ![p].step = IF kind = "customer" THEN "swap" ELSE "link",
                            ![p].next = t]
  /\ UNCHANGED <<kind, account, code, held, uses, closed, lowered>>

\* Mutant (SessionsGoOn): the heir is left out of the row
SwapUnlinked(p) ==
  LET t == calls[p].token IN
  /\ At(p, "swap")
  /\ token' = [token EXCEPT ![t].state = IF Unrevoked(t) THEN "revoked" ELSE @]
  /\ Step(p, IF Unrevoked(t) THEN "reply" ELSE "discard")
  /\ UNCHANGED <<kind, account, code, held, uses, closed, lowered>>

\* Mutant (ReuseEndsSessions, OneTokenPerSession): the token may be used already
SwapUnconditionally(p) ==
  LET c == calls[p] IN
  /\ At(p, "swap")
  /\ token' = [token EXCEPT ![c.token].state = "revoked", ![c.token].next = c.next,
                            ![c.token].window = TRUE]
  /\ Step(p, "reply")
  /\ UNCHANGED <<kind, account, code, held, uses, closed, lowered>>

\* The customer's token: one UPDATE ... WHERE revoked_at IS NULL
Swap(p) ==
  LET c == calls[p] IN
  /\ At(p, "swap")
  /\ IF Unrevoked(c.token)
       THEN /\ token' = [token EXCEPT ![c.token].state = "revoked",
                                      ![c.token].next = c.next, ![c.token].window = TRUE]
            /\ Step(p, "reply")
       ELSE Step(p, "discard") /\ UNCHANGED token
  /\ UNCHANGED <<kind, account, code, held, uses, closed, lowered>>

\* Another request was first: the heir nobody was given is deleted
Discard(p) ==
  /\ At(p, "discard")
  /\ token' = [token EXCEPT ![calls[p].next].state = "gone"]
  /\ Step(p, "again")
  /\ UNCHANGED <<kind, account, code, held, uses, closed, lowered>>

\* and the token is looked up again, for the heir that the other request made
FindAgain(p) ==
  LET t == calls[p].token IN
  /\ At(p, "again")
  /\ IF Replaced(t) /\ token[t].window
       THEN /\ calls' = [calls EXCEPT ![p].step = "reply", ![p].next = token[t].next]
            /\ UNCHANGED held
     ELSE IF Replaced(t) THEN Step(p, "close") /\ UNCHANGED held
     ELSE Refuse(p)
  /\ UNCHANGED <<kind, account, code, token, uses, closed, lowered>>

\* The store account's token: revoked, its heir issued (Create), then linked
Take(p) ==
  LET t == calls[p].token IN
  /\ At(p, "take")
  /\ IF Unrevoked(t) THEN token' = [token EXCEPT ![t].state = "revoked"] /\ Step(p, "create")
                     ELSE Step(p, "close") /\ UNCHANGED token
  /\ UNCHANGED <<kind, account, code, held, uses, closed, lowered>>

Link(p) ==
  /\ At(p, "link")
  /\ token' = [token EXCEPT ![calls[p].token].next = calls[p].next]
  /\ Step(p, "reply")
  /\ UNCHANGED <<kind, account, code, held, uses, closed, lowered>>

\* revokeAll after a reuse or a check that failed; the request is refused
Close(p) ==
  /\ At(p, "close")
  /\ token' = AllRevoked
  /\ closed' = IF kind = "customer" THEN closed \cup Roots ELSE closed
  /\ Refuse(p)
  /\ UNCHANGED <<kind, account, code, uses, lowered>>

\* The answer arrives; the device takes it if its token is the one it asked with
Reply(p) ==
  LET c == calls[p] IN
  /\ At(p, "reply")
  /\ held' = [held EXCEPT ![c.device] = IF @ = c.token THEN c.next ELSE @]
  /\ End(p)
  /\ UNCHANGED <<kind, account, code, token, uses, closed, lowered>>

\* The answer is lost, or the process ends in the middle of the handler
Drop(p) ==
  /\ ~At(p, "idle")
  /\ End(p)
  /\ UNCHANGED <<kind, account, code, token, held, uses, closed, lowered>>

-----------------------------------------------------------------------------
(* The store account, and the end of sessions                              *)

\* login of a store account, past the password
StoreLogin(p, d) ==
  /\ kind = "store" /\ account.status = "active" /\ held[d] = Null
  /\ Begin(p, [IdleCall EXCEPT !.step = "issue", !.device = d, !.tv = account.tv])
  /\ UNCHANGED <<kind, account, code, token, held, uses, closed, lowered>>

(***************************************************************************)
(* changePassword reads the account, hashes the passwords for a while and  *)
(* writes the version it read plus one, whatever others wrote meanwhile;   *)
(* then it revokes.  setPassword does the first two under the row's lock   *)
(* and does not revoke: ChangePassword, Bump and Drop with no step between.*)
(***************************************************************************)
ChangePassword(p) ==
  /\ kind = "store" /\ account.status = "active" /\ account.tv < MaxVersion
  /\ Begin(p, [IdleCall EXCEPT !.step = "bump", !.tv = account.tv])
  /\ UNCHANGED <<kind, account, code, token, held, uses, closed, lowered>>

\* A change that finds the version raised since it read ends no further session
Bump(p) ==
  LET read == calls[p].tv IN
  /\ At(p, "bump")
  /\ account' = [account EXCEPT !.tv = read + 1]
  /\ closed' = IF account.tv = read THEN closed \cup Roots ELSE closed
  /\ lowered' = (lowered \/ account.tv > read + 1)
  /\ Step(p, "end")
  /\ UNCHANGED <<kind, code, token, held, uses>>

EndAll(p) ==
  /\ At(p, "end")
  /\ token' = AllRevoked
  /\ End(p)
  /\ UNCHANGED <<kind, account, code, held, uses, closed, lowered>>

\* signOutUser, revokeDevice: the token of this device, if it is not used yet
SignOut(d) ==
  /\ held[d] # Null
  /\ IF held[d] = Legacy
       THEN account' = [account EXCEPT !.legacy = FALSE] /\ UNCHANGED token
       ELSE /\ token' = [token EXCEPT ![held[d]].state =
                                     IF Unrevoked(held[d]) THEN "revoked" ELSE @]
            /\ UNCHANGED account
  /\ held' = [held EXCEPT ![d] = Null]
  /\ UNCHANGED <<kind, code, calls, uses, closed, lowered>>

\* deleteUser; the tokens go with the row
DeleteUser ==
  /\ kind = "customer" /\ account.status = "active"
  /\ account' = [account EXCEPT !.status = "deleted", !.legacy = FALSE]
  /\ token' = [t \in Tokens |-> IF token[t].state = "none" THEN token[t]
                                ELSE [token[t] EXCEPT !.state = "gone"]]
  /\ UNCHANGED <<kind, code, held, calls, uses, closed, lowered>>

\* Somebody else's first login deletes accounts not confirmed within a day
DeleteStale ==
  /\ kind = "customer" /\ account.status = "inactive"
  /\ account' = [account EXCEPT !.status = "none"]
  /\ UNCHANGED <<kind, code, token, held, calls, uses, closed, lowered>>

\* Time: a code, an unused token, or the window for a retry is over
ExpireCode(c) ==
  /\ Unexpired(c)
  /\ code' = [code EXCEPT ![c].expired = TRUE]
  /\ UNCHANGED <<kind, account, token, held, calls, uses, closed, lowered>>

ExpireToken(t) ==
  /\ Live(t)
  /\ token' = [token EXCEPT ![t].state = "expired"]
  /\ UNCHANGED <<kind, account, code, held, calls, uses, closed, lowered>>

CloseWindow(t) ==
  /\ token[t].window
  /\ token' = [token EXCEPT ![t].window = FALSE]
  /\ UNCHANGED <<kind, account, code, held, calls, uses, closed, lowered>>

-----------------------------------------------------------------------------
SignIn(p) ==
  \/ Login(p) \/ Claim(p) \/ Activate(p) \/ Spend(p)
  \/ \E c \in Codes : SendCode(p, c) \/ \E d \in Devices : VerifyBegin(p, d, c)
  \/ \E right \in BOOLEAN : Reserve(p, right)
  \/ \E t \in Tokens : Issue(p, t)
  \/ \E d \in Devices : Upgrade(p, d) \/ StoreLogin(p, d)

Renew(p) ==
  \/ \E d \in Devices : Refresh(p, d)
  \/ CheckAccount(p) \/ Swap(p) \/ Discard(p) \/ FindAgain(p) \/ Take(p) \/ Link(p) \/ Close(p)
  \/ \E t \in Tokens : Create(p, t)

Next ==
  \/ \E p \in Procs : \/ SignIn(p) \/ Renew(p) \/ Reply(p) \/ Drop(p)
                      \/ ChangePassword(p) \/ Bump(p) \/ EndAll(p)
  \/ \E d \in Devices : SignOut(d)
  \/ DeleteUser \/ DeleteStale
  \/ \E c \in Codes : ExpireCode(c)
  \/ \E t \in Tokens : ExpireToken(t) \/ CloseWindow(t)

Spec == Init /\ [][Next]_vars

-----------------------------------------------------------------------------
(***************************************************************************)
(* However many requests verify one code at the same time, no more than    *)
(* MaxAttempts guesses are compared with it and it opens one session.      *)
(***************************************************************************)
CodeOpensOneSession ==
  \A c \in Codes : uses[c].tried <= MaxAttempts /\ uses[c].sessions <= 1

\* A token that was or may yet be given to a device: not a candidate for heir
Given(t) ==
  \/ token[t].root = t
  \/ \E u \in Tokens : token[u].next = t
  \/ \E d \in Devices : held[d] = t
  \/ \E p \in Procs : At(p, "reply") /\ calls[p].next = t

(***************************************************************************)
(* Requests of one session that arrive together get the same heir: of the  *)
(* tokens given out in a session at most one is live.                      *)
(***************************************************************************)
OneTokenPerSession ==
  \A t, u \in Tokens :
    Live(t) /\ Live(u) /\ Given(t) /\ Given(u) /\ token[t].root = token[u].root => t = u

(***************************************************************************)
(* A customer's token that comes again too late ends every session there   *)
(* is: a renewal that was under way has no live token to give either.      *)
(***************************************************************************)
ReuseEndsSessions ==
  kind = "customer" =>
    \A t \in Tokens : Live(t) /\ Given(t) => token[t].root \notin closed

(***************************************************************************)
(* After a new password no token of an earlier session can be renewed,     *)
(* though a renewal under way may still issue one and revokeAll may never  *)
(* run.  Earlier means begun before the version was raised: a change that  *)
(* finds it raised by another since it read writes the same number again,  *)
(* and leaves what began between the two writes to revokeAll alone.  Once  *)
(* a late change has written back a lower version nothing is promised.     *)
(***************************************************************************)
PasswordEndsSessions ==
  kind = "store" /\ ~lowered =>
    \A t \in Tokens : Live(t) /\ token[t].tv = account.tv => token[t].root \notin closed

(***************************************************************************)
(* user-mobile-session.ts: a customer loses the token at hand only by      *)
(* signing out, by not using it for long, by a reuse or a retry that came  *)
(* too late, or by deleting the account; never because answers were lost   *)
(* or requests came together.                                              *)
(***************************************************************************)
SessionsGoOn ==
  [][\A d \in Devices :
       LET t == held[d] IN
       (kind = "customer" /\ t \notin {Null, Legacy} /\ held'[d] = Null) =>
         \/ SignOut(d)
         \/ token[t].state = "expired" \/ account.status = "deleted"
         \/ token[t].root \in closed']_vars
=============================================================================
