--------------------------- MODULE Sessions_proofs ---------------------------
(***************************************************************************)
(* Theorems about codes, tokens and sessions, for any devices, requests    *)
(* and bounds.                                                             *)
(*                                                                         *)
(* No handler locks anything, so what a request carries is old when it is  *)
(* used.  CallOK says what stays true of it meanwhile (Lasting) and what   *)
(* only its own next step may end (Delicate); Apart keeps two requests     *)
(* from having the same heir in hand; Unborn says that a new session is    *)
(* touched by nobody until its first token arrives.                        *)
(***************************************************************************)
EXTENDS Sessions, TLAPS

Exists(t) == token[t].state # "none"
Deleted == account.status = "deleted"

\* No version is known above it: the account's own, unless that was lowered
Newest == IF lowered THEN MaxVersion ELSE account.tv

\* A token of a session: its first one, or one that a row names as its heir
Linked(t) == token[t].root = t \/ \E u \in Tokens : token[u].next = t

TokenOK(t) ==
  /\ ~Exists(t) => token[t] = NoToken
  /\ Exists(t) =>
       /\ token[t].root \in Tokens /\ Exists(token[t].root)
       /\ token[token[t].root].root = token[t].root
       /\ token[t].tv <= Newest
  /\ token[t].next # 0 =>
       /\ token[t].next \in Tokens /\ Exists(token[t].next)
       /\ token[token[t].next].root = token[t].root
       /\ ~Unrevoked(t)
  /\ token[t].state = "gone" /\ Linked(t) => Deleted

\* One token of a session can be used, and none of a session that was ended
SessionsOK ==
  /\ \A t, u \in Tokens :
       /\ Linked(t) /\ Unrevoked(t) /\ Linked(u) /\ Unrevoked(u)
       /\ token[t].root = token[u].root
       => t = u
  /\ kind = "customer" =>
       \A t \in Tokens : Linked(t) /\ Unrevoked(t) => token[t].root \notin closed
  /\ kind = "store" /\ ~lowered =>
       \A t \in Tokens : Exists(t) /\ token[t].tv = account.tv => token[t].root \notin closed
  /\ \A r \in closed : Exists(r)

WithToken == {"account", "grace", "create", "swap", "discard", "again", "take", "link", "close"}
WithHeir  == {"swap", "discard", "link"}
WithNone  == {"idle", "sms", "reserve", "claim", "activate", "issue", "spend", "bump", "end"}

\* What no other request can make untrue of a request's call c
Lasting(c) ==
  /\ c.step = "idle" => c = IdleCall
  /\ c.step \notin {"idle", "sms", "bump", "end"} => c.device \in Devices
  /\ c.step \in WithToken => c.token \in Tokens /\ Linked(c.token)
  /\ c.step \in WithNone => c.token \notin Tokens
  /\ c.token \in Tokens => Exists(c.token)
  /\ c.next # 0 => c.next \in Tokens /\ Exists(c.next)
  /\ c.step \in {"grace", "reply"} =>
       /\ c.next # 0 /\ Linked(c.next)
       /\ c.token \in Tokens => token[c.next].root = token[c.token].root
  /\ c.step \in WithHeir => c.next # 0 /\ token[c.next].root = token[c.token].root
  /\ c.step \in {"account", "create", "take"} => c.tv = token[c.token].tv
  /\ c.tv <= Newest
  /\ c.step \in {"discard", "again"} => ~Unrevoked(c.token)
  /\ c.step \in {"grace", "swap", "discard", "again"} => kind = "customer"
  /\ c.step \in {"take", "link", "bump", "end"} => kind = "store"
  /\ c.step = "spend" => c.code = 0
  /\ c.step = "bump" => c.tv < MaxVersion

\* What Apart keeps other requests from making untrue
Delicate(c) ==
  /\ c.step \in WithHeir => ~Linked(c.next)
  /\ c.step \in {"swap", "link"} /\ token[c.next].state = "gone" => Deleted
  /\ kind = "store" /\ c.step \in {"create", "link"} =>
       /\ token[c.token].next = 0
       /\ \A t \in Tokens : Linked(t) /\ token[t].root = token[c.token].root => ~Unrevoked(t)

CallOK(c) == Lasting(c) /\ Delicate(c)

Apart(c, e) ==
  /\ c.step \in WithHeir /\ e.step \in WithHeir => c.next # e.next
  /\ kind = "store" /\ c.step \in {"create", "link"} /\ e.step \in {"create", "link"} =>
       token[c.token].root # token[e.token].root

CallsOK ==
  /\ \A p \in Procs : CallOK(calls[p])
  /\ \A p, q \in Procs : p # q => Apart(calls[p], calls[q])

\* Request p has verified code c and has not opened its session yet
Winner(p, c) == calls[p].step \in {"activate", "issue"} /\ calls[p].code = c

CodesOK ==
  /\ \A c \in Codes : /\ uses[c].tried = code[c].attempts
                      /\ uses[c].sessions <= 1
                      /\ code[c].state # "verified" => uses[c].sessions = 0
  /\ \A p \in Procs : calls[p].step \in {"reserve", "claim", "activate"} => calls[p].code \in Codes
  /\ \A p \in Procs, c \in Codes :
       Winner(p, c) => /\ code[c].state = "verified" /\ uses[c].sessions = 0
                       /\ \A q \in Procs : Winner(q, c) => q = p

\* A revoked token without heir is the end of its session for every device
HeldOK ==
  /\ \A d \in Devices : held[d] \in Tokens => Exists(held[d]) /\ Linked(held[d])
  /\ \A d, e \in Devices :
       /\ held[d] \in Tokens /\ held[e] \in Tokens
       /\ token[held[d]].root = token[held[e]].root
       => d = e
  /\ kind = "customer" =>
       \A t \in Tokens : token[t].state = "revoked" /\ token[t].next = 0 =>
         \/ token[t].root \in closed
         \/ \A d \in Devices : held[d] \in Tokens => token[held[d]].root # token[t].root

\* The answer under way has the first token of a session
NewBorn(c) == c.step = "reply" /\ c.token \notin Tokens

Untouched(r) ==
  /\ token[r].root = r /\ token[r].next = 0
  /\ \A t \in Tokens : token[t].root = r => t = r
  /\ \A d \in Devices : held[d] # r
  /\ kind = "customer" /\ token[r].state = "revoked" => r \in closed

Unborn ==
  \A p \in Procs : NewBorn(calls[p]) =>
    /\ Untouched(calls[p].next)
    /\ \A q \in Procs : /\ calls[q].token # calls[p].next
                        /\ q # p => calls[q].next # calls[p].next

TokensOK == \A t \in Tokens : TokenOK(t)

IInv == TypeOK /\ TokensOK /\ SessionsOK /\ CallsOK /\ CodesOK /\ HeldOK /\ Unborn

-----------------------------------------------------------------------------
(* Facts                                                                   *)

LEMMA TokenFacts ==
  /\ 0 \notin Tokens /\ Null \notin Tokens /\ Legacy \notin Tokens /\ Legacy # Null
  /\ Tokens \subseteq Nat /\ 0 .. MaxTokens = Tokens \cup {0} /\ Null \notin 0 .. MaxTokens
  BY SessionsAssumption DEF Tokens, Legacy

LEMMA NewestType ==
  ASSUME TypeOK
  PROVE  /\ Newest \in 0 .. MaxVersion /\ Newest \in Nat /\ Newest <= Newest
         /\ account.tv \in 0 .. MaxVersion /\ account.tv \in Nat /\ account.tv <= Newest
  BY SessionsAssumption DEF TypeOK, Account, Newest

LEMMA NewestSame ==
  ASSUME TypeOK, UNCHANGED lowered, account'.tv = account.tv
  PROVE  Newest' = Newest /\ Newest <= Newest' /\ (lowered => lowered')
  BY NewestType DEF Newest

LEMMA NewTypeLater ==
  ASSUME TypeOK'
  PROVE  Newest' \in Nat
  BY SessionsAssumption DEF TypeOK, Account, Newest

LEMMA CodeFacts ==
  0 \notin Codes /\ 0 .. MaxCodes = Codes \cup {0}
  BY SessionsAssumption DEF Codes

LEMMA IdleType ==
  /\ IdleCall \in Call /\ IdleCall.step = "idle" /\ IdleCall.token = Null
  /\ IdleCall.next = 0 /\ IdleCall.tv = 0
  BY SessionsAssumption DEF IdleCall, Call

LEMMA NoTokenType ==
  /\ NoToken \in Token /\ NoToken.state = "none" /\ NoToken.root = 0
  /\ NoToken.next = 0 /\ NoToken.tv = 0
  BY SessionsAssumption DEF NoToken, Token

\* An idle request is like no request
LEMMA IdleOK ==
  ASSUME TypeOK
  PROVE  /\ CallOK(IdleCall) /\ ~NewBorn(IdleCall)
         /\ \A e : Apart(IdleCall, e) /\ Apart(e, IdleCall)
<1>1. Newest \in Nat
  BY NewestType
<1>2. CallOK(IdleCall)
  BY <1>1, IdleType, TokenFacts DEF CallOK, Lasting, Delicate, WithToken, WithHeir, WithNone
<1>3. QED
  BY <1>2, IdleType DEF NewBorn, Apart, WithHeir

\* Nothing points to a row that is not there
LEMMA NotThere ==
  ASSUME TypeOK, TokensOK, NEW t \in Tokens, ~Exists(t)
  PROVE  /\ token[t] = NoToken /\ ~Linked(t) /\ ~Unrevoked(t)
         /\ \A u \in Tokens : token[u].next # t /\ token[u].root # t
<1>1. token[t] = NoToken
  BY DEF TokensOK, TokenOK
<1>2. ASSUME NEW u \in Tokens PROVE token[u].next # t /\ token[u].root # t
  <2>1. CASE Exists(u)
    BY <2>1, TokenFacts DEF TokensOK, TokenOK
  <2>2. CASE ~Exists(u)
    BY <2>2, TokenFacts, NoTokenType DEF TokensOK, TokenOK
  <2>3. QED
    BY <2>1, <2>2
<1>3. QED
  BY <1>1, <1>2, NoTokenType DEF Linked, Unrevoked

\* The session of an heir is that of the row that names it
LEMMA SameSession ==
  ASSUME TypeOK, TokensOK, NEW t \in Tokens, token[t].next # 0
  PROVE  /\ token[t].next \in Tokens /\ Exists(token[t].next) /\ Exists(t)
         /\ Linked(token[t].next)
         /\ token[token[t].next].root = token[t].root
  BY NoTokenType DEF TokensOK, TokenOK, Linked

-----------------------------------------------------------------------------
(* What every step keeps                                                   *)

\* Rows keep what they were issued with, and what is over is over
Evolves ==
  /\ kind' = kind /\ Newest <= Newest' /\ (Deleted => Deleted') /\ (lowered => lowered')
  /\ \A t \in Tokens : Exists(t) =>
       /\ Exists(t)' /\ token'[t].root = token[t].root /\ token'[t].tv = token[t].tv
       /\ Linked(t) => Linked(t)'
       /\ ~Unrevoked(t) => ~Unrevoked(t)'

LEMMA LastingLasts ==
  ASSUME TypeOK, TypeOK', Evolves, NEW c \in Call, Lasting(c)
  PROVE  Lasting(c)'
<1>1. c.token \in Tokens =>
        /\ Exists(c.token) /\ Exists(c.token)' /\ token'[c.token].root = token[c.token].root
        /\ token'[c.token].tv = token[c.token].tv
        /\ Linked(c.token) => Linked(c.token)'
        /\ ~Unrevoked(c.token) => ~Unrevoked(c.token)'
  BY DEF Lasting, Evolves
<1>2. c.next # 0 =>
        /\ c.next \in Tokens /\ Exists(c.next)'
        /\ token'[c.next].root = token[c.next].root
        /\ Linked(c.next) => Linked(c.next)'
  BY DEF Lasting, Evolves
<1>3. c.tv <= Newest'
  <2>1. c.tv \in Nat /\ Newest \in Nat /\ Newest' \in Nat
    BY SessionsAssumption, NewestType, NewTypeLater DEF Call
  <2>2. QED
    BY <2>1 DEF Lasting, Evolves
<1>4. kind' = kind
  BY DEF Evolves
<1>5. c.step \in WithHeir => c.step \in WithToken
  BY DEF WithHeir, WithToken
<1>6. c.step \in {"account", "create", "take", "discard", "again"} => c.step \in WithToken
  BY DEF WithToken
<1>7. QED
  BY <1>1, <1>2, <1>3, <1>4, <1>5, <1>6 DEF Lasting

LEMMA ApartStays ==
  ASSUME Evolves, NEW c, NEW e, Apart(c, e),
         \A x \in {c, e} : x.step \in {"create", "link"} => x.token \in Tokens /\ Exists(x.token)
  PROVE  Apart(c, e)'
  BY DEF Apart, Evolves

\* Rows are revoked, expire or are deleted; none is issued or linked
Wears ==
  /\ kind' = kind /\ Newest <= Newest' /\ (Deleted => Deleted') /\ (lowered => lowered')
  /\ \A t \in Tokens :
       /\ token'[t].root = token[t].root /\ token'[t].tv = token[t].tv
       /\ token'[t].next = token[t].next
       /\ Exists(t)' <=> Exists(t)
       /\ Unrevoked(t)' => Unrevoked(t)
       /\ ~Exists(t) => token'[t] = token[t]
       /\ token'[t].state = "gone" /\ Linked(t) => token[t].state = "gone" \/ Deleted'

LEMMA WearsEvolves ==
  ASSUME Wears
  PROVE  Evolves /\ \A t \in Tokens : Linked(t)' <=> Linked(t)
<1>1. \A t \in Tokens : Linked(t)' <=> Linked(t)
  BY DEF Wears, Linked
<1>2. QED
  BY <1>1 DEF Wears, Evolves

LEMMA WearsTokens ==
  ASSUME TypeOK, TypeOK', TokensOK, Wears
  PROVE  TokensOK'
<1> SUFFICES ASSUME NEW t \in Tokens PROVE TokenOK(t)'
  BY DEF TokensOK
<1>1. TokenOK(t)
  BY DEF TokensOK
<1>2. \A u \in Tokens : /\ token'[u].root = token[u].root /\ (Exists(u)' <=> Exists(u))
                        /\ Unrevoked(u)' => Unrevoked(u)
  BY DEF Wears
<1>3. /\ token'[t].tv = token[t].tv /\ token'[t].next = token[t].next
      /\ ~Exists(t) => token'[t] = token[t]
      /\ token'[t].state = "gone" /\ Linked(t) => token[t].state = "gone" \/ Deleted'
      /\ Linked(t)' => Linked(t)
      /\ Deleted => Deleted'
  BY WearsEvolves DEF Wears
<1>4. Exists(t) => token[t].tv <= Newest'
  <2>1. token[t].tv \in Nat /\ Newest \in Nat /\ Newest' \in Nat
    BY SessionsAssumption, NewestType, NewTypeLater DEF TypeOK, Token
  <2>2. QED
    BY <1>1, <2>1 DEF TokenOK, Wears
<1>5. Exists(t) => token[t].root \in Tokens
  BY <1>1 DEF TokenOK
<1>6. token[t].next # 0 => token[t].next \in Tokens
  BY <1>1 DEF TokenOK
<1>7. QED
  BY <1>1, <1>2, <1>3, <1>4, <1>5, <1>6 DEF TokenOK

LEMMA WearsCall ==
  ASSUME TypeOK, TypeOK', TokensOK, Wears, NEW c \in Call, CallOK(c),
         c.step \in {"swap", "link"} /\ token'[c.next].state = "gone" =>
           token[c.next].state = "gone" \/ Deleted'
  PROVE  CallOK(c)'
<1>1. Lasting(c)' /\ Lasting(c)
  BY LastingLasts, WearsEvolves DEF CallOK
<1>2. c.step \in WithHeir => ~Linked(c.next)'
  <2>1. c.step \in WithHeir => c.next \in Tokens /\ ~Linked(c.next)
    BY DEF CallOK, Lasting, Delicate
  <2>2. QED
    BY <2>1, WearsEvolves
<1>3. c.step \in {"swap", "link"} /\ token'[c.next].state = "gone" => Deleted'
  BY DEF CallOK, Delicate, Wears
<1>4. ASSUME kind' = "store", c.step \in {"create", "link"}
      PROVE  /\ token'[c.token].next = 0
             /\ \A t \in Tokens :
                  Linked(t)' /\ token'[t].root = token'[c.token].root => ~Unrevoked(t)'
  <2>1. c.token \in Tokens /\ kind = "store"
    BY <1>1, <1>4 DEF Lasting, WithToken, Wears
  <2>2. /\ token[c.token].next = 0
        /\ \A t \in Tokens : Linked(t) /\ token[t].root = token[c.token].root => ~Unrevoked(t)
    BY <1>4, <2>1 DEF CallOK, Delicate
  <2>3. QED
    BY <2>1, <2>2, WearsEvolves DEF Wears
<1>5. QED
  BY <1>1, <1>2, <1>3, <1>4 DEF CallOK, Delicate

\* Sessions are ended: by revoking them all, or by a new version of the account
Closes ==
  \/ closed' = closed
  \/ /\ closed' = closed \cup Roots
     /\ \/ kind = "customer" /\ \A t \in Tokens : ~Unrevoked(t)'
        \/ kind = "store" /\ account.tv < account'.tv

LEMMA WearsSessions ==
  ASSUME IInv, TypeOK', Wears, Closes
  PROVE  SessionsOK'
<1>0. /\ SessionsOK /\ TokensOK /\ kind' = kind
      /\ \A t \in Tokens : /\ token'[t].root = token[t].root /\ token'[t].tv = token[t].tv
                           /\ Linked(t)' <=> Linked(t)
                           /\ Exists(t)' <=> Exists(t)
                           /\ Unrevoked(t)' => Unrevoked(t)
  BY WearsEvolves DEF IInv, Wears
<1>1. \A t, u \in Tokens :
        /\ Linked(t)' /\ Unrevoked(t)' /\ Linked(u)' /\ Unrevoked(u)'
        /\ token'[t].root = token'[u].root
        => t = u
  BY <1>0 DEF SessionsOK
<1>2. ASSUME kind' = "customer", NEW t \in Tokens, Linked(t)', Unrevoked(t)'
      PROVE  token'[t].root \notin closed'
  BY <1>0, <1>2 DEF SessionsOK, Closes
<1>3. ASSUME kind' = "store", ~lowered', NEW t \in Tokens, Exists(t)',
             token'[t].tv = account'.tv
      PROVE  token'[t].root \notin closed'
  <2>0. ~lowered
    BY <1>3 DEF Wears
  <2>1. token[t].tv <= Newest /\ Newest <= Newest'
        /\ token[t].tv \in Nat /\ account.tv \in Nat /\ account'.tv \in Nat
    BY <1>0, <1>3, SessionsAssumption DEF Wears, TokensOK, TokenOK, TypeOK, IInv, Token, Account
  <2>2. token[t].tv = account.tv /\ ~(account.tv < account'.tv)
    BY <1>0, <1>3, <2>0, <2>1 DEF Newest
  <2>3. QED
    BY <1>0, <1>3, <2>0, <2>2 DEF SessionsOK, Closes
<1>4. ASSUME NEW r \in closed' PROVE Exists(r)'
  <2>1. CASE r \in closed
    BY <1>0, <2>1 DEF SessionsOK, IInv, TypeOK
  <2>2. CASE r \in Roots
    <3>1. PICK t \in Tokens : Exists(t) /\ r = token[t].root
      BY <2>2 DEF Roots, Exists
    <3>2. r \in Tokens /\ Exists(r)
      BY <1>0, <3>1 DEF TokensOK, TokenOK
    <3>3. QED
      BY <1>0, <3>2
  <2>3. QED
    BY <1>4, <2>1, <2>2 DEF Closes
<1>5. QED
  BY <1>1, <1>2, <1>3, <1>4 DEF SessionsOK

\* Devices only lose what they have
Narrows == \A d \in Devices : held'[d] = held[d] \/ held'[d] \notin Tokens

\* Whose token is revoked without heir has lost it, or every session is over
Revokes ==
  kind = "customer" => \A t \in Tokens :
    token'[t].state = "revoked" /\ token[t].state # "revoked" /\ token'[t].next = 0 =>
      \/ token[t].root \in closed'
      \/ \E d \in Devices : held[d] = t /\ held'[d] \notin Tokens

LEMMA WearsHeld ==
  ASSUME IInv, Wears, Narrows, closed \subseteq closed', Revokes
  PROVE  HeldOK'
<1>0. /\ HeldOK /\ kind' = kind
      /\ \A t \in Tokens : /\ token'[t].root = token[t].root /\ token'[t].next = token[t].next
                           /\ Linked(t)' <=> Linked(t)
                           /\ Exists(t)' <=> Exists(t)
  BY WearsEvolves DEF IInv, Wears
<1>1. \A d \in Devices : held'[d] \in Tokens => held[d] = held'[d] /\ held[d] \in Tokens
  BY DEF Narrows
<1>2. ASSUME NEW d \in Devices, held'[d] \in Tokens
      PROVE  Exists(held[d])' /\ Linked(held[d])'
  <2>1. PICK t \in Tokens : t = held'[d] /\ t = held[d]
    BY <1>1, <1>2
  <2>2. Exists(t)' /\ Linked(t)'
    BY <1>0, <2>1 DEF HeldOK
  <2>3. QED
    BY <2>1, <2>2 DEF Exists, Linked
<1>3. \A d, e \in Devices :
        /\ held'[d] \in Tokens /\ held'[e] \in Tokens
        /\ token'[held'[d]].root = token'[held'[e]].root
        => d = e
  BY <1>0, <1>1 DEF HeldOK
<1>4. ASSUME kind' = "customer", NEW t \in Tokens, token'[t].state = "revoked",
             token'[t].next = 0, token'[t].root \notin closed',
             NEW d \in Devices, held'[d] \in Tokens
      PROVE  token'[held'[d]].root # token'[t].root
  <2>1. held[d] = held'[d] /\ token'[held'[d]].root = token[held[d]].root
        /\ token'[t].root = token[t].root
    BY <1>0, <1>1, <1>4
  <2>2. CASE token[t].state = "revoked"
    BY <1>0, <1>4, <2>1, <2>2 DEF HeldOK
  <2>3. CASE token[t].state # "revoked"
    <3>1. PICK e \in Devices : held[e] = t /\ held'[e] \notin Tokens
      BY <1>0, <1>4, <2>1, <2>3 DEF Revokes
    <3>2. QED
      BY <1>0, <1>4, <2>1, <3>1 DEF HeldOK
  <2>4. QED
    BY <2>2, <2>3
<1>5. QED
  BY <1>2, <1>3, <1>4 DEF HeldOK

\* A request takes up neither the heir of a new session nor its first token
Clear(p, c) ==
  /\ ~NewBorn(c)
  /\ \A q \in Procs \ {p} : NewBorn(calls[q]) =>
       c.token # calls[q].next /\ c.next # calls[q].next

LEMMA UnbornKept ==
  ASSUME IInv, TypeOK',
         NEW p, NEW c,
         \/ calls' = [calls EXCEPT ![p] = c] /\ Clear(p, c)
         \/ UNCHANGED calls,
         \A q \in Procs, r \in Tokens :
           NewBorn(calls[q]) /\ calls'[q] = calls[q] /\ calls[q].next = r => Untouched(r)'
  PROVE  Unborn'
<1> SUFFICES ASSUME NEW q \in Procs, NewBorn(calls'[q])
             PROVE  /\ Untouched(calls[q].next)'
                    /\ \A z \in Procs : /\ calls'[z].token # calls'[q].next
                                        /\ z # q => calls'[z].next # calls'[q].next
  BY DEF Unborn
<1>0. calls \in [Procs -> Call]
  BY DEF IInv, TypeOK
<1>1. calls'[q] = calls[q] /\ NewBorn(calls[q])
  BY <1>0 DEF Clear
<1>2. Lasting(calls[q])
  BY DEF IInv, CallsOK, CallOK
<1>3. calls[q].next \in Tokens
  BY <1>1, <1>2 DEF Lasting, NewBorn
<1>4. PICK r \in Tokens : r = calls[q].next
  BY <1>3
<1>5. Untouched(r)'
  BY <1>1, <1>4
<1>6. Untouched(calls[q].next)'
  BY <1>1, <1>4, <1>5 DEF Untouched
<1>7. ASSUME NEW z \in Procs
      PROVE  /\ calls'[z].token # calls'[q].next
             /\ z # q => calls'[z].next # calls'[q].next
  <2>1. CASE calls'[z] = calls[z]
    BY <1>1, <2>1 DEF IInv, Unborn
  <2>2. CASE calls'[z] # calls[z]
    <3>1. z = p /\ calls'[z] = c /\ q # p /\ Clear(p, c)
      BY <1>0, <1>1, <2>2
    <3>2. QED
      BY <1>1, <3>1 DEF Clear
  <2>3. QED
    BY <2>1, <2>2
<1>8. QED
  BY <1>6, <1>7

LEMMA WearsUntouched ==
  ASSUME IInv, Wears, Narrows, closed \subseteq closed', Revokes,
         NEW q \in Procs, NewBorn(calls[q]), NEW r \in Tokens, calls[q].next = r
  PROVE  Untouched(r)'
<1>1. Untouched(r)
  BY DEF IInv, Unborn
<1>2. \A d \in Devices : held[d] # r /\ held'[d] # r
  BY <1>1 DEF Untouched, Narrows
<1>3. kind = "customer" /\ token'[r].state = "revoked" => r \in closed'
  BY <1>1, <1>2 DEF Untouched, Revokes, Wears
<1>4. QED
  BY <1>1, <1>2, <1>3 DEF Untouched, Wears

\* What a request takes up is apart from what the others have
Aparts(p, c) ==
  /\ c.step \in {"create", "link"} => c.token \in Tokens /\ Exists(c.token)
  /\ \A q \in Procs \ {p} : Apart(c, calls[q]) /\ Apart(calls[q], c)

LEMMA CallsKept ==
  ASSUME IInv, TypeOK', Evolves,
         NEW p, NEW c \in Call,
         \/ calls' = [calls EXCEPT ![p] = c] /\ Aparts(p, c) /\ CallOK(c)'
         \/ UNCHANGED calls,
         \A q \in Procs, e \in Call : e = calls[q] /\ e = calls'[q] => Delicate(e)'
  PROVE  CallsOK'
<1>0. calls \in [Procs -> Call] /\ calls' \in [Procs -> Call]
  BY DEF IInv, TypeOK
<1>1. ASSUME NEW q \in Procs PROVE CallOK(calls[q])'
  <2>1. PICK e \in Call : e = calls'[q]
    BY <1>0
  <2>2. CallOK(e)'
    <3>1. CASE e = calls[q]
      <4>1. Lasting(e)
        BY <3>1 DEF IInv, CallsOK, CallOK
      <4>2. QED
        BY <2>1, <3>1, <4>1, LastingLasts DEF IInv, CallOK
    <3>2. CASE e # calls[q]
      BY <1>0, <2>1, <3>2
    <3>3. QED
      BY <3>1, <3>2
  <2>3. QED
    BY <2>1, <2>2 DEF CallOK, Lasting, Delicate
<1>2. ASSUME NEW q \in Procs, NEW z \in Procs, q # z PROVE Apart(calls[q], calls[z])'
  <2>1. PICK e \in Call, f \in Call : e = calls'[q] /\ f = calls'[z]
    BY <1>0
  <2>2. \A y \in Procs : calls[y].step \in {"create", "link"}
                           => calls[y].token \in Tokens /\ Exists(calls[y].token)
    BY DEF IInv, CallsOK, CallOK, Lasting, WithToken
  <2>3. \A x \in {e, f} : x.step \in {"create", "link"} => x.token \in Tokens /\ Exists(x.token)
    BY <1>0, <2>1, <2>2 DEF Aparts
  <2>4. Apart(e, f)
    <3>1. \A y, x \in Procs : y # x => Apart(calls[y], calls[x])
      BY DEF IInv, CallsOK
    <3>2. QED
      BY <1>0, <1>2, <2>1, <3>1 DEF Aparts
  <2>5. Apart(e, f)'
    BY <2>3, <2>4, ApartStays
  <2>6. QED
    BY <2>1, <2>5 DEF Apart
<1>3. QED
  BY <1>1, <1>2 DEF CallsOK

\* Only a request that has verified a code opens its session
CodesKeep(c, was) ==
  /\ c.step \in {"reserve", "claim", "activate"} => c.code \in Codes
  /\ c.step \in {"activate", "issue"} /\ c.code # 0 =>
       was.step \in {"activate", "issue"} /\ was.code = c.code

LEMMA CodesKept ==
  ASSUME IInv, uses' = uses,
         \A c \in Codes : code'[c].state = code[c].state /\ code'[c].attempts = code[c].attempts,
         \A p \in Procs : calls'[p] = calls[p] \/ CodesKeep(calls'[p], calls[p])
  PROVE  CodesOK'
<1>0. CodesOK
  BY DEF IInv
<1>1. \A p \in Procs, c \in Codes : Winner(p, c)' => Winner(p, c)
  BY CodeFacts DEF Winner, CodesKeep
<1>2. \A p \in Procs : calls'[p].step \in {"reserve", "claim", "activate"} => calls'[p].code \in Codes
  BY <1>0 DEF CodesOK, CodesKeep
<1>3. QED
  BY <1>0, <1>1, <1>2 DEF CodesOK

LEMMA ClearOf ==
  ASSUME IInv, NEW p \in Procs, NEW c, ~NewBorn(c),
         c.token \in {calls[p].token, Null, Legacy} \cup {held[d] : d \in Devices},
         c.next \in {calls[p].next, 0} \cup {token[t].next : t \in Tokens}
  PROVE  Clear(p, c)
<1> SUFFICES ASSUME NEW q \in Procs \ {p}, NewBorn(calls[q])
             PROVE  c.token # calls[q].next /\ c.next # calls[q].next
  BY DEF Clear
<1>1. calls[q].next \in Tokens
  BY DEF IInv, CallsOK, CallOK, Lasting, NewBorn
<1>2. /\ Untouched(calls[q].next)
      /\ calls[p].token # calls[q].next /\ calls[p].next # calls[q].next
  BY DEF IInv, Unborn
<1>3. \A t \in Tokens : token[t].next # calls[q].next
  <2>1. ASSUME NEW t \in Tokens, token[t].next = calls[q].next PROVE FALSE
    <3>1. token[t].root = token[calls[q].next].root
      BY <1>1, <2>1, TokenFacts, SameSession DEF IInv
    <3>2. t = calls[q].next
      BY <1>2, <3>1 DEF Untouched
    <3>3. QED
      BY <1>1, <1>2, <2>1, <3>2, TokenFacts DEF Untouched
  <2>2. QED
    BY <2>1
<1>4. \A d \in Devices : held[d] # calls[q].next
  BY <1>2 DEF Untouched
<1>5. QED
  BY <1>1, <1>2, <1>3, <1>4, TokenFacts

\* A call with nothing to keep apart
Plain(c) == c.step \notin WithHeir \cup {"create", "link"}

LEMMA PlainAparts ==
  ASSUME NEW p, NEW c, Plain(c)
  PROVE  Aparts(p, c)
  BY DEF Plain, Aparts, Apart

-----------------------------------------------------------------------------
(* Steps that issue and link nothing                                       *)

LEMMA WearStep ==
  ASSUME IInv, TypeOK', CodesOK', Wears, Closes, Narrows, Revokes, NEW p, NEW c \in Call,
         \/ calls' = [calls EXCEPT ![p] = c] /\ Aparts(p, c) /\ Clear(p, c) /\ CallOK(c)'
         \/ UNCHANGED calls,
         \A q \in Procs, e \in Call : e = calls[q] /\ e = calls'[q] =>
           (e.step \in {"swap", "link"} /\ token'[e.next].state = "gone" =>
              token[e.next].state = "gone" \/ Deleted')
  PROVE  IInv'
<1>1. Evolves /\ closed \subseteq closed'
  BY WearsEvolves DEF Closes
<1>2. TokensOK' /\ SessionsOK' /\ HeldOK'
  BY <1>1, WearsTokens, WearsSessions, WearsHeld DEF IInv
<1>3. Unborn'
  <2>1. \A q \in Procs, r \in Tokens :
          NewBorn(calls[q]) /\ calls[q].next = r => Untouched(r)'
    BY <1>1, WearsUntouched
  <2>2. QED
    BY <2>1, UnbornKept
<1>4. CallsOK'
  <2>1. ASSUME NEW q \in Procs, NEW e \in Call, e = calls[q], e = calls'[q]
        PROVE  Delicate(e)'
    <3>1. CallOK(e)
      BY <2>1 DEF IInv, CallsOK
    <3>2. CallOK(e)'
      BY <2>1, <3>1, WearsCall DEF IInv
    <3>3. QED
      BY <3>2 DEF CallOK
  <2>2. QED
    BY <1>1, <2>1, CallsKept
<1>5. QED
  BY <1>2, <1>3, <1>4 DEF IInv

\* Steps that do not touch the tokens either
LEMMA CallStep ==
  ASSUME IInv, TypeOK', CodesOK', Narrows, UNCHANGED <<kind, token, closed, lowered>>,
         account'.tv = account.tv, Deleted => Deleted', NEW p, NEW c \in Call,
         \/ calls' = [calls EXCEPT ![p] = c] /\ Aparts(p, c) /\ Clear(p, c) /\ CallOK(c)
         \/ UNCHANGED calls
  PROVE  IInv'
<1>1. Wears
  <2>1. Newest <= Newest' /\ (lowered => lowered')
    BY NewestSame DEF IInv
  <2>2. QED
    BY <2>1 DEF Wears, Exists, Unrevoked
<1>2. Closes /\ Revokes
  BY DEF Closes, Revokes
<1>3. CallOK(c) => CallOK(c)'
  BY <1>1, WearsCall DEF IInv
<1>4. QED
  BY <1>1, <1>2, <1>3, WearStep

LEMMA EndedCall ==
  ASSUME IInv, NEW p \in Procs
  PROVE  /\ Aparts(p, IdleCall) /\ Clear(p, IdleCall) /\ CallOK(IdleCall)
         /\ \A was : CodesKeep(IdleCall, was)
         /\ [calls EXCEPT ![p] = IdleCall] \in [Procs -> Call]
         /\ [calls EXCEPT ![p] = IdleCall][p] = IdleCall
         /\ \A q \in Procs \ {p} : [calls EXCEPT ![p] = IdleCall][q] = calls[q]
<1>1. IdleCall \in Call /\ Plain(IdleCall)
  BY IdleType DEF Plain, WithHeir
<1>2. Aparts(p, IdleCall) /\ CallOK(IdleCall) /\ ~NewBorn(IdleCall)
  BY <1>1, PlainAparts, IdleOK DEF IInv
<1>3. Clear(p, IdleCall)
  BY <1>2, IdleType, ClearOf
<1>4. \A was : CodesKeep(IdleCall, was)
  BY IdleType DEF CodesKeep
<1>5. QED
  BY <1>1, <1>2, <1>3, <1>4 DEF IInv, TypeOK

\* The same request one step further
LEMMA NextCall ==
  ASSUME IInv, NEW p \in Procs,
         NEW x \in {"sms", "reserve", "claim", "activate", "issue", "account", "grace",
                    "create", "swap", "discard", "again", "take", "link", "close", "reply",
                    "end"},
         Step(p, x)
  PROVE  \E c \in Call :
           /\ calls' = [calls EXCEPT ![p] = c]
           /\ c.step = x /\ c.device = calls[p].device /\ c.token = calls[p].token
           /\ c.next = calls[p].next /\ c.tv = calls[p].tv /\ c.code = calls[p].code
<1> DEFINE c == [calls[p] EXCEPT !.step = x]
<1>1. calls[p] \in Call
  BY DEF IInv, TypeOK
<1>2. /\ c \in Call
      /\ c.step = x /\ c.device = calls[p].device /\ c.token = calls[p].token
      /\ c.next = calls[p].next /\ c.tv = calls[p].tv /\ c.code = calls[p].code
  BY <1>1 DEF Call
<1>3. calls' = [calls EXCEPT ![p] = c]
  BY <1>1 DEF Step, Call, IInv, TypeOK
<1>4. QED
  BY <1>2, <1>3

\* What calls and types become when one call is replaced
LEMMA CallSet ==
  ASSUME IInv, NEW p \in Procs, NEW c \in Call, calls' = [calls EXCEPT ![p] = c]
  PROVE  /\ calls' \in [Procs -> Call] /\ calls'[p] = c
         /\ \A q \in Procs \ {p} : calls'[q] = calls[q]
  BY DEF IInv, TypeOK

LEMMA DropOK ==
  ASSUME IInv, NEW p \in Procs, Drop(p)
  PROVE  IInv'
<1>1. calls' = [calls EXCEPT ![p] = IdleCall]
      /\ UNCHANGED <<kind, account, code, token, held, uses, closed, lowered>>
  BY DEF Drop, End
<1>2. TypeOK'
  BY <1>1, EndedCall DEF IInv, TypeOK
<1>3. CodesOK'
  BY <1>1, EndedCall, CodesKept
<1>4. QED
  BY <1>1, <1>2, <1>3, EndedCall, IdleType, CallStep DEF Narrows, Deleted

LEMMA LoginOK ==
  ASSUME IInv, NEW p \in Procs, Login(p)
  PROVE  IInv'
<1>1. /\ account' = [account EXCEPT !.status = IF @ = "none" THEN "inactive" ELSE @]
      /\ account.status # "deleted" /\ At(p, "idle") /\ kind = "customer"
      /\ Step(p, "sms") \/ UNCHANGED calls
      /\ UNCHANGED <<kind, code, token, held, uses, closed, lowered>>
  BY DEF Login
<1>2. account' \in Account /\ account'.tv = account.tv
  BY <1>1 DEF IInv, TypeOK, Account
<1>3. CASE UNCHANGED calls
  <2>1. TypeOK'
    BY <1>1, <1>2, <1>3 DEF IInv, TypeOK
  <2>2. CodesOK'
    BY <1>1, <1>3, CodesKept
  <2>3. QED
    BY <1>1, <1>2, <1>3, <2>1, <2>2, IdleType, CallStep DEF Narrows, Deleted
<1>4. CASE Step(p, "sms")
  <2>1. PICK c \in Call :
          /\ calls' = [calls EXCEPT ![p] = c] /\ c.step = "sms"
          /\ c.token = calls[p].token /\ c.next = calls[p].next /\ c.tv = calls[p].tv
    BY <1>4, NextCall
  <2>2. calls[p] = IdleCall
    BY <1>1 DEF IInv, CallsOK, CallOK, Lasting, At
  <2>3. CallOK(c) /\ Plain(c)
    <3>1. Newest \in Nat
      BY NewestType DEF IInv
    <3>2. QED
      BY <2>1, <2>2, <3>1, IdleType, TokenFacts
         DEF CallOK, Lasting, Delicate, WithToken, WithHeir, WithNone, Plain
  <2>4. Aparts(p, c)
    BY <2>3, PlainAparts
  <2>5. Clear(p, c)
    BY <2>1, ClearOf DEF NewBorn
  <2>6. TypeOK'
    BY <1>1, <1>2, <2>1, CallSet DEF IInv, TypeOK
  <2>7. CodesOK'
    BY <1>1, <2>1, CallSet, CodesKept DEF CodesKeep
  <2>8. QED
    BY <1>1, <1>2, <2>1, <2>3, <2>4, <2>5, <2>6, <2>7, CallStep DEF Narrows, Deleted
<1>5. QED
  BY <1>1, <1>3, <1>4

LEMMA SendCodeOK ==
  ASSUME IInv, NEW p \in Procs, NEW c \in Codes, SendCode(p, c)
  PROVE  IInv'
<1>1. /\ calls' = [calls EXCEPT ![p] = IdleCall]
      /\ code' = [code EXCEPT ![c].state = "sent"] /\ code[c].state = "none"
      /\ UNCHANGED <<kind, account, token, held, uses, closed, lowered>>
  BY DEF SendCode, End
<1>2. code \in [Codes -> Code]
  BY DEF IInv, TypeOK
<1>3. code' \in [Codes -> Code]
  BY <1>1, <1>2 DEF Code
<1>4. TypeOK'
  BY <1>1, <1>3, EndedCall DEF IInv, TypeOK
<1>5. CodesOK'
  <2>1. \A b \in Codes : /\ code'[b].attempts = code[b].attempts
                         /\ b # c => code'[b].state = code[b].state
    BY <1>1, <1>2 DEF Code
  <2>2. \A q \in Procs, b \in Codes : Winner(q, b)' => Winner(q, b)
    BY <1>1, EndedCall, IdleType DEF Winner
  <2>3. \A q \in Procs : calls'[q].step \in {"reserve", "claim", "activate"} => calls'[q].code \in Codes
    BY <1>1, EndedCall, IdleType DEF IInv, CodesOK
  <2>4. \A b \in Codes : uses[b].sessions = 0 \/ b # c
    BY <1>1 DEF IInv, CodesOK
  <2>5. QED
    BY <1>1, <2>1, <2>2, <2>3, <2>4 DEF IInv, CodesOK
<1>6. QED
  BY <1>1, <1>4, <1>5, EndedCall, IdleType, CallStep DEF Narrows, Deleted

-----------------------------------------------------------------------------
(* Steps that only carry a request on                                      *)

\* A request goes on with what it or a device has
Carries(p, c) ==
  /\ calls' = [calls EXCEPT ![p] = c] /\ Plain(c) /\ ~NewBorn(c)
  /\ c.token \in {calls[p].token, Null, Legacy} \cup {held[d] : d \in Devices}
  /\ c.next \in {calls[p].next, 0} \cup {token[t].next : t \in Tokens}

LEMMA CarryStep ==
  ASSUME IInv, TypeOK', CodesOK', Narrows, UNCHANGED <<kind, token, closed, lowered>>,
         account'.tv = account.tv, Deleted => Deleted',
         NEW p \in Procs, NEW c \in Call, Carries(p, c), Lasting(c)
  PROVE  IInv'
<1>1. CallOK(c)
  BY DEF CallOK, Delicate, Carries, Plain, WithHeir
<1>2. Aparts(p, c) /\ Clear(p, c)
  BY PlainAparts, ClearOf DEF Carries
<1>3. QED
  BY <1>1, <1>2, CallStep DEF Carries

LEMMA PassStep ==
  ASSUME IInv, Narrows, UNCHANGED <<kind, code, token, uses, closed, lowered>>,
         account' \in Account, account'.tv = account.tv, Deleted => Deleted',
         held' \in [Devices -> Tokens \cup {Legacy, Null}],
         NEW p \in Procs, NEW c \in Call, Carries(p, c), Lasting(c), CodesKeep(c, calls[p])
  PROVE  IInv'
<1>1. /\ calls' \in [Procs -> Call] /\ calls'[p] = c
      /\ \A q \in Procs \ {p} : calls'[q] = calls[q]
  BY CallSet DEF Carries
<1>2. TypeOK'
  BY <1>1 DEF IInv, TypeOK
<1>3. CodesOK'
  BY <1>1, CodesKept
<1>4. QED
  BY <1>2, <1>3, CarryStep

LEMMA EndCarries ==
  ASSUME IInv, NEW p \in Procs, End(p)
  PROVE  Carries(p, IdleCall) /\ Lasting(IdleCall) /\ \A was : CodesKeep(IdleCall, was)
<1>1. Plain(IdleCall) /\ ~NewBorn(IdleCall) /\ Lasting(IdleCall)
  BY IdleType, IdleOK DEF IInv, Plain, WithHeir, CallOK
<1>2. QED
  BY <1>1, IdleType, EndedCall DEF Carries, End

\* A refused device has no more than it had
LEMMA RefusedOK ==
  ASSUME IInv, NEW d, NEW t, Refused(d, t)
  PROVE  Narrows /\ held' \in [Devices -> Tokens \cup {Legacy, Null}]
  BY TokenFacts DEF IInv, TypeOK, Refused, Narrows

LEMMA RefuseOK ==
  ASSUME IInv, NEW p \in Procs, Refuse(p), UNCHANGED <<kind, account, code, token, uses, closed, lowered>>
  PROVE  IInv'
<1>1. End(p) /\ Refused(calls[p].device, calls[p].token)
  BY DEF Refuse
<1>2. Narrows /\ held' \in [Devices -> Tokens \cup {Legacy, Null}]
  BY <1>1, RefusedOK
<1>3. account' \in Account
  BY DEF IInv, TypeOK
<1>4. QED
  BY <1>1, <1>2, <1>3, EndCarries, IdleType, PassStep DEF Deleted

LEMMA VerifyBeginOK ==
  ASSUME IInv, NEW p \in Procs, NEW d \in Devices, NEW c \in Codes, VerifyBegin(p, d, c)
  PROVE  IInv'
<1> DEFINE e == [IdleCall EXCEPT !.step = "reserve", !.device = d, !.code = c]
<1>1. /\ calls' = [calls EXCEPT ![p] = e]
      /\ UNCHANGED <<kind, account, code, token, held, uses, closed, lowered>>
  BY DEF VerifyBegin, Begin
<1>2. /\ e \in Call /\ e.step = "reserve" /\ e.device = d /\ e.code = c
      /\ e.token = Null /\ e.next = 0 /\ e.tv = 0
  BY IdleType, CodeFacts DEF IdleCall, Call
<1> HIDE DEF e
<1>3. Lasting(e)
  <2>1. Newest \in Nat
    BY NewestType DEF IInv
  <2>2. QED
    BY <1>2, <2>1, TokenFacts DEF Lasting, WithToken, WithHeir, WithNone
<1>4. Carries(p, e) /\ CodesKeep(e, calls[p])
  BY <1>1, <1>2 DEF Carries, CodesKeep, Plain, NewBorn, WithHeir
<1>5. QED
  BY <1>1, <1>2, <1>3, <1>4, PassStep DEF Narrows, Deleted, IInv, TypeOK

LEMMA StoreLoginOK ==
  ASSUME IInv, NEW p \in Procs, NEW d \in Devices, StoreLogin(p, d)
  PROVE  IInv'
<1> DEFINE e == [IdleCall EXCEPT !.step = "issue", !.device = d, !.tv = account.tv]
<1>1. /\ calls' = [calls EXCEPT ![p] = e]
      /\ UNCHANGED <<kind, account, code, token, held, uses, closed, lowered>>
  BY DEF StoreLogin, Begin
<1>2. account.tv \in 0 .. MaxVersion /\ account.tv \in Nat /\ account.tv <= Newest
  BY NewestType DEF IInv
<1>3. /\ e \in Call /\ e.step = "issue" /\ e.device = d /\ e.code = 0
      /\ e.token = Null /\ e.next = 0 /\ e.tv = account.tv
  BY <1>2, IdleType DEF IdleCall, Call
<1> HIDE DEF e
<1>4. Lasting(e)
  BY <1>2, <1>3, TokenFacts DEF Lasting, WithToken, WithHeir, WithNone
<1>5. Carries(p, e) /\ CodesKeep(e, calls[p])
  BY <1>1, <1>3 DEF Carries, CodesKeep, Plain, NewBorn, WithHeir
<1>6. QED
  BY <1>1, <1>3, <1>4, <1>5, PassStep DEF Narrows, Deleted, IInv, TypeOK

LEMMA UpgradeOK ==
  ASSUME IInv, NEW p \in Procs, NEW d \in Devices, Upgrade(p, d)
  PROVE  IInv'
<1>1. UNCHANGED <<kind, account, code, token, uses, closed, lowered>> /\ held[d] = Legacy
  BY DEF Upgrade
<1>2. CASE account.status = "active" /\ account.legacy
  <2> DEFINE e == [IdleCall EXCEPT !.step = "spend", !.device = d, !.token = Legacy,
                                   !.tv = account.tv]
  <2>1. calls' = [calls EXCEPT ![p] = e] /\ UNCHANGED held
    BY <1>2 DEF Upgrade, Begin
  <2>2. account.tv \in 0 .. MaxVersion /\ account.tv \in Nat /\ account.tv <= Newest
    BY NewestType DEF IInv
  <2>3. /\ e \in Call /\ e.step = "spend" /\ e.device = d /\ e.code = 0
        /\ e.token = Legacy /\ e.next = 0 /\ e.tv = account.tv
    BY <2>2, IdleType DEF IdleCall, Call
  <2> HIDE DEF e
  <2>4. Lasting(e)
    BY <2>2, <2>3, TokenFacts DEF Lasting, WithToken, WithHeir, WithNone
  <2>5. Carries(p, e) /\ CodesKeep(e, calls[p])
    BY <2>1, <2>3 DEF Carries, CodesKeep, Plain, NewBorn, WithHeir
  <2>6. QED
    BY <1>1, <2>1, <2>3, <2>4, <2>5, PassStep DEF Narrows, Deleted, IInv, TypeOK
<1>3. CASE ~(account.status = "active" /\ account.legacy)
  <2>1. Refused(d, Legacy) /\ UNCHANGED calls
    BY <1>3 DEF Upgrade
  <2>2. Narrows /\ held' \in [Devices -> Tokens \cup {Legacy, Null}]
    BY <2>1, RefusedOK
  <2>3. TypeOK'
    BY <1>1, <2>1, <2>2 DEF IInv, TypeOK
  <2>4. CodesOK'
    BY <1>1, <2>1, CodesKept
  <2>5. QED
    BY <1>1, <2>1, <2>2, <2>3, <2>4, IdleType, CallStep DEF Deleted
<1>4. QED
  BY <1>2, <1>3

LEMMA ReserveOK ==
  ASSUME IInv, NEW p \in Procs, NEW right \in BOOLEAN, Reserve(p, right)
  PROVE  IInv'
<1> DEFINE b == calls[p].code
<1>1. UNCHANGED <<kind, account, token, held, closed, lowered>> /\ calls[p].step = "reserve"
  BY DEF Reserve, At
<1>2. b \in Codes /\ Lasting(calls[p])
  BY <1>1 DEF IInv, CodesOK, CallsOK, CallOK
<1> HIDE DEF b
<1>3. CASE ~(code[b].state = "sent" /\ code[b].attempts < MaxAttempts)
  <2>1. End(p) /\ UNCHANGED <<code, uses>>
    BY <1>3 DEF Reserve, b
  <2>2. QED
    BY <1>1, <2>1, EndCarries, IdleType, PassStep DEF Narrows, Deleted, IInv, TypeOK
<1>4. CASE code[b].state = "sent" /\ code[b].attempts < MaxAttempts
  <2>1. /\ code' = [code EXCEPT ![b].attempts = @ + 1]
        /\ uses' = [uses EXCEPT ![b].tried = @ + 1]
        /\ Step(p, "claim") \/ End(p)
    BY <1>4 DEF Reserve, b
  <2>2. code \in [Codes -> Code] /\ uses \in [Codes -> [tried : Nat, sessions : Nat]]
    BY DEF IInv, TypeOK
  <2>3. /\ code' \in [Codes -> Code] /\ uses' \in [Codes -> [tried : Nat, sessions : Nat]]
        /\ code'[b].attempts = code[b].attempts + 1 /\ uses'[b].tried = uses[b].tried + 1
        /\ \A x \in Codes : /\ code'[x].state = code[x].state
                            /\ uses'[x].sessions = uses[x].sessions
        /\ \A x \in Codes \ {b} : code'[x] = code[x] /\ uses'[x] = uses[x]
    <3>1. code[b] \in Code /\ code[b].attempts + 1 \in 0 .. MaxAttempts
      BY <1>2, <1>4, <2>2, SessionsAssumption DEF Code
    <3>2. QED
      BY <1>2, <2>1, <2>2, <3>1 DEF Code
  <2>4. PICK c \in Call : /\ Carries(p, c) /\ Lasting(c) /\ c.step \in {"claim", "idle"}
                          /\ c.step = "claim" => c.code = b
    <3>1. CASE End(p)
      BY <3>1, EndCarries, IdleType
    <3>2. CASE Step(p, "claim")
      <4>1. PICK c \in Call :
              /\ calls' = [calls EXCEPT ![p] = c]
              /\ c.step = "claim" /\ c.device = calls[p].device /\ c.token = calls[p].token
              /\ c.next = calls[p].next /\ c.tv = calls[p].tv /\ c.code = calls[p].code
        BY <3>2, NextCall
      <4>2. Lasting(c)
        BY <1>1, <1>2, <4>1 DEF Lasting, WithToken, WithHeir, WithNone
      <4>3. Carries(p, c)
        BY <4>1 DEF Carries, Plain, NewBorn, WithHeir
      <4>4. QED
        BY <4>1, <4>2, <4>3 DEF b
    <3>3. QED
      BY <2>1, <3>1, <3>2
  <2>5. /\ calls' \in [Procs -> Call] /\ calls'[p] = c
        /\ \A q \in Procs \ {p} : calls'[q] = calls[q]
    BY <2>4, CallSet DEF Carries
  <2>6. TypeOK'
    BY <1>1, <2>3, <2>5 DEF IInv, TypeOK
  <2>7. CodesOK'
    <3>1. \A q \in Procs, x \in Codes : Winner(q, x)' => Winner(q, x)
      BY <2>4, <2>5 DEF Winner
    <3>2. \A q \in Procs : calls'[q].step \in {"reserve", "claim", "activate"} => calls'[q].code \in Codes
      BY <1>2, <2>4, <2>5 DEF IInv, CodesOK
    <3>3. \A x \in Codes : uses'[x].tried = code'[x].attempts
      BY <1>2, <2>3 DEF IInv, CodesOK
    <3>4. QED
      BY <2>3, <3>1, <3>2, <3>3 DEF IInv, CodesOK
  <2>8. QED
    BY <1>1, <2>4, <2>6, <2>7, CarryStep DEF Narrows, Deleted
<1>5. QED
  BY <1>3, <1>4

\* Of the requests that verify a code at the same time one goes on
LEMMA ClaimOK ==
  ASSUME IInv, NEW p \in Procs, Claim(p)
  PROVE  IInv'
<1> DEFINE b == calls[p].code
<1>1. UNCHANGED <<kind, account, token, held, uses, closed, lowered>> /\ calls[p].step = "claim"
  BY DEF Claim, At
<1>2. b \in Codes /\ Lasting(calls[p])
  BY <1>1 DEF IInv, CodesOK, CallsOK, CallOK
<1> HIDE DEF b
<1>3. CASE code[b].state # "sent"
  <2>1. End(p) /\ UNCHANGED code
    BY <1>3 DEF Claim, b
  <2>2. QED
    BY <1>1, <2>1, EndCarries, IdleType, PassStep DEF Narrows, Deleted, IInv, TypeOK
<1>4. CASE code[b].state = "sent"
  <2>1. code' = [code EXCEPT ![b].state = "verified"] /\ Step(p, "activate")
    BY <1>4 DEF Claim, b
  <2>2. code \in [Codes -> Code]
    BY DEF IInv, TypeOK
  <2>3. /\ code' \in [Codes -> Code] /\ code'[b].state = "verified"
        /\ \A x \in Codes : code'[x].attempts = code[x].attempts
        /\ \A x \in Codes \ {b} : code'[x] = code[x]
    BY <1>2, <2>1, <2>2 DEF Code
  <2>4. PICK c \in Call :
          /\ calls' = [calls EXCEPT ![p] = c]
          /\ c.step = "activate" /\ c.device = calls[p].device /\ c.token = calls[p].token
          /\ c.next = calls[p].next /\ c.tv = calls[p].tv /\ c.code = b
    BY <2>1, NextCall DEF b
  <2>5. Lasting(c) /\ Carries(p, c)
    BY <1>1, <1>2, <2>4 DEF Lasting, WithToken, WithHeir, WithNone, Carries, Plain, NewBorn
  <2>6. /\ calls' \in [Procs -> Call] /\ calls'[p] = c
        /\ \A q \in Procs \ {p} : calls'[q] = calls[q]
    BY <2>4, CallSet
  <2>7. TypeOK'
    BY <1>1, <2>3, <2>6 DEF IInv, TypeOK
  <2>8. CodesOK'
    <3>1. uses[b].sessions = 0 /\ \A q \in Procs : ~Winner(q, b)
      BY <1>2, <1>4 DEF IInv, CodesOK
    <3>2. \A q \in Procs, x \in Codes : Winner(q, x)' => Winner(q, x) \/ (q = p /\ x = b)
      BY <2>4, <2>6 DEF Winner
    <3>3. \A q \in Procs : calls'[q].step \in {"reserve", "claim", "activate"} => calls'[q].code \in Codes
      BY <1>2, <2>4, <2>6 DEF IInv, CodesOK
    <3>4. \A x \in Codes : /\ uses'[x].tried = code'[x].attempts
                           /\ uses'[x].sessions <= 1
                           /\ code'[x].state # "verified" => uses'[x].sessions = 0
      BY <1>1, <2>3 DEF IInv, CodesOK
    <3>5. ASSUME NEW q \in Procs, NEW x \in Codes, Winner(q, x)'
          PROVE  /\ code'[x].state = "verified" /\ uses'[x].sessions = 0
                 /\ \A z \in Procs : Winner(z, x)' => z = q
      <4>1. CASE x = b
        BY <1>1, <2>3, <3>1, <3>2, <3>5, <4>1
      <4>2. CASE x # b
        <5>1. \A z \in Procs : Winner(z, x)' => Winner(z, x)
          BY <3>2, <4>2
        <5>2. /\ code[x].state = "verified" /\ uses[x].sessions = 0
              /\ \A z \in Procs : Winner(z, x) => z = q
          BY <3>5, <5>1 DEF IInv, CodesOK
        <5>3. QED
          BY <1>1, <2>3, <4>2, <5>1, <5>2
      <4>3. QED
        BY <4>1, <4>2
    <3>6. QED
      BY <3>3, <3>4, <3>5 DEF CodesOK
  <2>9. QED
    BY <1>1, <2>4, <2>5, <2>7, <2>8, CarryStep DEF Narrows, Deleted
<1>5. QED
  BY <1>3, <1>4

LEMMA ActivateOK ==
  ASSUME IInv, NEW p \in Procs, Activate(p)
  PROVE  IInv'
<1>1. UNCHANGED <<kind, code, token, held, uses, closed, lowered>> /\ calls[p].step = "activate"
  BY DEF Activate, At
<1>2. CASE account.status \in {"none", "deleted"}
  <2>1. End(p) /\ UNCHANGED account
    BY <1>2 DEF Activate
  <2>2. QED
    BY <1>1, <2>1, EndCarries, IdleType, PassStep DEF Narrows, Deleted, IInv, TypeOK
<1>3. CASE account.status \notin {"none", "deleted"}
  <2> DEFINE e == [calls[p] EXCEPT !.step = "issue", !.tv = account.tv]
  <2>1. /\ account' = [account EXCEPT !.status = "active"]
        /\ calls' = [calls EXCEPT ![p].step = "issue", ![p].tv = account.tv]
    BY <1>3 DEF Activate
  <2>2. calls[p] \in Call /\ account \in Account
    BY DEF IInv, TypeOK
  <2>3. account' \in Account /\ account'.tv = account.tv /\ account.tv \in 0 .. MaxVersion
    BY <2>1, <2>2 DEF Account
  <2>4. calls' = [calls EXCEPT ![p] = e]
    BY <2>1, <2>2 DEF Call, IInv, TypeOK
  <2>5. /\ e \in Call /\ e.step = "issue" /\ e.tv = account.tv /\ e.device = calls[p].device
        /\ e.token = calls[p].token /\ e.next = calls[p].next /\ e.code = calls[p].code
    BY <2>2, <2>3 DEF Call
  <2> HIDE DEF e
  <2>6. Lasting(e)
    <3>1. account.tv <= Newest
      BY NewestType DEF IInv
    <3>2. Lasting(calls[p])
      BY DEF IInv, CallsOK, CallOK
    <3>3. QED
      BY <1>1, <2>5, <3>1, <3>2 DEF Lasting, WithToken, WithHeir, WithNone
  <2>7. Carries(p, e) /\ CodesKeep(e, calls[p])
    BY <1>1, <2>4, <2>5 DEF Carries, CodesKeep, Plain, NewBorn, WithHeir
  <2>8. QED
    BY <1>1, <1>3, <2>3, <2>5, <2>6, <2>7, PassStep DEF Narrows, Deleted, IInv, TypeOK
<1>4. QED
  BY <1>2, <1>3

LEMMA SpendOK ==
  ASSUME IInv, NEW p \in Procs, Spend(p)
  PROVE  IInv'
<1>1. /\ account' = [account EXCEPT !.legacy = FALSE] /\ Step(p, "issue")
      /\ calls[p].step = "spend"
      /\ UNCHANGED <<kind, code, token, held, uses, closed, lowered>>
  BY DEF Spend, At
<1>2. account' \in Account /\ account'.tv = account.tv /\ account'.status = account.status
  BY <1>1 DEF IInv, TypeOK, Account
<1>3. PICK c \in Call :
        /\ calls' = [calls EXCEPT ![p] = c]
        /\ c.step = "issue" /\ c.device = calls[p].device /\ c.token = calls[p].token
        /\ c.next = calls[p].next /\ c.tv = calls[p].tv /\ c.code = calls[p].code
  BY <1>1, NextCall
<1>4. Lasting(calls[p])
  BY DEF IInv, CallsOK, CallOK
<1>5. Lasting(c)
  BY <1>1, <1>3, <1>4 DEF Lasting, WithToken, WithHeir, WithNone
<1>6. Carries(p, c) /\ CodesKeep(c, calls[p])
  BY <1>1, <1>3, <1>4 DEF Carries, CodesKeep, Plain, NewBorn, WithHeir, Lasting
<1>7. QED
  BY <1>1, <1>2, <1>5, <1>6, PassStep DEF Narrows, Deleted, IInv, TypeOK

\* What a request that came with a token begins with
LEMMA AskedWith ==
  ASSUME IInv, NEW p \in Procs, NEW d \in Devices, held[d] \in Tokens,
         NEW x \in {"grace", "close", "account"},
         NEW n \in 0 .. MaxTokens, NEW v \in 0 .. MaxVersion,
         x = "grace" => kind = "customer" /\ n # 0,
         n = 0 \/ n = token[held[d]].next,
         v = 0 \/ v = token[held[d]].tv, x = "account" => v = token[held[d]].tv,
         NEW c \in Call, calls' = [calls EXCEPT ![p] = c],
         c.step = x, c.device = d, c.token = held[d], c.next = n, c.tv = v,
         UNCHANGED <<kind, account, code, token, held, uses, closed, lowered>>
  PROVE  IInv'
<1>2. PICK t \in Tokens : t = held[d] /\ Exists(t) /\ Linked(t)
  BY DEF IInv, HeldOK
<1>3. token[t].tv <= Newest /\ 0 <= Newest
  BY <1>2, NewestType DEF IInv, TokensOK, TokenOK
<1>4. n # 0 => n \in Tokens /\ Exists(n) /\ Linked(n) /\ token[n].root = token[t].root
  BY <1>2, SameSession DEF IInv
<1>5. Lasting(c)
  BY <1>2, <1>3, <1>4 DEF Lasting, WithToken, WithHeir, WithNone
<1>6. Carries(p, c) /\ CodesKeep(c, calls[p])
  BY <1>2 DEF Carries, CodesKeep, Plain, NewBorn, WithHeir
<1>7. QED
  BY <1>5, <1>6, PassStep DEF Narrows, Deleted, IInv, TypeOK

LEMMA RefreshOK ==
  ASSUME IInv, NEW p \in Procs, NEW d \in Devices, Refresh(p, d)
  PROVE  IInv'
<1>1. UNCHANGED <<kind, account, code, token, uses, closed, lowered>> /\ held[d] \in Tokens
  BY DEF Refresh, IInv, TypeOK
<1>2. token[held[d]].tv \in 0 .. MaxVersion /\ token[held[d]].next \in 0 .. MaxTokens
      /\ 0 \in 0 .. MaxTokens /\ 0 \in 0 .. MaxVersion
  BY <1>1, SessionsAssumption DEF IInv, TypeOK, Token
<1> DEFINE e(x) == [IdleCall EXCEPT !.step = x, !.device = d, !.token = held[d]]
<1>3. ASSUME NEW x \in {"grace", "close", "account"}
      PROVE  /\ e(x) \in Call
             /\ e(x).step = x /\ e(x).device = d /\ e(x).token = held[d]
             /\ e(x).next = 0 /\ e(x).tv = 0
  BY <1>1, <1>3, CodeFacts, IdleType DEF IdleCall, Call
<1>4. CASE Replaced(held[d]) /\ token[held[d]].window /\ kind = "customer"
  <2> DEFINE f == [e("grace") EXCEPT !.next = token[held[d]].next]
  <2>1. calls' = [calls EXCEPT ![p] = f] /\ UNCHANGED held
    BY <1>4, Zenon DEF Refresh, Begin
  <2>2. token[held[d]].next # 0
    BY <1>4 DEF Replaced
  <2>3. /\ f \in Call /\ f.step = "grace" /\ f.device = d /\ f.token = held[d]
        /\ f.next = token[held[d]].next /\ f.tv = 0
    BY <1>2, <1>3 DEF Call
  <2> HIDE DEF f
  <2>4. QED
    BY <1>1, <1>2, <1>4, <2>1, <2>2, <2>3, AskedWith
<1>5. CASE Replaced(held[d]) /\ ~(token[held[d]].window /\ kind = "customer")
  <2> DEFINE f == e("close")
  <2>1. calls' = [calls EXCEPT ![p] = f] /\ UNCHANGED held
    BY <1>5, Zenon DEF Refresh, Begin
  <2>2. /\ f \in Call /\ f.step = "close" /\ f.device = d /\ f.token = held[d]
        /\ f.next = 0 /\ f.tv = 0
    BY <1>3
  <2> HIDE DEF f
  <2>3. QED
    BY <1>1, <1>2, <2>1, <2>2, AskedWith
<1>6. CASE ~Replaced(held[d]) /\ Live(held[d])
  <2> DEFINE f == [e("account") EXCEPT !.tv = token[held[d]].tv]
  <2>1. calls' = [calls EXCEPT ![p] = f] /\ UNCHANGED held
    BY <1>6, Zenon DEF Refresh, Begin
  <2>2. /\ f \in Call /\ f.step = "account" /\ f.device = d /\ f.token = held[d]
        /\ f.next = 0 /\ f.tv = token[held[d]].tv
    BY <1>2, <1>3 DEF Call
  <2> HIDE DEF f
  <2>3. QED
    BY <1>1, <1>2, <2>1, <2>2, AskedWith
<1>7. CASE ~Replaced(held[d]) /\ ~Live(held[d])
  <2>1. Refused(d, held[d]) /\ UNCHANGED calls
    BY <1>7 DEF Refresh
  <2>2. Narrows /\ held' \in [Devices -> Tokens \cup {Legacy, Null}]
    BY <2>1, RefusedOK
  <2>3. TypeOK'
    BY <1>1, <2>1, <2>2 DEF IInv, TypeOK
  <2>4. CodesOK'
    BY <1>1, <2>1, CodesKept
  <2>5. QED
    BY <1>1, <2>1, <2>2, <2>3, <2>4, IdleType, CallStep DEF Deleted
<1>8. QED
  BY <1>4, <1>5, <1>6, <1>7

LEMMA CheckAccountOK ==
  ASSUME IInv, NEW p \in Procs, CheckAccount(p)
  PROVE  IInv'
<1>1. /\ UNCHANGED <<kind, account, code, token, held, uses, closed, lowered>>
      /\ calls[p].step \in {"account", "grace"}
  BY DEF CheckAccount
<1>2. PICK x \in {"close", "reply", "create", "take"} :
        /\ Step(p, x)
        /\ x = "reply" => calls[p].step = "grace"
        /\ x \in {"create", "take"} => calls[p].step = "account"
        /\ x = "create" <=> (x \in {"create", "take"} /\ kind = "customer")
  BY DEF CheckAccount, At
<1>3. PICK c \in Call :
        /\ calls' = [calls EXCEPT ![p] = c]
        /\ c.step = x /\ c.device = calls[p].device /\ c.token = calls[p].token
        /\ c.next = calls[p].next /\ c.tv = calls[p].tv /\ c.code = calls[p].code
  BY <1>2, NextCall
<1>4. Lasting(calls[p])
  BY DEF IInv, CallsOK, CallOK
<1>5. calls[p].token \in Tokens
  BY <1>1, <1>4 DEF Lasting, WithToken
<1>6. kind \in {"customer", "store"}
  BY DEF IInv, TypeOK
<1>7. Lasting(c) /\ ~NewBorn(c)
  BY <1>1, <1>2, <1>3, <1>4, <1>5, <1>6 DEF Lasting, WithToken, WithHeir, WithNone, NewBorn
<1>8. CallOK(c)
  BY <1>2, <1>3, <1>7 DEF CallOK, Delicate, WithHeir
<1>9. Aparts(p, c) /\ Clear(p, c)
  <2>1. Clear(p, c)
    BY <1>3, <1>7, ClearOf
  <2>2. c.step \in {"create", "link"} => kind = "customer" /\ c.token \in Tokens /\ Exists(c.token)
    BY <1>2, <1>3, <1>4, <1>5 DEF Lasting
  <2>3. c.step \notin WithHeir \cup {"bump", "end"}
    BY <1>2, <1>3 DEF WithHeir
  <2>4. QED
    BY <2>1, <2>2, <2>3 DEF Aparts, Apart
<1>10. CodesKeep(c, calls[p])
  BY <1>2, <1>3 DEF CodesKeep
<1>11. /\ calls' \in [Procs -> Call] /\ calls'[p] = c
       /\ \A q \in Procs \ {p} : calls'[q] = calls[q]
  BY <1>3, CallSet
<1>12. TypeOK'
  BY <1>1, <1>11 DEF IInv, TypeOK
<1>13. CodesOK'
  BY <1>1, <1>10, <1>11, CodesKept
<1>14. QED
  BY <1>1, <1>3, <1>8, <1>9, <1>12, <1>13, CallStep DEF Narrows, Deleted

LEMMA FindAgainOK ==
  ASSUME IInv, NEW p \in Procs, FindAgain(p)
  PROVE  IInv'
<1> DEFINE t == calls[p].token
<1>1. /\ UNCHANGED <<kind, account, code, token, uses, closed, lowered>> /\ calls[p].step = "again"
  BY DEF FindAgain, At
<1>2. Lasting(calls[p]) /\ t \in Tokens /\ kind = "customer"
  BY <1>1 DEF IInv, CallsOK, CallOK, Lasting, WithToken
<1> HIDE DEF t
<1>3. CASE Replaced(t) /\ token[t].window
  <2> DEFINE e == [calls[p] EXCEPT !.step = "reply", !.next = token[t].next]
  <2>1. /\ calls' = [calls EXCEPT ![p].step = "reply", ![p].next = token[t].next]
        /\ UNCHANGED held
    BY <1>3 DEF FindAgain, t
  <2>2. calls[p] \in Call /\ token[t].next \in 0 .. MaxTokens
    BY <1>2 DEF IInv, TypeOK, Token
  <2>3. calls' = [calls EXCEPT ![p] = e]
    BY <2>1, <2>2 DEF Call, IInv, TypeOK
  <2>4. /\ e \in Call /\ e.step = "reply" /\ e.next = token[t].next /\ e.token = t
        /\ e.device = calls[p].device /\ e.tv = calls[p].tv /\ e.code = calls[p].code
    BY <2>2 DEF Call, t
  <2> HIDE DEF e
  <2>5. PICK n \in Tokens : /\ n = token[t].next /\ n # 0 /\ Exists(n) /\ Linked(n)
                            /\ token[n].root = token[t].root
    <3>1. token[t].next # 0
      BY <1>3 DEF Replaced
    <3>2. QED
      BY <1>2, <3>1, SameSession DEF IInv
  <2>6. Lasting(e)
    BY <1>1, <1>2, <2>4, <2>5 DEF Lasting, WithToken, WithHeir, WithNone, t
  <2>7. Carries(p, e) /\ CodesKeep(e, calls[p])
    BY <1>2, <2>3, <2>4 DEF Carries, CodesKeep, Plain, NewBorn, WithHeir, t
  <2>8. QED
    BY <1>1, <2>1, <2>4, <2>6, <2>7, PassStep DEF Narrows, Deleted, IInv, TypeOK
<1>4. CASE Replaced(t) /\ ~token[t].window
  <2>1. Step(p, "close") /\ UNCHANGED held
    BY <1>4 DEF FindAgain, t
  <2>2. PICK c \in Call :
          /\ calls' = [calls EXCEPT ![p] = c]
          /\ c.step = "close" /\ c.device = calls[p].device /\ c.token = calls[p].token
          /\ c.next = calls[p].next /\ c.tv = calls[p].tv /\ c.code = calls[p].code
    BY <2>1, NextCall
  <2>3. Lasting(c)
    BY <1>1, <1>2, <2>2 DEF Lasting, WithToken, WithHeir, WithNone
  <2>4. Carries(p, c) /\ CodesKeep(c, calls[p])
    BY <2>2 DEF Carries, CodesKeep, Plain, NewBorn, WithHeir
  <2>5. QED
    BY <1>1, <2>1, <2>3, <2>4, PassStep DEF Narrows, Deleted, IInv, TypeOK
<1>5. CASE ~Replaced(t)
  <2>1. Refuse(p)
    BY <1>5 DEF FindAgain, t
  <2>2. QED
    BY <1>1, <2>1, RefuseOK
<1>6. QED
  BY <1>3, <1>4, <1>5

\* One new password at a time: its version is the next one when it is written
LEMMA ChangePasswordOK ==
  ASSUME IInv, NEW p \in Procs, ChangePassword(p)
  PROVE  IInv'
<1> DEFINE e == [IdleCall EXCEPT !.step = "bump", !.tv = account.tv]
<1>1. /\ calls' = [calls EXCEPT ![p] = e] /\ kind = "store" /\ account.tv < MaxVersion
      /\ UNCHANGED <<kind, account, code, token, held, uses, closed, lowered>>
  BY DEF ChangePassword, Begin
<1>2. account.tv \in 0 .. MaxVersion /\ account.tv \in Nat /\ account.tv <= Newest
  BY NewestType DEF IInv
<1>3. /\ e \in Call /\ e.step = "bump" /\ e.code = 0
      /\ e.token = Null /\ e.next = 0 /\ e.tv = account.tv
  BY <1>2, IdleType DEF IdleCall, Call
<1> HIDE DEF e
<1>4. CallOK(e)
  BY <1>1, <1>2, <1>3, TokenFacts DEF CallOK, Lasting, Delicate, WithToken, WithHeir, WithNone
<1>5. Aparts(p, e) /\ Clear(p, e)
  <2>1. Clear(p, e)
    BY <1>3, ClearOf DEF NewBorn
  <2>2. QED
    BY <1>3, <2>1 DEF Aparts, Apart, WithHeir
<1>6. CodesKeep(e, calls[p])
  BY <1>3 DEF CodesKeep
<1>7. /\ calls' \in [Procs -> Call] /\ calls'[p] = e
      /\ \A q \in Procs \ {p} : calls'[q] = calls[q]
  BY <1>1, <1>3, CallSet
<1>8. TypeOK'
  BY <1>1, <1>7 DEF IInv, TypeOK
<1>9. CodesOK'
  BY <1>1, <1>6, <1>7, CodesKept
<1>10. QED
  BY <1>1, <1>3, <1>4, <1>5, <1>8, <1>9, CallStep DEF Narrows, Deleted

LEMMA DeleteStaleOK ==
  ASSUME IInv, DeleteStale
  PROVE  IInv'
<1>1. /\ account' = [account EXCEPT !.status = "none"] /\ account.status = "inactive"
      /\ UNCHANGED <<kind, code, token, held, calls, uses, closed, lowered>>
  BY DEF DeleteStale
<1>2. account' \in Account /\ account'.tv = account.tv /\ ~Deleted
  BY <1>1 DEF IInv, TypeOK, Account, Deleted
<1>3. TypeOK' /\ CodesOK'
  BY <1>1, <1>2, CodesKept DEF IInv, TypeOK
<1>4. QED
  BY <1>1, <1>2, <1>3, IdleType, CallStep DEF Narrows

LEMMA ExpireCodeOK ==
  ASSUME IInv, NEW c \in Codes, ExpireCode(c)
  PROVE  IInv'
<1>1. /\ code' = [code EXCEPT ![c].expired = TRUE]
      /\ UNCHANGED <<kind, account, token, held, calls, uses, closed, lowered>>
  BY DEF ExpireCode
<1>2. code \in [Codes -> Code]
  BY DEF IInv, TypeOK
<1>3. /\ code' \in [Codes -> Code]
      /\ \A b \in Codes : code'[b].state = code[b].state /\ code'[b].attempts = code[b].attempts
  BY <1>1, <1>2 DEF Code
<1>4. TypeOK' /\ CodesOK'
  BY <1>1, <1>3, CodesKept DEF IInv, TypeOK
<1>5. QED
  BY <1>1, <1>4, IdleType, CallStep DEF Narrows, Deleted

LEMMA StutterOK ==
  ASSUME IInv, UNCHANGED vars
  PROVE  IInv'
<1>1. UNCHANGED <<kind, account, code, token, held, calls, uses, closed, lowered>>
  BY DEF vars
<1>2. TypeOK' /\ CodesOK'
  BY <1>1, CodesKept DEF IInv, TypeOK
<1>3. QED
  BY <1>1, <1>2, IdleType, CallStep DEF Narrows, Deleted

-----------------------------------------------------------------------------
(* A token arrives, or tokens go                                           *)

LEMMA ReplyHeld ==
  ASSUME IInv, NEW d \in Devices, NEW n \in Tokens, Exists(n), Linked(n),
         held' = [held EXCEPT ![d] = n], UNCHANGED <<kind, token, closed, lowered>>,
         \/ held[d] \in Tokens /\ token[held[d]].root = token[n].root
         \/ Untouched(n)
  PROVE  HeldOK'
<1>0. held \in [Devices -> Tokens \cup {Legacy, Null}] /\ HeldOK
  BY DEF IInv, TypeOK
<1>1. held'[d] = n /\ \A e \in Devices : e # d => held'[e] = held[e]
  BY <1>0
<1>2. \A e \in Devices : e # d /\ held[e] \in Tokens => token[held[e]].root # token[n].root
  BY <1>0 DEF HeldOK, Untouched
<1>3. ASSUME NEW e \in Devices, held'[e] \in Tokens
      PROVE  Exists(held[e])' /\ Linked(held[e])'
  <2>1. PICK t \in Tokens : t = held'[e]
    BY <1>3
  <2>2. Exists(t) /\ Linked(t)
    BY <1>0, <1>1, <2>1 DEF HeldOK
  <2>3. QED
    BY <2>1, <2>2 DEF Exists, Linked
<1>4. \A e, f \in Devices :
        /\ held'[e] \in Tokens /\ held'[f] \in Tokens
        /\ token'[held'[e]].root = token'[held'[f]].root
        => e = f
  BY <1>0, <1>1, <1>2 DEF HeldOK
<1>5. ASSUME kind' = "customer", NEW t \in Tokens, token'[t].state = "revoked",
             token'[t].next = 0, token'[t].root \notin closed',
             NEW e \in Devices, held'[e] \in Tokens
      PROVE  token'[held'[e]].root # token'[t].root
  <2>1. \A f \in Devices : held[f] \in Tokens => token[held[f]].root # token[t].root
    BY <1>0, <1>5 DEF HeldOK
  <2>2. CASE e # d
    BY <1>1, <1>5, <2>1, <2>2
  <2>3. CASE e = d
    <3>1. CASE held[d] \in Tokens /\ token[held[d]].root = token[n].root
      BY <1>1, <1>5, <2>1, <2>3, <3>1
    <3>2. CASE Untouched(n)
      BY <1>1, <1>5, <2>3, <3>2 DEF Untouched
    <3>3. QED
      BY <3>1, <3>2
  <2>4. QED
    BY <2>2, <2>3
<1>6. QED
  BY <1>3, <1>4, <1>5 DEF HeldOK

LEMMA ReplyOK ==
  ASSUME IInv, NEW p \in Procs, Reply(p)
  PROVE  IInv'
<1>1. PICK c \in Call : c = calls[p] /\ Lasting(c)
  BY DEF IInv, TypeOK, CallsOK, CallOK
<1>2. /\ UNCHANGED <<kind, account, code, token, uses, closed, lowered>> /\ c.step = "reply"
      /\ calls' = [calls EXCEPT ![p] = IdleCall]
      /\ held' = [held EXCEPT ![c.device] = IF @ = c.token THEN c.next ELSE @]
  BY <1>1 DEF Reply, At, End
<1>3. PICK d \in Devices, n \in Tokens :
        /\ d = c.device /\ n = c.next /\ Exists(n) /\ Linked(n)
        /\ c.token \in Tokens => token[n].root = token[c.token].root
  BY <1>1, <1>2 DEF Lasting
<1>4. held \in [Devices -> Tokens \cup {Legacy, Null}]
  BY DEF IInv, TypeOK
<1>5. TypeOK'
  BY <1>2, <1>3, <1>4, EndedCall DEF IInv, TypeOK
<1>6. CodesOK'
  BY <1>2, EndedCall, CodesKept
<1>7. CASE held[d] # c.token
  <2>1. held' = held
    BY <1>2, <1>3, <1>4, <1>7
  <2>2. QED
    BY <1>2, <1>5, <1>6, <2>1, EndedCall, IdleType, CallStep DEF Narrows, Deleted
<1>8. CASE held[d] = c.token
  <2>1. held' = [held EXCEPT ![d] = n]
    BY <1>2, <1>3, <1>4, <1>8
  <2>2. Wears /\ Closes
    <3>1. Newest <= Newest' /\ (lowered => lowered')
      BY <1>2, NewestSame DEF IInv
    <3>2. QED
      BY <1>2, <3>1 DEF Wears, Closes, Exists, Unrevoked, Deleted
  <2>3. TokensOK' /\ SessionsOK' /\ Evolves
    BY <1>5, <2>2, WearsTokens, WearsSessions, WearsEvolves DEF IInv
  <2>4. HeldOK'
    <3>1. \/ held[d] \in Tokens /\ token[held[d]].root = token[n].root
          \/ Untouched(n)
      BY <1>1, <1>2, <1>3, <1>8 DEF IInv, Unborn, NewBorn
    <3>2. QED
      BY <1>2, <1>3, <2>1, <3>1, ReplyHeld
  <2>5. Unborn'
    <3>1. ASSUME NEW q \in Procs, NEW r \in Tokens, NewBorn(calls[q]), calls'[q] = calls[q],
                 calls[q].next = r
          PROVE  Untouched(r)'
      <4>1. q # p
        BY <1>2, <3>1, EndedCall, IdleType DEF NewBorn
      <4>2. Untouched(r) /\ n # r
        BY <1>1, <1>3, <3>1, <4>1 DEF IInv, Unborn
      <4>3. \A e \in Devices : held'[e] # r
        BY <1>4, <2>1, <4>2 DEF Untouched
      <4>4. QED
        BY <1>2, <4>2, <4>3 DEF Untouched
    <3>2. QED
      BY <1>2, <1>5, <3>1, EndedCall, IdleType, UnbornKept
  <2>6. CallsOK'
    <3>1. ASSUME NEW q \in Procs, NEW e \in Call, e = calls[q] PROVE Delicate(e)'
      <4>1. CallOK(e)
        BY <3>1 DEF IInv, CallsOK
      <4>2. CallOK(e)'
        BY <1>2, <1>5, <2>2, <4>1, WearsCall DEF IInv
      <4>3. QED
        BY <4>2 DEF CallOK
    <3>2. CallOK(IdleCall)'
      BY <1>2, <1>5, <2>2, EndedCall, IdleType, WearsCall DEF IInv
    <3>3. QED
      BY <1>2, <1>5, <2>3, <3>1, <3>2, EndedCall, IdleType, CallsKept
  <2>7. QED
    BY <1>5, <1>6, <2>3, <2>4, <2>5, <2>6 DEF IInv
<1>9. QED
  BY <1>7, <1>8

\* revokeAll leaves nothing that can be used
LEMMA AllRevokedWears ==
  ASSUME IInv, token' = AllRevoked, UNCHANGED <<kind, account, lowered>>
  PROVE  /\ Wears /\ token' \in [Tokens -> Token]
         /\ \A t \in Tokens : /\ ~Unrevoked(t)'
                              /\ token'[t].state = "gone" => token[t].state = "gone"
                              /\ token'[t].state # token[t].state => Unrevoked(t)
<1>1. token \in [Tokens -> Token]
  BY DEF IInv, TypeOK
<1>2. \A t \in Tokens :
        /\ Unrevoked(t) => token'[t] = [token[t] EXCEPT !.state = "revoked"]
        /\ ~Unrevoked(t) => token'[t] = token[t]
  BY DEF AllRevoked
<1>3. \A t \in Tokens :
        /\ token'[t] \in Token
        /\ token'[t].root = token[t].root /\ token'[t].tv = token[t].tv
        /\ token'[t].next = token[t].next
        /\ token'[t].state = IF Unrevoked(t) THEN "revoked" ELSE token[t].state
  BY <1>1, <1>2 DEF Token
<1>4. token' \in [Tokens -> Token]
  BY <1>3 DEF AllRevoked
<1>5. \A t \in Tokens : /\ ~Unrevoked(t)' /\ (Exists(t)' <=> Exists(t))
                        /\ token'[t].state = "gone" => token[t].state = "gone"
                        /\ token'[t].state # token[t].state => Unrevoked(t)
                        /\ ~Exists(t) => token'[t] = token[t]
  BY <1>2, <1>3 DEF Unrevoked, Exists
<1>6. Newest <= Newest' /\ (lowered => lowered')
  BY NewestSame DEF IInv
<1>7. QED
  BY <1>3, <1>4, <1>5, <1>6 DEF Wears, Deleted

LEMMA BumpOK ==
  ASSUME IInv, NEW p \in Procs, Bump(p)
  PROVE  IInv'
<1>1. /\ UNCHANGED <<kind, code, token, held, uses>> /\ calls[p].step = "bump"
      /\ account' = [account EXCEPT !.tv = calls[p].tv + 1]
      /\ closed' = IF account.tv = calls[p].tv THEN closed \cup Roots ELSE closed
      /\ lowered' = (lowered \/ account.tv > calls[p].tv + 1)
      /\ Step(p, "end")
  BY DEF Bump, At
<1>2. /\ Lasting(calls[p]) /\ Delicate(calls[p]) /\ kind = "store"
      /\ calls[p].tv <= Newest /\ calls[p].tv < MaxVersion
  BY <1>1 DEF IInv, CallsOK, CallOK, Lasting, Delicate
<1>3. /\ account' \in Account /\ account'.tv = calls[p].tv + 1
      /\ account'.status = account.status
      /\ calls[p].tv \in Nat /\ account.tv \in Nat
      /\ Newest <= Newest' /\ (lowered => lowered')
      /\ account.tv = calls[p].tv => account.tv < account'.tv
  <2>1. calls[p] \in Call /\ account \in Account
    BY DEF IInv, TypeOK
  <2>2. calls[p].tv \in Nat /\ account.tv \in 0 .. MaxVersion /\ account.tv \in Nat
    BY <2>1, SessionsAssumption DEF Call, Account
  <2>3. calls[p].tv + 1 \in 0 .. MaxVersion
    BY <1>2, <2>2, SessionsAssumption
  <2>4. /\ account' \in Account /\ account'.tv = calls[p].tv + 1
        /\ account'.status = account.status
    BY <1>1, <2>1, <2>3 DEF Account
  <2>5. Newest <= Newest' /\ (lowered => lowered')
    <3>0. Newest \in 0 .. MaxVersion /\ Newest <= MaxVersion
      BY NewestType, SessionsAssumption DEF IInv
    <3>1. CASE lowered'
      BY <1>1, <3>0, <3>1 DEF Newest
    <3>2. CASE ~lowered'
      <4>1. ~lowered /\ ~(account.tv > calls[p].tv + 1)
        BY <1>1, <3>2, Zenon
      <4>2. account.tv <= calls[p].tv + 1
        BY <2>2, <4>1
      <4>3. QED
        BY <2>2, <2>4, <3>2, <4>1, <4>2 DEF Newest
    <3>3. QED
      BY <3>1, <3>2
  <2>6. QED
    BY <2>2, <2>4, <2>5
<1>4. PICK c \in Call :
        /\ calls' = [calls EXCEPT ![p] = c]
        /\ c.step = "end" /\ c.device = calls[p].device /\ c.token = calls[p].token
        /\ c.next = calls[p].next /\ c.tv = calls[p].tv /\ c.code = calls[p].code
  BY <1>1, NextCall
<1>5. /\ calls' \in [Procs -> Call] /\ calls'[p] = c
      /\ \A q \in Procs \ {p} : calls'[q] = calls[q]
  BY <1>4, CallSet
<1>6. Roots \subseteq Tokens
  BY DEF IInv, TokensOK, TokenOK, Roots, Exists
<1>7. TypeOK'
  BY <1>1, <1>3, <1>5, <1>6 DEF IInv, TypeOK
<1>8. CodesOK'
  BY <1>1, <1>4, <1>5, CodesKept DEF CodesKeep
<1>9. Wears /\ Closes /\ Narrows /\ Revokes
  <2>1. Wears
    BY <1>1, <1>3 DEF Wears, Exists, Unrevoked, Deleted
  <2>2. Closes
    BY <1>1, <1>2, <1>3 DEF Closes
  <2>3. QED
    BY <1>1, <2>1, <2>2 DEF Narrows, Revokes
<1>10. Aparts(p, c)
  <2>1. \A q \in Procs \ {p} : Apart(calls[p], calls[q]) /\ Apart(calls[q], calls[p])
    BY DEF IInv, CallsOK
  <2>2. QED
    BY <1>1, <1>4, <2>1 DEF Aparts, Apart, WithHeir
<1>11. Clear(p, c)
  BY <1>4, ClearOf DEF NewBorn
<1>12. CallOK(c)'
  <2>1. Lasting(c)
    BY <1>1, <1>2, <1>4 DEF Lasting, WithToken, WithHeir, WithNone
  <2>2. Lasting(c)'
    BY <1>7, <1>9, <2>1, WearsEvolves, LastingLasts DEF IInv
  <2>3. QED
    BY <1>4, <2>2 DEF CallOK, Delicate, WithHeir
<1>13. QED
  BY <1>1, <1>4, <1>7, <1>8, <1>9, <1>10, <1>11, <1>12, WearStep

LEMMA EndAllOK ==
  ASSUME IInv, NEW p \in Procs, EndAll(p)
  PROVE  IInv'
<1>1. /\ UNCHANGED <<kind, account, code, held, uses, closed, lowered>> /\ calls[p].step = "end"
      /\ token' = AllRevoked /\ calls' = [calls EXCEPT ![p] = IdleCall]
  BY DEF EndAll, At, End
<1>2. kind = "store"
  BY <1>1 DEF IInv, CallsOK, CallOK, Lasting
<1>3. /\ Wears /\ token' \in [Tokens -> Token]
      /\ \A t \in Tokens : token'[t].state = "gone" => token[t].state = "gone"
  BY <1>1, AllRevokedWears
<1>4. TypeOK'
  BY <1>1, <1>3, EndedCall DEF IInv, TypeOK
<1>5. CodesOK'
  BY <1>1, EndedCall, CodesKept
<1>6. Closes /\ Narrows /\ Revokes
  BY <1>1, <1>2 DEF Closes, Narrows, Revokes
<1>7. CallOK(IdleCall)'
  BY <1>1, <1>3, <1>4, EndedCall, IdleType, WearsCall DEF IInv
<1>8. \A q \in Procs, e \in Call : e = calls[q] /\ e.step \in {"swap", "link"} => e.next \in Tokens
  BY DEF IInv, CallsOK, CallOK, Lasting, WithHeir
<1>9. QED
  BY <1>1, <1>3, <1>4, <1>5, <1>6, <1>7, <1>8, EndedCall, IdleType, WearStep

LEMMA CloseOK ==
  ASSUME IInv, NEW p \in Procs, Close(p)
  PROVE  IInv'
<1>1. /\ UNCHANGED <<kind, account, code, uses, lowered>>
      /\ token' = AllRevoked /\ calls' = [calls EXCEPT ![p] = IdleCall]
      /\ closed' = IF kind = "customer" THEN closed \cup Roots ELSE closed
      /\ Refused(calls[p].device, calls[p].token)
  BY DEF Close, Refuse, End
<1>2. /\ Wears /\ token' \in [Tokens -> Token]
      /\ \A t \in Tokens : /\ ~Unrevoked(t)'
                           /\ token'[t].state = "gone" => token[t].state = "gone"
                           /\ token'[t].state # token[t].state => Unrevoked(t)
  BY <1>1, AllRevokedWears
<1>3. Narrows /\ held' \in [Devices -> Tokens \cup {Legacy, Null}]
  BY <1>1, RefusedOK
<1>4. Roots \subseteq Tokens /\ \A t \in Tokens : Unrevoked(t) => token[t].root \in Roots
  BY DEF IInv, TokensOK, TokenOK, Roots, Exists, Unrevoked
<1>5. TypeOK'
  BY <1>1, <1>2, <1>3, <1>4, EndedCall DEF IInv, TypeOK
<1>6. CodesOK'
  BY <1>1, EndedCall, CodesKept
<1>7. Closes /\ Revokes
  BY <1>1, <1>2, <1>4 DEF Closes, Revokes
<1>8. CallOK(IdleCall)'
  BY <1>1, <1>2, <1>5, EndedCall, IdleType, WearsCall DEF IInv
<1>9. \A q \in Procs, e \in Call : e = calls[q] /\ e.step \in {"swap", "link"} => e.next \in Tokens
  BY DEF IInv, CallsOK, CallOK, Lasting, WithHeir
<1>10. QED
  BY <1>1, <1>2, <1>3, <1>5, <1>6, <1>7, <1>8, <1>9, EndedCall, IdleType, WearStep

\* Only one row is written, and neither its origin nor its heir
LEMMA OneRow ==
  ASSUME IInv, NEW t \in Tokens, NEW r \in Token,
         token' = [token EXCEPT ![t] = r], UNCHANGED kind,
         Newest <= Newest', lowered => lowered', Deleted => Deleted',
         Exists(t), r.state # "none",
         r.root = token[t].root, r.tv = token[t].tv, r.next = token[t].next,
         r.state \in {"live", "expired"} => Unrevoked(t),
         r.state = "gone" => token[t].state = "gone" \/ Deleted' \/ ~Linked(t)
  PROVE  /\ Wears /\ token' \in [Tokens -> Token] /\ token'[t] = r
         /\ \A u \in Tokens : u # t => token'[u] = token[u]
<1>1. token \in [Tokens -> Token]
  BY DEF IInv, TypeOK
<1>2. /\ token' \in [Tokens -> Token] /\ token'[t] = r
      /\ \A u \in Tokens : u # t => token'[u] = token[u]
  BY <1>1
<1>3. ASSUME NEW u \in Tokens
      PROVE  /\ token'[u].root = token[u].root /\ token'[u].tv = token[u].tv
             /\ token'[u].next = token[u].next
             /\ Exists(u)' <=> Exists(u)
             /\ Unrevoked(u)' => Unrevoked(u)
             /\ ~Exists(u) => token'[u] = token[u]
             /\ token'[u].state = "gone" /\ Linked(u) => token[u].state = "gone" \/ Deleted'
  <2>1. CASE u = t
    BY <1>2, <2>1 DEF Exists, Unrevoked
  <2>2. CASE u # t
    BY <1>2, <2>2 DEF Exists, Unrevoked
  <2>3. QED
    BY <2>1, <2>2
<1>4. QED
  BY <1>2, <1>3 DEF Wears

\* The heir that is deleted is in no other request's hands
LEMMA DiscardOK ==
  ASSUME IInv, NEW p \in Procs, Discard(p)
  PROVE  IInv'
<1>1. /\ UNCHANGED <<kind, account, code, held, uses, closed, lowered>> /\ calls[p].step = "discard"
      /\ token' = [token EXCEPT ![calls[p].next].state = "gone"] /\ Step(p, "again")
  BY DEF Discard, At
<1>2. Lasting(calls[p]) /\ Delicate(calls[p]) /\ kind = "customer"
  BY <1>1 DEF IInv, CallsOK, CallOK, Lasting
<1>3. PICK n \in Tokens : n = calls[p].next /\ Exists(n) /\ ~Linked(n)
  BY <1>1, <1>2 DEF Lasting, Delicate, WithHeir
<1>4. PICK r \in Token :
        /\ r.state = "gone" /\ r.tv = token[n].tv /\ r.root = token[n].root
        /\ r.next = token[n].next /\ r = [token[n] EXCEPT !.state = "gone"]
  <2>1. token[n] \in Token
    BY DEF IInv, TypeOK
  <2>2. [token[n] EXCEPT !.state = "gone"] \in Token
    BY <2>1 DEF Token
  <2>3. QED
    BY <2>1, <2>2 DEF Token
<1>5. token' = [token EXCEPT ![n] = r]
  BY <1>1, <1>3, <1>4 DEF IInv, TypeOK
<1>6. /\ Wears /\ token' \in [Tokens -> Token] /\ token'[n] = r
      /\ \A u \in Tokens : u # n => token'[u] = token[u]
  <2>1. Newest <= Newest' /\ (lowered => lowered') /\ (Deleted => Deleted')
    BY <1>1, NewestSame DEF IInv, Deleted
  <2>2. QED
    BY <1>1, <1>3, <1>4, <1>5, <2>1, OneRow
<1>7. PICK c \in Call :
        /\ calls' = [calls EXCEPT ![p] = c]
        /\ c.step = "again" /\ c.device = calls[p].device /\ c.token = calls[p].token
        /\ c.next = calls[p].next /\ c.tv = calls[p].tv /\ c.code = calls[p].code
  BY <1>1, NextCall
<1>8. /\ calls' \in [Procs -> Call] /\ calls'[p] = c
      /\ \A q \in Procs \ {p} : calls'[q] = calls[q]
  BY <1>7, CallSet
<1>9. TypeOK'
  BY <1>1, <1>6, <1>8 DEF IInv, TypeOK
<1>10. CodesOK'
  BY <1>1, <1>7, <1>8, CodesKept DEF CodesKeep
<1>11. Closes /\ Narrows /\ Revokes
  BY <1>1, <1>4, <1>6 DEF Closes, Narrows, Revokes
<1>12. CallOK(c)'
  <2>1. Lasting(c)
    BY <1>1, <1>2, <1>7 DEF Lasting, WithToken, WithHeir, WithNone
  <2>2. Lasting(c)'
    BY <1>6, <1>9, <2>1, WearsEvolves, LastingLasts DEF IInv
  <2>3. QED
    BY <1>7, <2>2 DEF CallOK, Delicate, WithHeir
<1>13. Aparts(p, c) /\ Clear(p, c)
  BY <1>7, PlainAparts, ClearOf DEF Plain, WithHeir, NewBorn
<1>14. ASSUME NEW q \in Procs, NEW e \in Call, e = calls[q], e = calls'[q],
              e.step \in {"swap", "link"}
       PROVE  token'[e.next] = token[e.next]
  <2>1. q # p
    BY <1>7, <1>8, <1>14
  <2>2. e.next # n
    BY <1>1, <1>3, <1>14, <2>1 DEF IInv, CallsOK, Apart, WithHeir
  <2>3. e.next \in Tokens
    BY <1>14 DEF IInv, CallsOK, CallOK, Lasting, WithHeir
  <2>4. QED
    BY <1>6, <2>2, <2>3
<1>15. QED
  BY <1>1, <1>6, <1>7, <1>9, <1>10, <1>11, <1>12, <1>13, <1>14, WearStep

\* The one token of the session that can be used is revoked: nobody else is making a heir
LEMMA TakeOK ==
  ASSUME IInv, NEW p \in Procs, Take(p)
  PROVE  IInv'
<1>1. UNCHANGED <<kind, account, code, held, uses, closed, lowered>> /\ calls[p].step = "take"
  BY DEF Take, At
<1>2. Lasting(calls[p]) /\ kind = "store"
  BY <1>1 DEF IInv, CallsOK, CallOK, Lasting
<1>3. PICK t \in Tokens : t = calls[p].token /\ Exists(t) /\ Linked(t)
  BY <1>1, <1>2 DEF Lasting, WithToken
<1>4. CASE ~Unrevoked(t)
  <2>1. Step(p, "close") /\ UNCHANGED token
    BY <1>3, <1>4 DEF Take
  <2>2. PICK c \in Call :
          /\ calls' = [calls EXCEPT ![p] = c]
          /\ c.step = "close" /\ c.device = calls[p].device /\ c.token = calls[p].token
          /\ c.next = calls[p].next /\ c.tv = calls[p].tv /\ c.code = calls[p].code
    BY <2>1, NextCall
  <2>3. Lasting(c)
    BY <1>1, <1>2, <2>2 DEF Lasting, WithToken, WithHeir, WithNone
  <2>4. Carries(p, c) /\ CodesKeep(c, calls[p])
    BY <2>2 DEF Carries, CodesKeep, Plain, NewBorn, WithHeir
  <2>5. QED
    BY <1>1, <2>1, <2>3, <2>4, PassStep DEF Narrows, Deleted, IInv, TypeOK
<1>5. CASE Unrevoked(t)
  <2>1. token' = [token EXCEPT ![t].state = "revoked"] /\ Step(p, "create")
    BY <1>3, <1>5 DEF Take
  <2>2. PICK r \in Token :
          /\ r.state = "revoked" /\ r.tv = token[t].tv /\ r.root = token[t].root
          /\ r.next = token[t].next /\ r = [token[t] EXCEPT !.state = "revoked"]
    <3>1. token[t] \in Token
      BY DEF IInv, TypeOK
    <3>2. [token[t] EXCEPT !.state = "revoked"] \in Token
      BY <3>1 DEF Token
    <3>3. QED
      BY <3>1, <3>2 DEF Token
  <2>3. token' = [token EXCEPT ![t] = r]
    BY <2>1, <2>2 DEF IInv, TypeOK
  <2>4. /\ Wears /\ token' \in [Tokens -> Token] /\ token'[t] = r
        /\ \A u \in Tokens : u # t => token'[u] = token[u]
    <3>1. Newest <= Newest' /\ (lowered => lowered') /\ (Deleted => Deleted')
      BY <1>1, NewestSame DEF IInv, Deleted
    <3>2. QED
      BY <1>1, <1>3, <2>2, <2>3, <3>1, OneRow
  <2>5. PICK c \in Call :
          /\ calls' = [calls EXCEPT ![p] = c]
          /\ c.step = "create" /\ c.device = calls[p].device /\ c.token = t
          /\ c.next = calls[p].next /\ c.tv = calls[p].tv /\ c.code = calls[p].code
    BY <1>3, <2>1, NextCall
  <2>6. /\ calls' \in [Procs -> Call] /\ calls'[p] = c
        /\ \A q \in Procs \ {p} : calls'[q] = calls[q]
    BY <2>5, CallSet
  <2>7. TypeOK'
    BY <1>1, <2>4, <2>6 DEF IInv, TypeOK
  <2>8. CodesOK'
    BY <1>1, <2>5, <2>6, CodesKept DEF CodesKeep
  <2>9. Closes /\ Narrows /\ Revokes
    BY <1>1, <1>2 DEF Closes, Narrows, Revokes
  <2>10. CallOK(c)'
    <3>1. Lasting(c)
      BY <1>1, <1>2, <1>3, <2>5 DEF Lasting, WithToken, WithHeir, WithNone
    <3>2. Lasting(c)'
      BY <2>4, <2>7, <3>1, WearsEvolves, LastingLasts DEF IInv
    <3>3. token'[t].next = 0
      BY <1>5, <2>2, <2>4 DEF IInv, TokensOK, TokenOK
    <3>4. ASSUME NEW u \in Tokens, Linked(u)', token'[u].root = token'[t].root
          PROVE  ~Unrevoked(u)'
      <4>1. Linked(u) /\ token[u].root = token[t].root
        BY <2>4, <3>4, WearsEvolves DEF Wears
      <4>2. CASE u = t
        BY <2>2, <2>4, <4>2 DEF Unrevoked
      <4>3. CASE u # t
        <5>1. ~Unrevoked(u)
          BY <1>3, <1>5, <4>1, <4>3 DEF IInv, SessionsOK
        <5>2. QED
          BY <5>1, <2>4 DEF Wears
      <4>4. QED
        BY <4>2, <4>3
    <3>5. QED
      BY <2>5, <3>2, <3>3, <3>4 DEF CallOK, Delicate, WithHeir
  <2>11. Aparts(p, c)
    <3>1. ASSUME NEW q \in Procs \ {p}, calls[q].step \in {"create", "link"}
          PROVE  token[calls[q].token].root # token[t].root
      <4>1. Delicate(calls[q])
        BY DEF IInv, CallsOK, CallOK
      <4>2. QED
        BY <1>2, <1>3, <1>5, <3>1, <4>1 DEF Delicate
    <3>2. QED
      BY <1>3, <2>5, <3>1 DEF Aparts, Apart, WithHeir
  <2>12. Clear(p, c)
    BY <1>3, <2>5, ClearOf DEF NewBorn
  <2>13. \A q \in Procs, e \in Call : e = calls[q] /\ e.step \in {"swap", "link"} => e.next \in Tokens
    BY DEF IInv, CallsOK, CallOK, Lasting, WithHeir
  <2>14. \A u \in Tokens : token'[u].state = "gone" => token[u].state = "gone"
    BY <2>2, <2>4
  <2>15. QED
    BY <1>1, <2>4, <2>5, <2>7, <2>8, <2>9, <2>10, <2>11, <2>12, <2>13, <2>14, WearStep
<1>6. QED
  BY <1>4, <1>5

\* Steps of nobody's request that touch one row, and neither delete nor revoke it unseen
LEMMA RowStep ==
  ASSUME IInv, NEW t \in Tokens, Exists(t), NEW x \in {"live", "expired", "revoked", "gone"},
         NEW w \in BOOLEAN,
         token' = [token EXCEPT ![t] = [token[t] EXCEPT !.state = x, !.window = w]],
         UNCHANGED <<kind, account, code, calls, uses, closed, lowered>>,
         x \in {"live", "expired"} => Unrevoked(t),
         x = "gone" => token[t].state = "gone",
         Narrows, held' \in [Devices -> Tokens \cup {Legacy, Null}],
         x = "revoked" => token[t].state = "revoked"
                            \/ \E d \in Devices : held[d] = t /\ held'[d] \notin Tokens
  PROVE  IInv'
<1>1. PICK r \in Token :
        /\ r = [token[t] EXCEPT !.state = x, !.window = w]
        /\ r.state = x /\ r.tv = token[t].tv /\ r.root = token[t].root /\ r.next = token[t].next
  <2>1. token[t] \in Token
    BY DEF IInv, TypeOK
  <2>2. [token[t] EXCEPT !.state = x, !.window = w] \in Token
    BY <2>1 DEF Token
  <2>3. QED
    BY <2>1, <2>2 DEF Token
<1>2. /\ Wears /\ token' \in [Tokens -> Token] /\ token'[t] = r
      /\ \A u \in Tokens : u # t => token'[u] = token[u]
  <2>1. Newest <= Newest' /\ (lowered => lowered') /\ (Deleted => Deleted')
    BY NewestSame DEF IInv, Deleted
  <2>2. QED
    BY <1>1, <2>1, OneRow
<1>3. TypeOK' /\ CodesOK'
  BY <1>2, CodesKept DEF IInv, TypeOK
<1>4. Closes /\ Revokes
  BY <1>1, <1>2 DEF Closes, Revokes
<1>5. \A u \in Tokens : token'[u].state = "gone" => token[u].state = "gone"
  BY <1>1, <1>2
<1>6. \A q \in Procs, e \in Call : e = calls[q] /\ e.step \in {"swap", "link"} => e.next \in Tokens
  BY DEF IInv, CallsOK, CallOK, Lasting, WithHeir
<1>7. QED
  BY <1>2, <1>3, <1>4, <1>5, <1>6, IdleType, WearStep

LEMMA SignOutOK ==
  ASSUME IInv, NEW d \in Devices, SignOut(d)
  PROVE  IInv'
<1>1. /\ UNCHANGED <<kind, code, calls, uses, closed, lowered>> /\ held[d] # Null
      /\ held' = [held EXCEPT ![d] = Null]
  BY DEF SignOut
<1>2. Narrows /\ held' \in [Devices -> Tokens \cup {Legacy, Null}] /\ held'[d] \notin Tokens
  BY <1>1, TokenFacts DEF IInv, TypeOK, Narrows
<1>3. CASE held[d] = Legacy
  <2>1. account' = [account EXCEPT !.legacy = FALSE] /\ UNCHANGED token
    BY <1>3 DEF SignOut
  <2>2. account' \in Account /\ account'.tv = account.tv /\ account'.status = account.status
    BY <2>1 DEF IInv, TypeOK, Account
  <2>3. TypeOK' /\ CodesOK'
    BY <1>1, <1>2, <2>1, <2>2, CodesKept DEF IInv, TypeOK
  <2>4. QED
    BY <1>1, <1>2, <2>1, <2>2, <2>3, IdleType, CallStep DEF Deleted
<1>4. CASE held[d] # Legacy
  <2>1. PICK t \in Tokens : t = held[d] /\ Exists(t)
    BY <1>1, <1>4 DEF IInv, TypeOK, HeldOK
  <2>2. PICK x \in {"live", "expired", "revoked", "gone"} :
          x = IF Unrevoked(t) THEN "revoked" ELSE token[t].state
    BY <2>1 DEF Exists, IInv, TypeOK, Token
  <2>3. PICK w \in BOOLEAN : w = token[t].window
    BY DEF IInv, TypeOK, Token
  <2>4. token' = [token EXCEPT ![t] = [token[t] EXCEPT !.state = x, !.window = w]]
        /\ UNCHANGED account
    <3>1. token' = [token EXCEPT ![t].state = x] /\ UNCHANGED account
      BY <1>4, <2>1, <2>2 DEF SignOut
    <3>2. token[t] \in Token
      BY DEF IInv, TypeOK
    <3>3. [token[t] EXCEPT !.state = x] = [token[t] EXCEPT !.state = x, !.window = w]
      BY <2>3, <3>2 DEF Token
    <3>4. QED
      BY <3>1, <3>3
  <2>5. QED
    BY <1>1, <1>2, <2>1, <2>2, <2>4, RowStep DEF Unrevoked
<1>5. QED
  BY <1>3, <1>4

LEMMA ExpireTokenOK ==
  ASSUME IInv, NEW t \in Tokens, ExpireToken(t)
  PROVE  IInv'
<1>1. /\ UNCHANGED <<kind, account, code, held, calls, uses, closed, lowered>>
      /\ token' = [token EXCEPT ![t].state = "expired"] /\ token[t].state = "live"
  BY DEF ExpireToken, Live
<1>2. PICK w \in BOOLEAN : w = token[t].window
  BY DEF IInv, TypeOK, Token
<1>3. token' = [token EXCEPT ![t] = [token[t] EXCEPT !.state = "expired", !.window = w]]
  <2>1. token[t] \in Token
    BY DEF IInv, TypeOK
  <2>2. [token[t] EXCEPT !.state = "expired"]
          = [token[t] EXCEPT !.state = "expired", !.window = w]
    BY <1>2, <2>1 DEF Token
  <2>3. QED
    BY <1>1, <2>2
<1>4. QED
  BY <1>1, <1>3, RowStep DEF Unrevoked, Exists, Narrows, IInv, TypeOK

LEMMA CloseWindowOK ==
  ASSUME IInv, NEW t \in Tokens, CloseWindow(t)
  PROVE  IInv'
<1>1. /\ UNCHANGED <<kind, account, code, held, calls, uses, closed, lowered>>
      /\ token' = [token EXCEPT ![t].window = FALSE] /\ token[t].window
  BY DEF CloseWindow
<1>2. Exists(t)
  BY <1>1 DEF IInv, TokensOK, TokenOK, NoToken
<1>3. PICK x \in {"live", "expired", "revoked", "gone"} : x = token[t].state
  BY <1>2 DEF Exists, IInv, TypeOK, Token
<1>4. token' = [token EXCEPT ![t] = [token[t] EXCEPT !.state = x, !.window = FALSE]]
  <2>1. token[t] \in Token
    BY DEF IInv, TypeOK
  <2>2. [token[t] EXCEPT !.window = FALSE] = [token[t] EXCEPT !.state = x, !.window = FALSE]
    BY <1>3, <2>1 DEF Token
  <2>3. QED
    BY <1>1, <2>2
<1>5. QED
  BY <1>1, <1>2, <1>3, <1>4, RowStep DEF Unrevoked, Narrows, IInv, TypeOK

LEMMA DeleteUserOK ==
  ASSUME IInv, DeleteUser
  PROVE  IInv'
<1>1. /\ UNCHANGED <<kind, code, held, calls, uses, closed, lowered>>
      /\ account' = [account EXCEPT !.status = "deleted", !.legacy = FALSE]
      /\ token' = [t \in Tokens |-> IF token[t].state = "none" THEN token[t]
                                    ELSE [token[t] EXCEPT !.state = "gone"]]
  BY DEF DeleteUser
<1>2. /\ account' \in Account /\ account'.tv = account.tv /\ Deleted'
      /\ Newest <= Newest' /\ (lowered => lowered')
  <2>1. account \in Account
    BY DEF IInv, TypeOK
  <2>2. account' \in Account /\ account'.tv = account.tv /\ account'.status = "deleted"
    BY <1>1, <2>1 DEF Account
  <2>3. QED
    BY <1>1, <2>2, NewestSame DEF IInv, Deleted
<1>3. token \in [Tokens -> Token]
  BY DEF IInv, TypeOK
<1>4. \A t \in Tokens :
        /\ token'[t] \in Token
        /\ token'[t].root = token[t].root /\ token'[t].tv = token[t].tv
        /\ token'[t].next = token[t].next
        /\ token'[t].state = IF token[t].state = "none" THEN "none" ELSE "gone"
        /\ token[t].state = "none" => token'[t] = token[t]
  BY <1>1, <1>3 DEF Token
<1>5. token' \in [Tokens -> Token]
  BY <1>1, <1>4
<1>6. Wears
  BY <1>1, <1>2, <1>4 DEF Wears, Exists, Unrevoked
<1>7. Closes /\ Narrows /\ Revokes
  BY <1>1, <1>4 DEF Closes, Narrows, Revokes
<1>8. TypeOK' /\ CodesOK'
  BY <1>1, <1>2, <1>5, CodesKept DEF IInv, TypeOK
<1>9. QED
  BY <1>1, <1>2, <1>6, <1>7, <1>8, IdleType, WearStep

-----------------------------------------------------------------------------
(* A token is issued                                                       *)

\* Token t, of session r, is new
Grows(t, v, r) ==
  /\ ~Exists(t)
  /\ r = t \/ (Exists(r) /\ token[r].root = r)
  /\ v <= Newest
  /\ token' = IssuedTo(t, v, r)
  /\ kind' = kind /\ account'.tv = account.tv /\ account'.status = account.status
  /\ lowered' = lowered

LEMMA GrownTokens ==
  ASSUME IInv, NEW t \in Tokens, NEW v \in 0 .. MaxVersion, NEW r \in Tokens, Grows(t, v, r)
  PROVE  /\ token' \in [Tokens -> Token]
         /\ token'[t].state = "live" /\ token'[t].tv = v /\ token'[t].root = r
         /\ token'[t].next = 0
         /\ \A u \in Tokens : u # t => token'[u] = token[u]
         /\ \A u \in Tokens : Linked(u)' <=> Linked(u) \/ (u = t /\ r = t)
         /\ Evolves /\ TokensOK'
<1>1. token \in [Tokens -> Token] /\ TokensOK
  BY DEF IInv, TypeOK
<1>2. PICK k \in Token : /\ k = [NoToken EXCEPT !.state = "live", !.tv = v, !.root = r]
                         /\ k.state = "live" /\ k.tv = v /\ k.root = r /\ k.next = 0
  <2> DEFINE n == [NoToken EXCEPT !.state = "live", !.tv = v, !.root = r]
  <2>1. r \in 0 .. MaxTokens /\ NoToken \in Token /\ NoToken.next = 0
    BY TokenFacts, NoTokenType
  <2>2. n \in Token /\ n.state = "live" /\ n.tv = v /\ n.root = r /\ n.next = 0
    BY <2>1 DEF Token
  <2>3. QED
    BY <2>2
<1>3. token' = [token EXCEPT ![t] = k]
  BY <1>2 DEF Grows, IssuedTo
<1>4. /\ token' \in [Tokens -> Token] /\ token'[t] = k
      /\ \A u \in Tokens : u # t => token'[u] = token[u]
  BY <1>1, <1>3
<1>5. /\ ~Linked(t) /\ ~Unrevoked(t)
      /\ \A u \in Tokens : token[u].next # t /\ token[u].root # t
  BY NotThere DEF IInv, Grows
<1>6. \A u \in Tokens : Linked(u)' <=> Linked(u) \/ (u = t /\ r = t)
  <2>1. ASSUME NEW u \in Tokens PROVE Linked(u)' <=> Linked(u) \/ (u = t /\ r = t)
    <3>1. \A x \in Tokens : token'[x].next = u <=> token[x].next = u
      <4>1. token'[t].next = 0 /\ token[t].next = 0 /\ u # 0
        BY <1>1, <1>2, <1>4, TokenFacts, NoTokenType DEF TokensOK, TokenOK, Grows
      <4>2. QED
        BY <1>4, <4>1
    <3>2. token'[u].root = u <=> token[u].root = u \/ (u = t /\ r = t)
      BY <1>2, <1>4, <1>5
    <3>3. QED
      BY <3>1, <3>2 DEF Linked
  <2>2. QED
    BY <2>1
<1>7. \A u \in Tokens : Exists(u) => u # t
  BY DEF Grows
<1>8. Evolves
  <2>1. Newest <= Newest' /\ (lowered => lowered')
    BY NewestSame DEF IInv, Grows
  <2>2. QED
    BY <1>4, <1>6, <1>7, <2>1 DEF Evolves, Exists, Unrevoked, Grows, Deleted
<1>9. TokensOK'
  <2> SUFFICES ASSUME NEW u \in Tokens PROVE TokenOK(u)'
    BY DEF TokensOK
  <2>0. Newest' = Newest
    BY NewestSame DEF IInv, Grows
  <2>1. CASE u = t
    <3>1. Exists(r)' /\ token'[r].root = r
      BY <1>2, <1>4 DEF Exists, Grows
    <3>2. QED
      BY <1>2, <1>4, <2>0, <2>1, <3>1 DEF TokenOK, Exists, Grows
  <2>2. CASE u # t /\ ~Exists(u)
    <3>1. token'[u] = NoToken
      BY <1>1, <1>4, <2>2 DEF TokensOK, TokenOK
    <3>2. QED
      BY <3>1, NoTokenType DEF TokenOK, Exists
  <2>3. CASE u # t /\ Exists(u)
    <3>1. TokenOK(u)
      BY <1>1 DEF TokensOK
    <3>2. /\ token[u].root \in Tokens /\ Exists(token[u].root)
          /\ token[u].next # 0 => token[u].next \in Tokens /\ Exists(token[u].next)
      BY <2>3, <3>1 DEF TokenOK
    <3>3. PICK x \in Tokens : x = token[u].root /\ x # t /\ token'[x] = token[x]
      BY <1>4, <1>7, <3>2
    <3>4. CASE token[u].next = 0
      BY <1>4, <1>6, <2>0, <2>3, <3>1, <3>3, <3>4 DEF TokenOK, Exists, Grows, Deleted
    <3>5. CASE token[u].next # 0
      <4>1. PICK y \in Tokens : y = token[u].next /\ y # t /\ token'[y] = token[y]
        BY <1>4, <1>7, <3>2, <3>5
      <4>2. QED
        BY <1>4, <1>6, <2>0, <2>3, <3>1, <3>3, <4>1 DEF TokenOK, Exists, Unrevoked, Grows, Deleted
    <3>6. QED
      BY <3>4, <3>5
  <2>4. QED
    BY <2>1, <2>2, <2>3
<1>10. QED
  BY <1>2, <1>4, <1>6, <1>8, <1>9

LEMMA GrownSessions ==
  ASSUME IInv, NEW t \in Tokens, NEW v \in 0 .. MaxVersion, NEW r \in Tokens, Grows(t, v, r),
         closed' = closed,
         r = t \/ (kind = "store" /\ ~lowered /\ v = account.tv => r \notin closed)
  PROVE  SessionsOK'
<1>0. SessionsOK /\ kind' = kind /\ account'.tv = account.tv /\ lowered' = lowered
  BY DEF IInv, Grows
<1>1. /\ token'[t].state = "live" /\ token'[t].tv = v /\ token'[t].root = r
      /\ \A u \in Tokens : u # t => token'[u] = token[u]
      /\ \A u \in Tokens : Linked(u)' <=> Linked(u) \/ (u = t /\ r = t)
  BY GrownTokens
<1>2. ~Linked(t) /\ \A u \in Tokens : token[u].root # t
  BY NotThere DEF IInv, Grows
<1>3. r = t => r \notin closed
  BY <1>0 DEF SessionsOK, Grows
<1>4. \A x, u \in Tokens :
        /\ Linked(x)' /\ Unrevoked(x)' /\ Linked(u)' /\ Unrevoked(u)'
        /\ token'[x].root = token'[u].root
        => x = u
  <2>1. ASSUME NEW x \in Tokens, NEW u \in Tokens,
               Linked(x)', Unrevoked(x)', Linked(u)', Unrevoked(u)',
               token'[x].root = token'[u].root, x # u
        PROVE  FALSE
    <3>1. CASE x # t /\ u # t
      <4>1. Linked(x) /\ Unrevoked(x) /\ Linked(u) /\ Unrevoked(u) /\ token[x].root = token[u].root
        BY <1>1, <2>1, <3>1 DEF Unrevoked
      <4>2. QED
        BY <1>0, <2>1, <4>1 DEF SessionsOK
    <3>2. CASE x = t \/ u = t
      BY <1>1, <1>2, <2>1, <3>2
    <3>3. QED
      BY <3>1, <3>2
  <2>2. QED
    BY <2>1
<1>5. ASSUME kind' = "customer", NEW u \in Tokens, Linked(u)', Unrevoked(u)'
      PROVE  token'[u].root \notin closed'
  <2>1. CASE u # t
    BY <1>0, <1>1, <1>5, <2>1 DEF SessionsOK, Unrevoked
  <2>2. CASE u = t
    BY <1>1, <1>2, <1>3, <1>5, <2>2
  <2>3. QED
    BY <2>1, <2>2
<1>6. ASSUME kind' = "store", ~lowered', NEW u \in Tokens, Exists(u)', token'[u].tv = account'.tv
      PROVE  token'[u].root \notin closed'
  <2>1. CASE u # t
    BY <1>0, <1>1, <1>6, <2>1 DEF SessionsOK, Exists
  <2>2. CASE u = t
    BY <1>0, <1>1, <1>3, <1>6, <2>2
  <2>3. QED
    BY <2>1, <2>2
<1>7. \A x \in closed' : Exists(x)'
  BY <1>0, <1>1 DEF SessionsOK, Exists, IInv, TypeOK
<1>8. QED
  BY <1>4, <1>5, <1>6, <1>7 DEF SessionsOK

LEMMA GrownRest ==
  ASSUME IInv, NEW t \in Tokens, NEW v \in 0 .. MaxVersion, NEW r \in Tokens, Grows(t, v, r),
         closed' = closed, held' = held
  PROVE  /\ HeldOK'
         /\ \A e \in Call : CallOK(e) => Delicate(e)'
         /\ \A x \in Tokens : Exists(x) /\ x # r /\ Untouched(x) => Untouched(x)'
<1>0. kind' = kind /\ account'.tv = account.tv /\ account'.status = account.status
  BY DEF Grows
<1>1. /\ token'[t].state = "live" /\ token'[t].tv = v /\ token'[t].root = r
      /\ \A u \in Tokens : u # t => token'[u] = token[u]
      /\ \A u \in Tokens : Linked(u)' <=> Linked(u) \/ (u = t /\ r = t)
  BY GrownTokens
<1>2. /\ ~Linked(t) /\ \A u \in Tokens : token[u].root # t
      /\ \A u \in Tokens : Exists(u) => u # t
  BY NotThere DEF IInv, Grows
<1>3. HeldOK'
  <2>0. HeldOK
    BY DEF IInv
  <2>1. \A d \in Devices : held[d] \in Tokens => held[d] # t /\ token'[held[d]] = token[held[d]]
    BY <1>1, <1>2, <2>0 DEF HeldOK
  <2>2. ASSUME NEW d \in Devices, held'[d] \in Tokens
        PROVE  Exists(held[d])' /\ Linked(held[d])'
    <3>1. PICK u \in Tokens : u = held'[d] /\ u = held[d] /\ Exists(u) /\ Linked(u) /\ u # t
      BY <1>2, <2>0, <2>2 DEF HeldOK
    <3>2. Exists(u)' /\ Linked(u)'
      BY <1>1, <3>1 DEF Exists
    <3>3. QED
      BY <3>1, <3>2 DEF Exists, Linked
  <2>3. \A d, e \in Devices :
          /\ held'[d] \in Tokens /\ held'[e] \in Tokens
          /\ token'[held'[d]].root = token'[held'[e]].root
          => d = e
    BY <2>0, <2>1 DEF HeldOK
  <2>4. ASSUME kind' = "customer", NEW u \in Tokens, token'[u].state = "revoked",
               token'[u].next = 0, token'[u].root \notin closed',
               NEW d \in Devices, held'[d] \in Tokens
        PROVE  token'[held'[d]].root # token'[u].root
    BY <1>0, <1>1, <2>0, <2>1, <2>4 DEF HeldOK
  <2>5. QED
    BY <2>2, <2>3, <2>4 DEF HeldOK
<1>4. ASSUME NEW e \in Call, CallOK(e) PROVE Delicate(e)'
  <2>1. Lasting(e) /\ Delicate(e)
    BY <1>4 DEF CallOK
  <2>2. e.step \in WithHeir => /\ e.next \in Tokens /\ e.next # t
                               /\ ~Linked(e.next)' /\ token'[e.next] = token[e.next]
    <3>1. e.step \in WithHeir => e.next \in Tokens /\ Exists(e.next) /\ ~Linked(e.next)
      BY <2>1 DEF Lasting, Delicate
    <3>2. QED
      BY <1>1, <1>2, <3>1
  <2>3. ASSUME kind' = "store", e.step \in {"create", "link"}
        PROVE  /\ token'[e.token].next = 0
               /\ \A u \in Tokens :
                    Linked(u)' /\ token'[u].root = token'[e.token].root => ~Unrevoked(u)'
    <3>1. /\ e.token \in Tokens /\ e.token # t /\ token'[e.token] = token[e.token]
      BY <1>1, <1>2, <2>1, <2>3 DEF Lasting, WithToken
    <3>2. /\ token[e.token].next = 0
          /\ \A u \in Tokens : Linked(u) /\ token[u].root = token[e.token].root => ~Unrevoked(u)
      BY <1>0, <2>1, <2>3 DEF Delicate
    <3>3. ASSUME NEW u \in Tokens, Linked(u)', token'[u].root = token'[e.token].root
          PROVE  ~Unrevoked(u)'
      <4>1. CASE u # t
        BY <1>1, <3>1, <3>2, <3>3, <4>1 DEF Unrevoked
      <4>2. CASE u = t
        BY <1>1, <1>2, <3>1, <3>3, <4>2
      <4>3. QED
        BY <4>1, <4>2
    <3>4. QED
      BY <3>1, <3>2, <3>3
  <2>4. QED
    BY <1>0, <2>1, <2>2, <2>3 DEF Delicate, WithHeir, Deleted
<1>5. ASSUME NEW x \in Tokens, Exists(x), x # r, Untouched(x) PROVE Untouched(x)'
  <2>1. token'[x] = token[x]
    BY <1>1, <1>2, <1>5
  <2>2. \A u \in Tokens : token'[u].root = x => u = x
    BY <1>1, <1>5 DEF Untouched
  <2>3. QED
    BY <1>0, <1>5, <2>1, <2>2 DEF Untouched
<1>6. QED
  BY <1>3, <1>4, <1>5

\* The first token of a session goes to whoever verified a code or knew a password
LEMMA IssueOK ==
  ASSUME IInv, NEW p \in Procs, NEW t \in Tokens, Issue(p, t)
  PROVE  IInv'
<1>1. PICK was \in Call : was = calls[p] /\ Lasting(was)
  BY DEF IInv, TypeOK, CallsOK, CallOK
<1>2. /\ UNCHANGED <<kind, code, held, closed, lowered>> /\ was.step = "issue" /\ Fresh(t)
      /\ account' = [account EXCEPT !.legacy = IF was.code # 0 THEN FALSE ELSE @]
      /\ token' = IssuedTo(t, was.tv, t)
      /\ uses' = [b \in Codes |-> IF b = was.code THEN [uses[b] EXCEPT !.sessions = @ + 1]
                                                  ELSE uses[b]]
      /\ calls' = [calls EXCEPT ![p].step = "reply", ![p].next = t]
  BY <1>1 DEF Issue, At
<1>3. /\ was.token \notin Tokens /\ was.tv <= Newest /\ was.device \in Devices
      /\ was.tv \in 0 .. MaxVersion
  BY <1>1, <1>2 DEF Lasting, WithNone, Call
<1>4. /\ account' \in Account /\ account'.tv = account.tv /\ account'.status = account.status
  BY <1>2 DEF IInv, TypeOK, Account
<1>5. Grows(t, was.tv, t)
  BY <1>2, <1>3, <1>4 DEF Grows, Fresh, Exists
<1>6. /\ token' \in [Tokens -> Token]
      /\ token'[t].state = "live" /\ token'[t].root = t /\ token'[t].next = 0
      /\ \A u \in Tokens : u # t => token'[u] = token[u]
      /\ Linked(t)'
      /\ Evolves /\ TokensOK'
  BY <1>3, <1>5, GrownTokens
<1>7. SessionsOK' /\ HeldOK'
  BY <1>2, <1>3, <1>5, GrownSessions, GrownRest
<1>8. PICK c \in Call :
        /\ calls' = [calls EXCEPT ![p] = c]
        /\ c.step = "reply" /\ c.device = was.device /\ c.token = was.token
        /\ c.next = t /\ c.tv = was.tv /\ c.code = was.code
  <2> DEFINE e == [was EXCEPT !.step = "reply", !.next = t]
  <2>1. t \in 0 .. MaxTokens
    BY TokenFacts
  <2>2. /\ e \in Call /\ e.step = "reply" /\ e.device = was.device /\ e.token = was.token
        /\ e.next = t /\ e.tv = was.tv /\ e.code = was.code
    BY <2>1 DEF Call
  <2>3. calls' = [calls EXCEPT ![p] = e]
    BY <1>1, <1>2 DEF Call, IInv, TypeOK
  <2>4. QED
    BY <2>2, <2>3
<1>9. /\ calls' \in [Procs -> Call] /\ calls'[p] = c
      /\ \A q \in Procs \ {p} : calls'[q] = calls[q]
  BY <1>8, CallSet
<1>10. /\ uses' \in [Codes -> [tried : Nat, sessions : Nat]]
       /\ \A b \in Codes : /\ uses'[b].tried = uses[b].tried
                           /\ b # was.code => uses'[b] = uses[b]
                           /\ b = was.code => uses'[b].sessions = uses[b].sessions + 1
  <2>1. uses \in [Codes -> [tried : Nat, sessions : Nat]]
    BY DEF IInv, TypeOK
  <2>2. QED
    BY <1>2, <2>1
<1>11. TypeOK'
  BY <1>2, <1>4, <1>6, <1>9, <1>10 DEF IInv, TypeOK
<1>12. CodesOK'
  <2>0. CodesOK
    BY DEF IInv
  <2>1. \A q \in Procs, b \in Codes : Winner(q, b)' => Winner(q, b) /\ q # p
    BY <1>8, <1>9 DEF Winner
  <2>2. \A b \in Codes : b = was.code => Winner(p, b)
    BY <1>1, <1>2 DEF Winner
  <2>3. \A b \in Codes : b = was.code => uses[b].sessions = 0 /\ code[b].state = "verified"
    BY <2>0, <2>2 DEF CodesOK
  <2>4. \A q \in Procs, b \in Codes : Winner(q, b)' => b # was.code
    BY <2>0, <2>1, <2>2 DEF CodesOK
  <2>5. \A q \in Procs : calls'[q].step \in {"reserve", "claim", "activate"} => calls'[q].code \in Codes
    BY <1>8, <1>9, <2>0 DEF CodesOK
  <2>6. \A b \in Codes : /\ uses'[b].tried = code'[b].attempts
                         /\ uses'[b].sessions <= 1
                         /\ code'[b].state # "verified" => uses'[b].sessions = 0
    BY <1>2, <1>10, <2>0, <2>3 DEF CodesOK
  <2>7. \A q \in Procs, b \in Codes :
          Winner(q, b)' => /\ code'[b].state = "verified" /\ uses'[b].sessions = 0
                           /\ \A z \in Procs : Winner(z, b)' => z = q
    BY <1>2, <1>10, <2>0, <2>1, <2>4 DEF CodesOK
  <2>8. QED
    BY <2>5, <2>6, <2>7 DEF CodesOK
<1>13. CallsOK'
  <2>1. Lasting(c)'
    <3>1. c.tv <= Newest'
      BY <1>2, <1>3, <1>4, <1>8, NewestSame DEF IInv
    <3>2. Exists(t)'
      BY <1>6 DEF Exists
    <3>3. t # 0
      BY TokenFacts
    <3>4. QED
      BY <1>3, <1>6, <1>8, <3>1, <3>2, <3>3 DEF Lasting, WithToken, WithHeir, WithNone
  <2>2. CallOK(c)' /\ Plain(c)
    BY <1>8, <2>1 DEF CallOK, Delicate, WithHeir, Plain
  <2>3. ASSUME NEW q \in Procs, NEW e \in Call, e = calls[q] PROVE Delicate(e)'
    <3>1. CallOK(e)
      BY <2>3 DEF IInv, CallsOK
    <3>2. QED
      BY <1>2, <1>3, <1>5, <3>1, GrownRest
  <2>4. QED
    BY <1>6, <1>8, <1>11, <2>2, <2>3, PlainAparts, CallsKept
<1>14. Unborn'
  <2>1. \A u \in Tokens : Exists(u) => u # t
    BY <1>5 DEF Grows
  <2>2. \A q \in Procs : /\ calls[q].token # t /\ calls[q].next # t
    BY <2>1, TokenFacts DEF IInv, CallsOK, CallOK, Lasting
  <2>3. ASSUME NEW q \in Procs, NewBorn(calls'[q]), q # p
        PROVE  /\ Untouched(calls[q].next)'
               /\ \A z \in Procs : /\ calls'[z].token # calls'[q].next
                                   /\ z # q => calls'[z].next # calls'[q].next
    <3>1. NewBorn(calls[q]) /\ calls'[q] = calls[q]
      BY <1>9, <2>3
    <3>2. PICK r \in Tokens : r = calls[q].next /\ Exists(r) /\ r # t
      BY <2>1, <3>1 DEF IInv, CallsOK, CallOK, Lasting, NewBorn
    <3>3. Untouched(r)
      BY <3>1, <3>2 DEF IInv, Unborn
    <3>4. Untouched(r)'
      BY <1>2, <1>3, <1>5, <3>2, <3>3, GrownRest
    <3>5. Untouched(calls[q].next)'
      BY <3>1, <3>2, <3>4 DEF Untouched
    <3>6. \A z \in Procs : /\ calls[z].token # r /\ (z # q => calls[z].next # r)
      BY <3>1, <3>2 DEF IInv, Unborn
    <3>7. \A z \in Procs : /\ calls'[z].token # r /\ (z # q => calls'[z].next # r)
      BY <1>1, <1>8, <1>9, <3>2, <3>6
    <3>8. QED
      BY <3>1, <3>2, <3>5, <3>7
  <2>4. /\ Untouched(calls[p].next)'
        /\ \A z \in Procs : /\ calls'[z].token # calls'[p].next
                            /\ z # p => calls'[z].next # calls'[p].next
    <3>1. \A u \in Tokens : token[u].root # t
      BY <1>5, NotThere DEF IInv, Grows
    <3>2. \A d \in Devices : held[d] # t
      BY <2>1 DEF IInv, HeldOK
    <3>3. Untouched(t)'
      BY <1>2, <1>6, <3>1, <3>2 DEF Untouched
    <3>4. Untouched(calls[p].next)'
      BY <1>8, <1>9, <3>3 DEF Untouched
    <3>5. QED
      BY <1>1, <1>8, <1>9, <2>2, <3>4
  <2>5. QED
    BY <2>3, <2>4 DEF Unborn
<1>15. QED
  BY <1>6, <1>7, <1>11, <1>12, <1>13, <1>14 DEF IInv

\* The heir is of the session of the token it will replace, and is not linked yet
LEMMA CreateOK ==
  ASSUME IInv, NEW p \in Procs, NEW t \in Tokens, Create(p, t)
  PROVE  IInv'
<1>1. PICK was \in Call : was = calls[p] /\ Lasting(was) /\ Delicate(was)
  BY DEF IInv, TypeOK, CallsOK, CallOK
<1>2. /\ UNCHANGED <<kind, account, code, held, uses, closed, lowered>> /\ was.step = "create" /\ Fresh(t)
      /\ token' = IssuedTo(t, was.tv, token[was.token].root)
      /\ calls' = [calls EXCEPT ![p].step = IF kind = "customer" THEN "swap" ELSE "link",
                                ![p].next = t]
  BY <1>1 DEF Create, At
<1>3. PICK k \in Tokens : /\ k = was.token /\ Exists(k) /\ Linked(k) /\ was.tv = token[k].tv
                          /\ was.tv <= Newest /\ was.device \in Devices
                          /\ was.tv \in 0 .. MaxVersion
  BY <1>1, <1>2 DEF Lasting, WithToken, Call
<1>4. PICK r \in Tokens : r = token[k].root /\ Exists(r) /\ token[r].root = r
  BY <1>3 DEF IInv, TokensOK, TokenOK
<1>5. Grows(t, was.tv, r)
  BY <1>2, <1>3, <1>4 DEF Grows, Fresh, Exists
<1>6. r # t /\ k # t /\ \A u \in Tokens : Exists(u) => u # t
  BY <1>3, <1>4, <1>5 DEF Grows
<1>7. /\ token' \in [Tokens -> Token]
      /\ token'[t].state = "live" /\ token'[t].root = r /\ token'[t].next = 0
      /\ \A u \in Tokens : u # t => token'[u] = token[u]
      /\ \A u \in Tokens : Linked(u)' <=> Linked(u)
      /\ Evolves /\ TokensOK'
  BY <1>3, <1>5, <1>6, GrownTokens
<1>8. SessionsOK'
  <2>1. kind = "store" /\ ~lowered /\ was.tv = account.tv => r \notin closed
    BY <1>3, <1>4 DEF IInv, SessionsOK
  <2>2. QED
    BY <1>2, <1>3, <1>5, <2>1, GrownSessions
<1>9. HeldOK'
  BY <1>2, <1>3, <1>5, GrownRest
<1>10. kind \in {"customer", "store"}
  BY DEF IInv, TypeOK
<1>11. PICK c \in Call :
         /\ calls' = [calls EXCEPT ![p] = c]
         /\ c.step = IF kind = "customer" THEN "swap" ELSE "link"
         /\ c.device = was.device /\ c.token = k
         /\ c.next = t /\ c.tv = was.tv /\ c.code = was.code
  <2> DEFINE x == IF kind = "customer" THEN "swap" ELSE "link"
             e == [was EXCEPT !.step = x, !.next = t]
  <2>1. t \in 0 .. MaxTokens /\ x \in {"swap", "link"}
    BY TokenFacts
  <2> HIDE DEF x
  <2>2. /\ e \in Call /\ e.step = x /\ e.device = was.device /\ e.token = was.token
        /\ e.next = t /\ e.tv = was.tv /\ e.code = was.code
    BY <2>1 DEF Call
  <2>3. calls' = [calls EXCEPT ![p] = e]
    BY <1>1, <1>2 DEF Call, IInv, TypeOK, x
  <2>4. QED
    BY <1>3, <2>2, <2>3 DEF x
<1>12. /\ calls' \in [Procs -> Call] /\ calls'[p] = c
       /\ \A q \in Procs \ {p} : calls'[q] = calls[q]
  BY <1>11, CallSet
<1>13. TypeOK'
  BY <1>2, <1>7, <1>12 DEF IInv, TypeOK
<1>14. CodesOK'
  BY <1>2, <1>11, <1>12, CodesKept DEF CodesKeep
<1>15. \A q \in Procs : calls[q].next # t
  BY <1>6, TokenFacts DEF IInv, CallsOK, CallOK, Lasting
<1>16. CallsOK'
  <2>1. Lasting(c)'
    <3>1. c.tv <= Newest'
      BY <1>2, <1>3, <1>11, NewestSame DEF IInv
    <3>2. Exists(t)' /\ Exists(k)' /\ Linked(k)' /\ token'[k].root = r
      BY <1>3, <1>4, <1>6, <1>7 DEF Exists
    <3>3. t # 0 /\ kind' = kind
      BY <1>2, TokenFacts
    <3>4. QED
      BY <1>3, <1>7, <1>10, <1>11, <3>1, <3>2, <3>3 DEF Lasting, WithToken, WithHeir, WithNone
  <2>2. ASSUME NEW q \in Procs, NEW e \in Call, e = calls[q] PROVE Delicate(e)'
    <3>1. CallOK(e)
      BY <2>2 DEF IInv, CallsOK
    <3>2. QED
      BY <1>2, <1>3, <1>5, <3>1, GrownRest
  <2>3. Delicate(c)'
    <3>1. ~Linked(t)' /\ token'[t].state # "gone"
      BY <1>5, <1>7, NotThere DEF IInv, Grows
    <3>2. ASSUME kind' = "store"
          PROVE  /\ token'[k].next = 0
                 /\ \A u \in Tokens : Linked(u)' /\ token'[u].root = token'[k].root => ~Unrevoked(u)'
      <4>1. /\ token[k].next = 0 /\ token'[k] = token[k]
            /\ \A u \in Tokens : Linked(u) /\ token[u].root = token[k].root => ~Unrevoked(u)
        BY <1>1, <1>2, <1>3, <1>6, <1>7, <3>2 DEF Delicate
      <4>2. \A u \in Tokens : Linked(u)' => Linked(u) /\ token'[u] = token[u]
        BY <1>7, <3>1
      <4>3. QED
        BY <4>1, <4>2 DEF Unrevoked
    <3>3. QED
      BY <1>2, <1>10, <1>11, <3>1, <3>2 DEF Delicate, WithHeir
  <2>4. Aparts(p, c)
    <3>1. \A q \in Procs \ {p} : Apart(was, calls[q]) /\ Apart(calls[q], was)
      BY <1>1 DEF IInv, CallsOK
    <3>2. QED
      BY <1>2, <1>3, <1>10, <1>11, <1>15, <3>1 DEF Aparts, Apart, WithHeir
  <2>5. QED
    BY <1>7, <1>11, <1>13, <2>1, <2>2, <2>3, <2>4, CallsKept DEF CallOK
<1>17. Unborn'
  <2>1. \A q \in Procs : NewBorn(calls[q]) => /\ Untouched(calls[q].next)
                                              /\ calls[q].next # k /\ calls[q].next # t
                                              /\ calls[q].next \in Tokens
                                              /\ Exists(calls[q].next)
    BY <1>1, <1>3, <1>15 DEF IInv, Unborn, CallsOK, CallOK, Lasting, NewBorn
  <2>2. Clear(p, c)
    BY <1>10, <1>11, <2>1 DEF Clear, NewBorn
  <2>3. ASSUME NEW q \in Procs, NEW x \in Tokens, NewBorn(calls[q]), calls'[q] = calls[q],
               calls[q].next = x
        PROVE  Untouched(x)'
    <3>1. Exists(x) /\ x # r /\ Untouched(x)
      BY <1>3, <1>4, <2>1, <2>3 DEF Untouched
    <3>2. QED
      BY <1>2, <1>3, <1>5, <3>1, GrownRest
  <2>4. QED
    BY <1>11, <1>13, <2>2, <2>3, UnbornKept
<1>18. QED
  BY <1>7, <1>8, <1>9, <1>13, <1>14, <1>16, <1>17 DEF IInv

-----------------------------------------------------------------------------
(* The heir is linked to the token it replaces                             *)

\* n becomes the heir of k, which is of no more use
Joins(k, n) ==
  /\ Exists(k) /\ Linked(k) /\ token[k].next = 0
  /\ Exists(n) /\ ~Linked(n) /\ token[n].root = token[k].root
  /\ token[n].state = "gone" => Deleted
  /\ \A u \in Tokens : Linked(u) /\ token[u].root = token[k].root /\ u # k => ~Unrevoked(u)
  /\ kind = "customer" => token[k].root \notin closed

LEMMA JoinStep ==
  ASSUME IInv, NEW k \in Tokens, NEW n \in Tokens, Joins(k, n), NEW r \in Token,
         token' = [token EXCEPT ![k] = r],
         r.root = token[k].root, r.tv = token[k].tv, r.next = n,
         r.state \in {"revoked", "gone"}, r.state = "gone" => token[k].state = "gone",
         UNCHANGED <<kind, account, code, held, uses, closed, lowered>>,
         NEW p \in Procs, calls[p].token = k, calls[p].next = n, Step(p, "reply"),
         calls[p].step = IF kind = "customer" THEN "swap" ELSE "link"
  PROVE  IInv'
<1>1. /\ token' \in [Tokens -> Token] /\ token'[k] = r
      /\ \A u \in Tokens : u # k => token'[u] = token[u]
  BY DEF IInv, TypeOK
<1>2. n # k /\ n # 0
  BY TokenFacts DEF Joins
<1>3. \A u \in Tokens : Linked(u)' <=> Linked(u) \/ u = n
  <2>1. ASSUME NEW u \in Tokens PROVE Linked(u)' <=> Linked(u) \/ u = n
    <3>1. token'[u].root = u <=> token[u].root = u
      BY <1>1
    <3>2. (\E x \in Tokens : token'[x].next = u) <=> (\E x \in Tokens : token[x].next = u) \/ u = n
      <4>1. u # 0 /\ token[k].next = 0 /\ token'[k].next = n
        BY <1>1, TokenFacts DEF Joins
      <4>2. QED
        BY <1>1, <4>1
    <3>3. QED
      BY <3>1, <3>2 DEF Linked
  <2>2. QED
    BY <2>1
<1>4. \A u \in Tokens : /\ token'[u].root = token[u].root /\ token'[u].tv = token[u].tv
                        /\ Exists(u)' <=> Exists(u)
                        /\ Unrevoked(u)' <=> Unrevoked(u) /\ u # k
                        /\ token'[u].state = "gone" => token[u].state = "gone"
  <2>1. ASSUME NEW u \in Tokens
        PROVE  /\ token'[u].root = token[u].root /\ token'[u].tv = token[u].tv
               /\ Exists(u)' <=> Exists(u)
               /\ Unrevoked(u)' <=> Unrevoked(u) /\ u # k
               /\ token'[u].state = "gone" => token[u].state = "gone"
    <3>1. CASE u = k
      BY <1>1, <3>1 DEF Exists, Unrevoked, Joins
    <3>2. CASE u # k
      BY <1>1, <3>2 DEF Exists, Unrevoked
    <3>3. QED
      BY <3>1, <3>2
  <2>2. QED
    BY <2>1
<1>5. Evolves
  <2>1. Newest <= Newest' /\ (lowered => lowered')
    BY NewestSame DEF IInv
  <2>2. QED
    BY <1>3, <1>4, <2>1 DEF Evolves, Deleted
<1>6. TokensOK'
  <2> SUFFICES ASSUME NEW u \in Tokens PROVE TokenOK(u)'
    BY DEF TokensOK
  <2>0. TokenOK(u)
    BY DEF IInv, TokensOK
  <2>1. CASE ~Exists(u)
    <3>1. u # k /\ u # n
      BY <2>1 DEF Joins
    <3>2. token'[u] = NoToken
      BY <1>1, <2>0, <2>1, <3>1 DEF TokenOK
    <3>3. QED
      BY <3>2, NoTokenType DEF TokenOK, Exists
  <2>2. CASE Exists(u)
    <3>1. PICK x \in Tokens : /\ x = token'[u].root /\ Exists(x)' /\ token'[x].root = x
      BY <1>4, <2>0, <2>2 DEF TokenOK
    <3>2. /\ Exists(u)' /\ Exists(token[u].root)' /\ token'[token'[u].root].root = token'[u].root
          /\ token'[u].tv <= Newest'
      BY <1>4, <2>0, <2>2, <3>1, NewestSame DEF TokenOK, Exists, IInv
    <3>3. token'[u].next # 0 => /\ token'[u].next \in Tokens
                                /\ token'[token'[u].next].root = token'[u].root
                                /\ token'[token'[u].next].state # "none"
                                /\ ~Unrevoked(u)'
      <4>1. CASE u = k
        BY <1>1, <1>2, <1>4, <4>1 DEF Joins, Exists
      <4>2. CASE u # k
        BY <1>1, <1>4, <2>0, <4>2 DEF TokenOK, Exists
      <4>3. QED
        BY <4>1, <4>2
    <3>4. token'[u].state = "gone" /\ Linked(u)' => Deleted'
      BY <1>3, <1>4, <2>0 DEF TokenOK, Deleted, Joins
    <3>5. QED
      BY <3>1, <3>2, <3>3, <3>4 DEF TokenOK, Exists
  <2>3. QED
    BY <2>1, <2>2
<1>7. SessionsOK'
  <2>0. SessionsOK
    BY DEF IInv
  <2>1. \A u \in Tokens : Linked(u)' /\ Unrevoked(u)' /\ token[u].root = token[k].root => u = n
    BY <1>3, <1>4 DEF Joins
  <2>2. \A x, u \in Tokens :
          /\ Linked(x)' /\ Unrevoked(x)' /\ Linked(u)' /\ Unrevoked(u)'
          /\ token'[x].root = token'[u].root
          => x = u
    <3>1. ASSUME NEW x \in Tokens, NEW u \in Tokens,
                 Linked(x)', Unrevoked(x)', Linked(u)', Unrevoked(u)',
                 token'[x].root = token'[u].root
          PROVE  x = u
      <4>1. token[x].root = token[u].root
        BY <1>4, <3>1
      <4>2. CASE token[x].root = token[k].root
        BY <2>1, <3>1, <4>1, <4>2
      <4>3. CASE token[x].root # token[k].root
        BY <1>3, <1>4, <2>0, <3>1, <4>1, <4>3 DEF SessionsOK, Joins
      <4>4. QED
        BY <4>2, <4>3
    <3>2. QED
      BY <3>1
  <2>3. ASSUME kind' = "customer", NEW u \in Tokens, Linked(u)', Unrevoked(u)'
        PROVE  token'[u].root \notin closed'
    BY <1>3, <1>4, <2>0, <2>3 DEF SessionsOK, Joins
  <2>4. ASSUME kind' = "store", ~lowered', NEW u \in Tokens, Exists(u)', token'[u].tv = account'.tv
        PROVE  token'[u].root \notin closed'
    BY <1>4, <2>0, <2>4 DEF SessionsOK
  <2>5. \A x \in closed' : Exists(x)'
    BY <1>4, <2>0 DEF SessionsOK, IInv, TypeOK
  <2>6. QED
    BY <2>2, <2>3, <2>4, <2>5 DEF SessionsOK
<1>8. HeldOK'
  <2>0. HeldOK
    BY DEF IInv
  <2>1. ASSUME NEW d \in Devices, held'[d] \in Tokens
        PROVE  Exists(held[d])' /\ Linked(held[d])'
    <3>1. PICK u \in Tokens : u = held'[d] /\ u = held[d]
      BY <2>1
    <3>2. Exists(u)' /\ Linked(u)'
      BY <1>3, <1>4, <2>0, <3>1 DEF HeldOK
    <3>3. QED
      BY <3>1, <3>2 DEF Exists, Linked
  <2>2. \A d, e \in Devices :
          /\ held'[d] \in Tokens /\ held'[e] \in Tokens
          /\ token'[held'[d]].root = token'[held'[e]].root
          => d = e
    BY <1>4, <2>0 DEF HeldOK
  <2>3. ASSUME kind' = "customer", NEW u \in Tokens, token'[u].state = "revoked",
               token'[u].next = 0, token'[u].root \notin closed',
               NEW d \in Devices, held'[d] \in Tokens
        PROVE  token'[held'[d]].root # token'[u].root
    <3>1. u # k
      BY <1>1, <1>2, <2>3
    <3>2. QED
      BY <1>1, <1>4, <2>0, <2>3, <3>1 DEF HeldOK
  <2>4. QED
    BY <2>1, <2>2, <2>3 DEF HeldOK
<1>9. PICK c \in Call :
        /\ calls' = [calls EXCEPT ![p] = c]
        /\ c.step = "reply" /\ c.device = calls[p].device /\ c.token = k
        /\ c.next = n /\ c.tv = calls[p].tv /\ c.code = calls[p].code
  BY NextCall
<1>10. /\ calls' \in [Procs -> Call] /\ calls'[p] = c
       /\ \A q \in Procs \ {p} : calls'[q] = calls[q]
  BY <1>9, CallSet
<1>11. TypeOK'
  BY <1>1, <1>10 DEF IInv, TypeOK
<1>12. CodesOK'
  BY <1>9, <1>10, CodesKept DEF CodesKeep
<1>13. kind \in {"customer", "store"}
  BY DEF IInv, TypeOK
<1>14. CallsOK'
  <2>1. CallOK(c)'
    <3>1. Lasting(calls[p])
      BY DEF IInv, CallsOK, CallOK
    <3>2. c.device \in Devices /\ c.tv <= Newest'
      BY <1>9, <3>1, NewestSame DEF Lasting, IInv
    <3>3. Exists(k)' /\ Exists(n)' /\ Linked(n)' /\ token'[n].root = token'[k].root
      BY <1>3, <1>4 DEF Joins
    <3>4. Lasting(c)'
      BY <1>2, <1>9, <3>2, <3>3 DEF Lasting, WithToken, WithHeir, WithNone
    <3>5. QED
      BY <1>9, <3>4 DEF CallOK, Delicate, WithHeir
  <2>2. ASSUME NEW q \in Procs, NEW e \in Call, e = calls[q], e = calls'[q] PROVE Delicate(e)'
    <3>1. Lasting(e) /\ Delicate(e)
      BY <2>2 DEF IInv, CallsOK, CallOK
    <3>2. q # p
      BY <1>9, <1>10, <2>2
    <3>3. Apart(calls[p], e)
      BY <2>2, <3>2 DEF IInv, CallsOK
    <3>4. e.step \in WithHeir => /\ e.next \in Tokens /\ ~Linked(e.next)' /\ e.next # k
      <4>1. e.step \in WithHeir => e.next \in Tokens /\ ~Linked(e.next) /\ e.next # n
        BY <3>1, <3>3 DEF Lasting, Delicate, Apart, WithHeir
      <4>2. QED
        BY <1>3, <4>1 DEF Joins
    <3>5. ASSUME kind' = "store", e.step \in {"create", "link"}
          PROVE  /\ token'[e.token].next = 0
                 /\ \A u \in Tokens :
                      Linked(u)' /\ token'[u].root = token'[e.token].root => ~Unrevoked(u)'
      <4>1. token[k].root # token[e.token].root
        BY <3>3, <3>5 DEF Apart
      <4>2. e.token \in Tokens /\ token'[e.token] = token[e.token]
        BY <1>1, <3>1, <3>5, <4>1 DEF Lasting, WithToken
      <4>3. /\ token[e.token].next = 0
            /\ \A u \in Tokens : Linked(u) /\ token[u].root = token[e.token].root => ~Unrevoked(u)
        BY <3>1, <3>5 DEF Delicate
      <4>4. QED
        BY <1>3, <1>4, <4>1, <4>2, <4>3 DEF Joins
    <3>6. QED
      BY <1>1, <3>1, <3>4, <3>5 DEF Delicate, WithHeir, Deleted
  <2>3. Aparts(p, c)
    BY <1>9, PlainAparts DEF Plain, WithHeir
  <2>4. QED
    BY <1>5, <1>9, <1>11, <2>1, <2>2, <2>3, CallsKept
<1>15. Unborn'
  <2>1. Clear(p, c)
    BY <1>9, ClearOf DEF NewBorn
  <2>2. ASSUME NEW q \in Procs, NEW x \in Tokens, NewBorn(calls[q]), calls'[q] = calls[q],
               calls[q].next = x
        PROVE  Untouched(x)'
    <3>1. Untouched(x) /\ x # k
      BY <2>2 DEF IInv, Unborn
    <3>2. QED
      BY <1>1, <1>4, <3>1 DEF Untouched
  <2>3. QED
    BY <1>9, <1>11, <2>1, <2>2, UnbornKept
<1>16. QED
  BY <1>6, <1>7, <1>8, <1>11, <1>12, <1>14, <1>15 DEF IInv

LEMMA SwapOK ==
  ASSUME IInv, NEW p \in Procs, Swap(p)
  PROVE  IInv'
<1>1. /\ UNCHANGED <<kind, account, code, held, uses, closed, lowered>> /\ calls[p].step = "swap"
  BY DEF Swap, At
<1>2. CallOK(calls[p]) /\ kind = "customer"
  BY <1>1 DEF IInv, CallsOK, CallOK, Lasting
<1>3. PICK k \in Tokens, n \in Tokens :
        /\ k = calls[p].token /\ Exists(k) /\ Linked(k)
        /\ n = calls[p].next /\ Exists(n) /\ ~Linked(n) /\ token[n].root = token[k].root
        /\ token[n].state = "gone" => Deleted
  BY <1>1, <1>2 DEF CallOK, Lasting, Delicate, WithToken, WithHeir
<1>4. CASE ~Unrevoked(k)
  <2>1. Step(p, "discard") /\ UNCHANGED token
    BY <1>3, <1>4 DEF Swap
  <2>2. PICK c \in Call :
          /\ calls' = [calls EXCEPT ![p] = c]
          /\ c.step = "discard" /\ c.device = calls[p].device /\ c.token = k
          /\ c.next = n /\ c.tv = calls[p].tv /\ c.code = calls[p].code
    BY <1>3, <2>1, NextCall
  <2>3. CallOK(c)
    <3>1. Lasting(calls[p]) /\ n # 0
      BY <1>2, TokenFacts DEF CallOK
    <3>2. Lasting(c)
      BY <1>1, <1>2, <1>3, <1>4, <2>2, <3>1 DEF Lasting, WithToken, WithHeir, WithNone
    <3>3. QED
      BY <1>2, <1>3, <2>2, <3>2 DEF CallOK, Delicate
  <2>4. Aparts(p, c) /\ Clear(p, c)
    <3>1. \A q \in Procs \ {p} : Apart(calls[p], calls[q]) /\ Apart(calls[q], calls[p])
      BY DEF IInv, CallsOK
    <3>2. Aparts(p, c)
      BY <1>1, <1>2, <1>3, <2>2, <3>1 DEF Aparts, Apart, WithHeir
    <3>3. Clear(p, c)
      BY <1>3, <2>2, ClearOf DEF NewBorn
    <3>4. QED
      BY <3>2, <3>3
  <2>5. /\ calls' \in [Procs -> Call] /\ calls'[p] = c
        /\ \A q \in Procs \ {p} : calls'[q] = calls[q]
    BY <2>2, CallSet
  <2>6. TypeOK'
    BY <1>1, <2>1, <2>5 DEF IInv, TypeOK
  <2>7. CodesOK'
    BY <1>1, <2>2, <2>5, CodesKept DEF CodesKeep
  <2>8. QED
    BY <1>1, <2>1, <2>2, <2>3, <2>4, <2>6, <2>7, CallStep DEF Narrows, Deleted
<1>5. CASE Unrevoked(k)
  <2>1. /\ token' = [token EXCEPT ![k].state = "revoked", ![k].next = n, ![k].window = TRUE]
        /\ Step(p, "reply")
    BY <1>3, <1>5 DEF Swap
  <2> DEFINE r == [token[k] EXCEPT !.state = "revoked", !.next = n, !.window = TRUE]
  <2>2. /\ r \in Token
        /\ r.root = token[k].root /\ r.tv = token[k].tv /\ r.next = n /\ r.state = "revoked"
    <3>1. token[k] \in Token /\ n \in 0 .. MaxTokens
      BY TokenFacts DEF IInv, TypeOK
    <3>2. QED
      BY <3>1 DEF Token
  <2>3. token' = [token EXCEPT ![k] = r]
    BY <2>1 DEF IInv, TypeOK, Token
  <2> HIDE DEF r
  <2>4. Joins(k, n)
    <3>1. token[k].next = 0
      BY <1>5 DEF IInv, TokensOK, TokenOK
    <3>2. /\ token[k].root \notin closed
          /\ \A u \in Tokens : Linked(u) /\ token[u].root = token[k].root /\ u # k => ~Unrevoked(u)
      BY <1>2, <1>3, <1>5 DEF IInv, SessionsOK
    <3>3. QED
      BY <1>3, <3>1, <3>2 DEF Joins
  <2>5. QED
    BY <1>1, <1>2, <1>3, <2>1, <2>2, <2>3, <2>4, JoinStep
<1>6. QED
  BY <1>4, <1>5

LEMMA LinkOK ==
  ASSUME IInv, NEW p \in Procs, Link(p)
  PROVE  IInv'
<1>1. /\ UNCHANGED <<kind, account, code, held, uses, closed, lowered>> /\ calls[p].step = "link"
      /\ Step(p, "reply")
      /\ token' = [token EXCEPT ![calls[p].token].next = calls[p].next]
  BY DEF Link, At
<1>2. CallOK(calls[p]) /\ kind = "store"
  BY <1>1 DEF IInv, CallsOK, CallOK, Lasting
<1>3. PICK k \in Tokens, n \in Tokens :
        /\ k = calls[p].token /\ Exists(k) /\ Linked(k) /\ token[k].next = 0
        /\ n = calls[p].next /\ Exists(n) /\ ~Linked(n) /\ token[n].root = token[k].root
        /\ token[n].state = "gone" => Deleted
        /\ \A t \in Tokens : Linked(t) /\ token[t].root = token[k].root => ~Unrevoked(t)
  BY <1>1, <1>2 DEF CallOK, Lasting, Delicate, WithToken, WithHeir
<1>4. Joins(k, n)
  BY <1>2, <1>3 DEF Joins
<1>5. PICK x \in {"revoked", "gone"}, w \in BOOLEAN : x = token[k].state /\ w = token[k].window
  BY <1>3 DEF Exists, Unrevoked, IInv, TypeOK, Token
<1> DEFINE r == [token[k] EXCEPT !.state = x, !.next = n, !.window = w]
<1>6. r \in Token /\ r.root = token[k].root /\ r.tv = token[k].tv /\ r.next = n /\ r.state = x
  <2>1. token[k] \in Token /\ n \in 0 .. MaxTokens
    BY TokenFacts DEF IInv, TypeOK
  <2>2. QED
    BY <1>5, <2>1 DEF Token
<1>7. token' = [token EXCEPT ![k] = r]
  <2>1. token[k] \in Token /\ n \in 0 .. MaxTokens
    BY TokenFacts DEF IInv, TypeOK
  <2>2. [token[k] EXCEPT !.next = n] = r
    BY <1>5, <2>1 DEF Token
  <2>3. QED
    BY <1>1, <1>3, <2>2
<1> HIDE DEF r
<1>8. QED
  BY <1>1, <1>2, <1>3, <1>4, <1>5, <1>6, <1>7, JoinStep

-----------------------------------------------------------------------------
(* The theorems                                                            *)

LEMMA InitOK ==
  ASSUME Init
  PROVE  IInv
<1>1. /\ token = [t \in Tokens |-> NoToken] /\ calls = [p \in Procs |-> IdleCall]
      /\ code = [c \in Codes |-> [state |-> "none", expired |-> FALSE, attempts |-> 0]]
      /\ uses = [c \in Codes |-> [tried |-> 0, sessions |-> 0]] /\ closed = {}
      /\ lowered = FALSE /\ kind \in {"customer", "store"}
      /\ \A d \in Devices : held[d] \in {Legacy, Null}
  BY DEF Init
<1>2. account \in Account /\ held \in [Devices -> Tokens \cup {Legacy, Null}]
  <2>1. 0 \in 0 .. MaxVersion
    BY SessionsAssumption
  <2>2. account \in Account
    <3>1. PICK x \in {"none", "active"}, b \in BOOLEAN :
            account = [status |-> x, tv |-> 0, legacy |-> b]
      BY Zenon DEF Init
    <3>2. QED
      BY <2>1, <3>1 DEF Account
  <2>3. held \in [Devices -> Tokens \cup {Legacy, Null}]
    BY DEF Init
  <2>4. QED
    BY <2>2, <2>3
<1>3. TypeOK
  <2>1. code \in [Codes -> Code]
    BY <1>1, SessionsAssumption DEF Code
  <2>2. QED
    BY <1>1, <1>2, <2>1, NoTokenType, IdleType DEF TypeOK
<1>4. TokensOK
  BY <1>1, NoTokenType DEF TokensOK, TokenOK, Exists
<1>5. \A t \in Tokens : ~Exists(t) /\ ~Unrevoked(t)
  BY <1>1, NoTokenType DEF Exists, Unrevoked
<1>6. SessionsOK
  BY <1>1, <1>5 DEF SessionsOK
<1>7. CallsOK
  BY <1>1, <1>3, IdleOK DEF CallsOK
<1>8. CodesOK
  BY <1>1, IdleType DEF CodesOK, Winner
<1>9. HeldOK
  BY <1>1, TokenFacts, NoTokenType DEF HeldOK
<1>10. Unborn
  BY <1>1, <1>3, IdleOK DEF Unborn
<1>11. QED
  BY <1>3, <1>4, <1>6, <1>7, <1>8, <1>9, <1>10 DEF IInv

LEMMA StepOK ==
  ASSUME IInv, [Next]_vars
  PROVE  IInv'
<1>1. CASE UNCHANGED vars
  BY <1>1, StutterOK
<1>2. ASSUME NEW p \in Procs, SignIn(p) PROVE IInv'
  BY <1>2, LoginOK, ClaimOK, ActivateOK, SpendOK, SendCodeOK, VerifyBeginOK, ReserveOK,
     IssueOK, UpgradeOK, StoreLoginOK DEF SignIn
<1>3. ASSUME NEW p \in Procs, Renew(p) PROVE IInv'
  BY <1>3, RefreshOK, CheckAccountOK, SwapOK, DiscardOK, FindAgainOK, TakeOK, LinkOK,
     CloseOK, CreateOK DEF Renew
<1>4. ASSUME NEW p \in Procs,
             Reply(p) \/ Drop(p) \/ ChangePassword(p) \/ Bump(p) \/ EndAll(p)
      PROVE  IInv'
  BY <1>4, ReplyOK, DropOK, ChangePasswordOK, BumpOK, EndAllOK
<1>5. QED
  BY <1>1, <1>2, <1>3, <1>4, SignOutOK, DeleteUserOK, DeleteStaleOK, ExpireCodeOK,
     ExpireTokenOK, CloseWindowOK DEF Next

\* The invariant is inductive
THEOREM Inductive == Spec => []IInv
<1>1. Init => IInv
  BY InitOK
<1>2. IInv /\ [Next]_vars => IInv'
  BY StepOK
<1>3. QED
  BY <1>1, <1>2, PTL DEF Spec

\* The rows, the devices and the requests keep their types
THEOREM TypeCorrect == Spec => []TypeOK
<1>1. IInv => TypeOK
  BY DEF IInv
<1>2. QED
  BY <1>1, Inductive, PTL

(***************************************************************************)
(* No more guesses are compared with a code than its row has attempts, and *)
(* it opens one session: only one request verifies it, and only that one   *)
(* issues a token for it.                                                  *)
(***************************************************************************)
THEOREM CodeCorrect == Spec => []CodeOpensOneSession
<1>1. IInv => CodeOpensOneSession
  <2> SUFFICES ASSUME IInv, NEW c \in Codes
               PROVE  uses[c].tried <= MaxAttempts /\ uses[c].sessions <= 1
    BY DEF CodeOpensOneSession
  <2>1. code[c].attempts \in 0 .. MaxAttempts
    BY DEF IInv, TypeOK, Code
  <2>2. QED
    BY <2>1, SessionsAssumption DEF IInv, CodesOK
<1>2. QED
  BY <1>1, Inductive, PTL

\* A token that was or may yet be given out is a first one or somebody's heir
LEMMA GivenLinked ==
  ASSUME IInv, NEW t \in Tokens, Given(t)
  PROVE  Linked(t)
<1>1. CASE token[t].root = t \/ \E u \in Tokens : token[u].next = t
  BY <1>1 DEF Linked
<1>2. ASSUME NEW d \in Devices, held[d] = t PROVE Linked(t)
  BY <1>2 DEF IInv, HeldOK
<1>3. ASSUME NEW p \in Procs, At(p, "reply"), calls[p].next = t PROVE Linked(t)
  BY <1>3 DEF IInv, CallsOK, CallOK, Lasting, At
<1>4. QED
  BY <1>1, <1>2, <1>3 DEF Given

(***************************************************************************)
(* Of the tokens given out in a session one at most can be used, whatever  *)
(* requests came together.                                                 *)
(***************************************************************************)
THEOREM OneTokenCorrect == Spec => []OneTokenPerSession
<1>1. IInv => OneTokenPerSession
  <2> SUFFICES ASSUME IInv, NEW t \in Tokens, NEW u \in Tokens,
                      Live(t), Live(u), Given(t), Given(u), token[t].root = token[u].root
               PROVE  t = u
    BY DEF OneTokenPerSession
  <2>1. Linked(t) /\ Linked(u)
    BY GivenLinked
  <2>2. Unrevoked(t) /\ Unrevoked(u)
    BY DEF Live, Unrevoked
  <2>3. QED
    BY <2>1, <2>2 DEF IInv, SessionsOK
<1>2. QED
  BY <1>1, Inductive, PTL

\* A reuse ends every session of the customer, also one that is being renewed
THEOREM ReuseCorrect == Spec => []ReuseEndsSessions
<1>1. IInv => ReuseEndsSessions
  <2> SUFFICES ASSUME IInv, kind = "customer", NEW t \in Tokens, Live(t), Given(t)
               PROVE  token[t].root \notin closed
    BY DEF ReuseEndsSessions
  <2>1. Linked(t) /\ Unrevoked(t)
    BY GivenLinked DEF Live, Unrevoked
  <2>2. QED
    BY <2>1 DEF IInv, SessionsOK
<1>2. QED
  BY <1>1, Inductive, PTL

\* A new password ends every earlier session of the store account by its version
\* alone, unless overlapping changes have written a lower version back
THEOREM PasswordCorrect == Spec => []PasswordEndsSessions
<1>1. IInv => PasswordEndsSessions
  <2> SUFFICES ASSUME IInv, kind = "store", ~lowered, NEW t \in Tokens,
                      Live(t), token[t].tv = account.tv
               PROVE  token[t].root \notin closed
    BY DEF PasswordEndsSessions
  <2>1. Exists(t)
    BY DEF Live, Exists
  <2>2. QED
    BY <2>1 DEF IInv, SessionsOK
<1>2. QED
  BY <1>1, Inductive, PTL

\* A token that is of no use and was not replaced: its session is over
LEMMA DeadEnd ==
  ASSUME IInv, kind = "customer", NEW d \in Devices, held[d] \in Tokens,
         ~Replaced(held[d]), ~Live(held[d])
  PROVE  \/ token[held[d]].state = "expired" \/ Deleted
         \/ token[held[d]].root \in closed
<1>1. PICK t \in Tokens : t = held[d] /\ Exists(t) /\ Linked(t)
  BY DEF IInv, HeldOK
<1>2. token[t].state \in {"expired", "revoked", "gone"}
  BY <1>1 DEF IInv, TypeOK, Token, Exists, Live
<1>3. CASE token[t].state = "gone"
  BY <1>1, <1>3 DEF IInv, TokensOK, TokenOK
<1>4. CASE token[t].state = "revoked"
  <2>1. token[t].next = 0
    BY <1>1, <1>4 DEF Replaced
  <2>2. QED
    BY <1>1, <1>4, <2>1 DEF IInv, HeldOK
<1>5. QED
  BY <1>1, <1>2, <1>3, <1>4

LEMMA GoOnStep ==
  ASSUME IInv, Next, NEW d \in Devices, kind = "customer",
         held[d] \notin {Null, Legacy}, held'[d] = Null
  PROVE  \/ SignOut(d)
         \/ token[held[d]].state = "expired" \/ account.status = "deleted"
         \/ token[held[d]].root \in closed'
<1>1. /\ held \in [Devices -> Tokens \cup {Legacy, Null}] /\ held'[d] # held[d]
      /\ held[d] \in Tokens /\ Exists(held[d]) /\ held[d] # Legacy
  BY DEF IInv, TypeOK, HeldOK
<1>2. \A e, t : Refused(e, t) => e = d /\ t = held[d]
  BY <1>1 DEF Refused
<1>3. ASSUME NEW p \in Procs, SignIn(p) PROVE FALSE
  <2>1. ASSUME NEW e \in Devices, Upgrade(p, e) PROVE FALSE
    BY <1>1, <1>2, <2>1 DEF Upgrade
  <2>2. held' = held \/ \E e \in Devices : Upgrade(p, e)
    BY <1>3 DEF SignIn, Login, Claim, Activate, Spend, SendCode, VerifyBegin, Reserve, Issue,
                StoreLogin
  <2>3. QED
    BY <1>1, <2>1, <2>2
<1>4. ASSUME NEW p \in Procs, NEW e \in Devices, Refresh(p, e)
      PROVE  \/ token[held[d]].state = "expired" \/ account.status = "deleted"
             \/ token[held[d]].root \in closed'
  <2>1. /\ Refused(e, held[e]) /\ ~Live(held[e]) /\ ~Replaced(held[e])
        /\ UNCHANGED closed
    BY <1>1, <1>4 DEF Refresh
  <2>2. QED
    BY <1>1, <1>2, <2>1, DeadEnd DEF Deleted
<1>5. ASSUME NEW p \in Procs, FindAgain(p)
      PROVE  \/ token[held[d]].state = "expired" \/ account.status = "deleted"
             \/ token[held[d]].root \in closed'
  <2>1. /\ At(p, "again") /\ Refused(calls[p].device, calls[p].token)
        /\ ~Replaced(calls[p].token) /\ UNCHANGED closed
    BY <1>1, <1>5 DEF FindAgain, Refuse
  <2>2. ~Live(calls[p].token)
    BY <2>1 DEF IInv, CallsOK, CallOK, Lasting, At, Unrevoked, Live
  <2>3. QED
    BY <1>1, <1>2, <2>1, <2>2, DeadEnd DEF Deleted
<1>6. ASSUME NEW p \in Procs, Close(p) PROVE token[held[d]].root \in closed'
  BY <1>1, <1>6 DEF Close, Roots, Exists
<1>7. ASSUME NEW p \in Procs, Reply(p) PROVE FALSE
  <2>1. /\ calls[p].next \in Tokens
        /\ held' = [held EXCEPT ![calls[p].device] =
                      IF @ = calls[p].token THEN calls[p].next ELSE @]
    BY <1>7 DEF Reply, At, IInv, CallsOK, CallOK, Lasting
  <2>2. held'[d] = held[d] \/ held'[d] = calls[p].next
    BY <1>1, <2>1
  <2>3. QED
    BY <1>1, <2>1, <2>2, TokenFacts
<1>8. ASSUME NEW e \in Devices, SignOut(e) PROVE SignOut(d)
  BY <1>1, <1>8 DEF SignOut
<1>9. ASSUME NEW p \in Procs,
             CheckAccount(p) \/ Swap(p) \/ Discard(p) \/ Take(p) \/ Link(p)
               \/ (\E t \in Tokens : Create(p, t))
               \/ Drop(p) \/ ChangePassword(p) \/ Bump(p) \/ EndAll(p)
      PROVE  FALSE
  BY <1>1, <1>9 DEF CheckAccount, Swap, Discard, Take, Link, Create, Drop, ChangePassword,
                    Bump, EndAll
<1>10. ASSUME DeleteUser \/ DeleteStale \/ (\E c \in Codes : ExpireCode(c))
                \/ (\E t \in Tokens : ExpireToken(t) \/ CloseWindow(t))
       PROVE  FALSE
  BY <1>1, <1>10 DEF DeleteUser, DeleteStale, ExpireCode, ExpireToken, CloseWindow
<1>11. QED
  BY <1>3, <1>4, <1>5, <1>6, <1>7, <1>8, <1>9, <1>10 DEF Next, Renew

(***************************************************************************)
(* A customer's device is never signed out by answers that were lost or    *)
(* requests that came together: a token that is revoked and has no heir is *)
(* nobody's any more, or the session was ended on purpose.                 *)
(***************************************************************************)
THEOREM GoOnCorrect == Spec => SessionsGoOn
<1>1. IInv /\ [Next]_vars =>
        [\A d \in Devices :
           LET t == held[d] IN
           (kind = "customer" /\ t \notin {Null, Legacy} /\ held'[d] = Null) =>
             \/ SignOut(d)
             \/ token[t].state = "expired" \/ account.status = "deleted"
             \/ token[t].root \in closed']_vars
  BY GoOnStep
<1>2. QED
  BY <1>1, Inductive, PTL DEF Spec, SessionsGoOn

=============================================================================
