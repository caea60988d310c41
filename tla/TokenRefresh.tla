----------------------------- MODULE TokenRefresh -----------------------------
(***************************************************************************)
(* AuthCodePKCEFlow (connectors/oauth/flows/AuthCodePKCE.ts) over its      *)
(* TokenStore: the tokens of a user's accounts, refreshed by whichever     *)
(* getToken() finds one expired, beside authorization flows that come      *)
(* back, revocations and accounts that are renamed.  Every storage access  *)
(* and every request is an await between two steps.  The provider either   *)
(* rotates refresh tokens (one use each) or leaves them out of its answers *)
(* to a refresh; an authorization may bring one or not.  The locks and the *)
(* flows are kept under the name a caller uses, the tokens under a key in  *)
(* which a name left out is the account called default.                    *)
(***************************************************************************)
EXTENDS Naturals, FiniteSets

CONSTANTS
  Callers, Accounts, Flows, Renamings,
  Unnamed, Default, \* an account left out, and the one it stands for
  None,
  Asked,         \* bound: the names the callers ask for
  Authorized,    \* bound: the names users authorize
  MaxIssued,     \* bound: refresh tokens the provider issues
  Rotates        \* the kinds of provider a run looks at, a subset of BOOLEAN

ASSUME RefreshAssumption ==
  /\ Default \in Accounts
  /\ Asked \cup Authorized \subseteq Accounts \cup {Unnamed}
  /\ MaxIssued \in Nat /\ Rotates \subseteq BOOLEAN
  /\ None \notin Callers \cup Accounts \cup Flows \cup {Unnamed}

VARIABLES
  store,               \* the stored token of each account
  step, account, held, \* getToken(): where a call is, for which name, and the refresh token in hand
  refreshLocks,        \* the refresh the lock of each name stands for
  waitsFor,            \* the refresh a call waits for
  states, codeVerifiers, \* the flow whose state and verifier are kept for each name
  flow,                \* where each authorization flow is
  rekey,               \* rekeyAccount(); disturbed is history: another deleted a token under its names
  rotates, grants, issued, \* provider: its kind, the refresh tokens it accepts and has issued
  gap                  \* history: whether the account had nothing to refresh with during the call,
                       \* as its user had not authorized, or got no refresh token

calls == <<step, account, held, refreshLocks, waitsFor>>
flows == <<states, codeVerifiers, flow>>
provider == <<rotates, grants, issued>>
vars == <<store, calls, flows, rekey, provider, gap>>

\* Where the token of a name is kept (TokenStore.getScopedKey).
Names == Accounts \cup {Unnamed}
Scoped(a) == IF a = Unnamed THEN Default ELSE a

\* bare is history: no authorization gave the account a refresh token.
NoToken == [refresh |-> 0, fresh |-> FALSE, present |-> FALSE, bare |-> TRUE]
Token(refresh, bare) == [refresh |-> refresh, fresh |-> TRUE, present |-> TRUE, bare |-> bare]
Tokens == [refresh : 0..MaxIssued, fresh : BOOLEAN, present : BOOLEAN, bare : BOOLEAN]

NoRekey == [step |-> "none", old |-> None, new |-> None, token |-> NoToken, disturbed |-> FALSE]
Rekeys == [step : {"none", "removing", "storing", "clearing"},
           old : Accounts \cup {None}, new : Accounts \cup {None},
           token : Tokens, disturbed : BOOLEAN]
NoFlow == [step |-> "new", account |-> None, sent |-> None, token |-> 0]

Refreshing == {"reading", "asking", "storing"}
Settled == {"idle", "refused"}

\* The state and the verifier kept for a name are of the same flow.
TypeOK ==
  /\ store \in [Accounts -> Tokens]
  /\ step \in [Callers -> Settled \cup Refreshing \cup {"validating", "taking", "looking", "waiting"}]
  /\ account \in [Callers -> Names \cup {None}]
  /\ held \in [Callers -> 0..MaxIssued]
  /\ refreshLocks \in [Names -> Callers \cup {None}]
  /\ waitsFor \in [Callers -> Callers \cup {None}]
  /\ states \in [Names -> Flows \cup {None}] /\ codeVerifiers = states
  /\ flow \in [Flows -> [step : {"new", "open", "asking", "storing", "over"},
                         account : Names \cup {None}, sent : Flows \cup {None}, token : 0..MaxIssued]]
  /\ rekey \in [Renamings -> Rekeys]
  /\ rotates \in BOOLEAN /\ grants \subseteq 1..issued /\ issued \in 0..MaxIssued
  /\ gap \in [Callers -> BOOLEAN]

Init ==
  /\ store = [a \in Accounts |-> NoToken]
  /\ step = [c \in Callers |-> "idle"] /\ account = [c \in Callers |-> None]
  /\ held = [c \in Callers |-> 0] /\ waitsFor = [c \in Callers |-> None]
  /\ refreshLocks = [a \in Names |-> None]
  /\ states = [a \in Names |-> None] /\ codeVerifiers = [a \in Names |-> None]
  /\ flow = [f \in Flows |-> NoFlow]
  /\ rekey = [r \in Renamings |-> NoRekey]
  /\ rotates \in Rotates /\ grants = {} /\ issued = 0
  /\ gap = [c \in Callers |-> FALSE]

-----------------------------------------------------------------------------
(* TokenStore                                                               *)

\* One access of the storage that writes or deletes the token of an account.
storeToken(a, token) ==
  /\ store' = [store EXCEPT ![a] = token]
  /\ gap' = [c \in Callers |-> gap[c] \/ (Scoped(account[c]) = a /\ token.bare)]

\* A renaming whose token somebody else deletes, under either name, is disturbed.
Disturbed(r, a) == [rekey[r] EXCEPT !.disturbed = @ \/ a \in {rekey[r].old, rekey[r].new}]

\* The clock: a token comes within the buffer of its expiry.
Expire(a) ==
  /\ store[a].fresh
  /\ store' = [store EXCEPT ![a].fresh = FALSE]
  /\ UNCHANGED <<calls, flows, rekey, provider, gap>>

\* revokeToken() and removeAccount() end by clearing the account; the provider
\* may have been told before.
clear(a) ==
  /\ store[a].present
  /\ storeToken(a, NoToken)
  /\ rekey' = [r \in Renamings |-> Disturbed(r, a)]
  /\ UNCHANGED <<calls, flows, provider>>

RevokeAtProvider(a) ==
  /\ store[a].refresh \in grants
  /\ grants' = grants \ {store[a].refresh}
  /\ UNCHANGED <<store, calls, flows, rekey, rotates, issued, gap>>

\* rekeyAccount() reads the token under the old name.
rekeyAccount(r, old, new) ==
  /\ rekey[r] = NoRekey /\ old # new /\ store[old].present
  /\ rekey' = [rekey EXCEPT ![r] = [step |-> "removing", old |-> old, new |-> new,
                                   token |-> store[old], disturbed |-> FALSE]]
  /\ UNCHANGED <<store, calls, flows, provider, gap>>

\* Variant: the old name is deleted before the new one is stored.
RekeyWriteOldFirst(r, s) ==
  CASE s = "removing" -> <<rekey[r].old, NoToken, "storing">>
    [] s = "storing"  -> <<rekey[r].new, rekey[r].token, "clearing">>
    [] OTHER          -> <<rekey[r].old, NoToken, "none">>

\* What it writes then, one access after the other, and where it stands after that.
RekeyWrite(r, s) ==
  CASE s = "removing" -> <<rekey[r].new, NoToken, "storing">>
    [] s = "storing"  -> <<rekey[r].new, rekey[r].token, "clearing">>
    [] OTHER          -> <<rekey[r].old, NoToken, "none">>

RekeyStep(r) ==
  /\ rekey[r] # NoRekey
  /\ LET write == RekeyWrite(r, rekey[r].step) IN
     \/ /\ storeToken(write[1], write[2])
        /\ rekey' = [q \in Renamings |->
                       IF q = r THEN IF write[3] = "none" THEN NoRekey ELSE [rekey[r] EXCEPT !.step = write[3]]
                       ELSE IF write[2] = NoToken THEN Disturbed(q, write[1]) ELSE rekey[q]]
     \/ rekey' = [rekey EXCEPT ![r] = NoRekey] /\ UNCHANGED <<store, gap>>
  /\ UNCHANGED <<calls, flows, provider>>

-----------------------------------------------------------------------------
(* getToken() and refreshToken()                                            *)

Go(c, s) == step' = [step EXCEPT ![c] = s]

Stored(c) == store[Scoped(account[c])]

\* A call is over, with a token, with an error of the provider or the storage, or
\* because the user has to authorize.
Over(how) == IF how = "refused" THEN how ELSE "idle"

\* The call looks for a refresh to wait for, once, before its first await.
getToken(c, a) ==
  /\ step[c] \in Settled
  /\ account' = [account EXCEPT ![c] = a]
  /\ gap' = [gap EXCEPT ![c] = store[Scoped(a)].bare]
  /\ waitsFor' = [waitsFor EXCEPT ![c] = refreshLocks[a]]
  /\ Go(c, IF refreshLocks[a] # None THEN "waiting" ELSE "validating")
  /\ held' = [held EXCEPT ![c] = 0]
  /\ UNCHANGED <<store, refreshLocks, flows, rekey, provider>>

isValid(c) ==
  /\ step[c] = "validating"
  /\ Go(c, IF Stored(c).fresh THEN "taking" ELSE "looking")
  /\ UNCHANGED <<store, account, held, refreshLocks, waitsFor, flows, rekey, provider, gap>>

getAccessToken(c) ==
  /\ step[c] = "taking"
  /\ Go(c, IF Stored(c).present THEN Over("answered") ELSE "refused")
  /\ UNCHANGED <<store, account, held, refreshLocks, waitsFor, flows, rekey, provider, gap>>

\* With a refresh token the refresh starts, and the lock is set over whatever
\* lock there is by now.
hasRefreshToken(c) ==
  /\ step[c] = "looking"
  /\ IF Stored(c).refresh > 0
     THEN Go(c, "reading") /\ refreshLocks' = [refreshLocks EXCEPT ![account[c]] = c]
     ELSE Go(c, "refused") /\ UNCHANGED refreshLocks
  /\ UNCHANGED <<store, account, held, waitsFor, flows, rekey, provider, gap>>

\* Variant: the lock is removed only after a refresh that succeeded.
SettleKeepingLock(c, how) ==
  /\ step' = [d \in Callers |-> IF d = c \/ waitsFor[d] = c THEN Over(how) ELSE step[d]]
  /\ waitsFor' = [d \in Callers |-> IF waitsFor[d] = c THEN None ELSE waitsFor[d]]
  /\ held' = [held EXCEPT ![c] = 0]
  /\ refreshLocks' = [refreshLocks EXCEPT ![account[c]] = IF how = "answered" THEN None ELSE @]

\* The refresh of c ends for all who wait for it, and the lock of the name is
\* removed, whosever it is.
Settle(c, how) ==
  /\ step' = [d \in Callers |-> IF d = c \/ waitsFor[d] = c THEN Over(how) ELSE step[d]]
  /\ waitsFor' = [d \in Callers |-> IF waitsFor[d] = c THEN None ELSE waitsFor[d]]
  /\ held' = [held EXCEPT ![c] = 0]
  /\ refreshLocks' = [refreshLocks EXCEPT ![account[c]] = None]

getRefreshToken(c) ==
  /\ step[c] = "reading"
  /\ IF Stored(c).refresh = 0 THEN Settle(c, "refused")
     ELSE /\ held' = [held EXCEPT ![c] = Stored(c).refresh]
          /\ Go(c, "asking") /\ UNCHANGED <<refreshLocks, waitsFor>>
  /\ UNCHANGED <<store, account, flows, rekey, provider, gap>>

\* Variant: the response is stored as it comes.
AsAnswered(old, new) == new

\* A refresh token the response leaves out is the one that was used.
Preserved(old, new) == IF new = 0 THEN old ELSE new

\* The token request: the provider refuses it, or answers, and its answer may get
\* lost.  A second request without the client secret follows only a refusal.
AskProvider(c) ==
  /\ step[c] = "asking"
  /\ IF held[c] \in grants /\ (rotates => issued < MaxIssued)
     THEN \E lost \in BOOLEAN :
       LET new == IF rotates THEN issued + 1 ELSE 0 IN
       /\ grants' = IF rotates THEN (grants \ {held[c]}) \cup {new} ELSE grants
       /\ issued' = IF rotates THEN new ELSE issued
       /\ IF lost THEN Settle(c, "failed")
          ELSE /\ held' = [held EXCEPT ![c] = Preserved(@, new)]
               /\ Go(c, "storing") /\ UNCHANGED <<refreshLocks, waitsFor>>
     ELSE Settle(c, "failed") /\ UNCHANGED <<grants, issued>>
  /\ UNCHANGED <<store, account, flows, rekey, rotates, gap>>

\* The new token replaces whatever is stored by now.
StoreRefreshed(c) ==
  /\ step[c] = "storing"
  /\ \/ storeToken(Scoped(account[c]), Token(held[c], FALSE)) /\ Settle(c, "answered")
     \/ Settle(c, "failed") /\ UNCHANGED <<store, gap>>
  /\ UNCHANGED <<account, flows, rekey, provider>>

-----------------------------------------------------------------------------
(* getAuthorizationUrl() and exchangeCode()                                 *)

\* A new flow replaces the one its name had; those past their time are removed.
getAuthorizationUrl(f, a) ==
  /\ flow[f].step = "new"
  /\ flow' = [flow EXCEPT ![f] = [@ EXCEPT !.step = "open", !.account = a]]
  /\ \E expired \in SUBSET (Authorized \ {a}) :
       LET kept(m) == [x \in Names |-> IF x = a THEN f ELSE IF x \in expired THEN None ELSE m[x]]
       IN states' = kept(states) /\ codeVerifiers' = kept(codeVerifiers)
  /\ UNCHANGED <<store, calls, rekey, provider, gap>>

\* Variant: any flow of the name will do.
StateOfSome(f) == states[flow[f].account] # None

\* The state that comes back is the one kept for the name.
StateMatches(f) == states[flow[f].account] = f

exchangeCode(f) ==
  /\ flow[f].step = "open" /\ StateMatches(f)
  /\ flow' = [flow EXCEPT ![f] = [@ EXCEPT !.step = "asking", !.sent = codeVerifiers[flow[f].account]]]
  /\ UNCHANGED <<store, calls, states, codeVerifiers, rekey, provider, gap>>

\* The provider refuses the code, or answers, with a refresh token or without.
ExchangeAnswered(f) ==
  /\ flow[f].step = "asking"
  /\ \/ /\ issued < MaxIssued
        /\ issued' = issued + 1 /\ grants' = grants \cup {issued + 1}
        /\ flow' = [flow EXCEPT ![f] = [@ EXCEPT !.step = "storing", !.token = issued + 1]]
     \/ /\ flow' = [flow EXCEPT ![f] = [@ EXCEPT !.step = "storing", !.token = 0]]
        /\ UNCHANGED <<issued, grants>>
     \/ /\ flow' = [flow EXCEPT ![f] = [NoFlow EXCEPT !.step = "over"]]
        /\ UNCHANGED <<issued, grants>>
  /\ UNCHANGED <<store, calls, states, codeVerifiers, rekey, rotates, gap>>

\* The token is stored as it came, in the place of the one before and of its refresh
\* token, and then what is kept of a flow under the name is deleted.
ExchangeStores(f) ==
  LET a == flow[f].account IN
  /\ flow[f].step = "storing"
  /\ flow' = [flow EXCEPT ![f] = [NoFlow EXCEPT !.step = "over"]]
  /\ \/ /\ storeToken(Scoped(a), Token(flow[f].token, flow[f].token = 0))
        /\ states' = [states EXCEPT ![a] = None] /\ codeVerifiers' = [codeVerifiers EXCEPT ![a] = None]
     \/ UNCHANGED <<store, gap, states, codeVerifiers>>
  /\ UNCHANGED <<calls, rekey, provider>>

-----------------------------------------------------------------------------
CallStep(c) ==
  \/ isValid(c) \/ getAccessToken(c) \/ hasRefreshToken(c)
  \/ getRefreshToken(c) \/ AskProvider(c) \/ StoreRefreshed(c)

Next ==
  \/ \E c \in Callers : CallStep(c) \/ (\E a \in Asked : getToken(c, a))
  \/ \E a \in Accounts : Expire(a) \/ clear(a) \/ RevokeAtProvider(a)
  \/ \E r \in Renamings : RekeyStep(r) \/ (\E a, b \in Accounts : rekeyAccount(r, a, b))
  \/ \E f \in Flows :
       \/ exchangeCode(f) \/ ExchangeAnswered(f) \/ ExchangeStores(f)
       \/ \E a \in Authorized : getAuthorizationUrl(f, a)

Spec == Init /\ [][Next]_vars

-----------------------------------------------------------------------------
\* A user is asked to authorize again only if at some moment of the call the account
\* had no token, or one whose authorization brought no refresh token: refreshing,
\* also by several calls at once and by a provider that sends no new refresh token,
\* never loses the refresh token an account has.
RefusedOnlyWithoutToken == \A c \in Callers : step[c] = "refused" => gap[c]

\* A code is exchanged with the verifier of its own flow, whatever flows of the
\* account were started or finished in between.
VerifierOfItsFlow == \A f \in Flows : flow[f].sent \in {None, f}

\* Renaming an account does not lose its token, wherever it fails, unless somebody
\* else deletes it.
RenamingKeepsToken ==
  \A r \in Renamings : rekey[r] # NoRekey /\ ~rekey[r].disturbed =>
    store[rekey[r].old].present \/ store[rekey[r].new].present

\* A call waits only for a refresh that goes on, and for its own account: one that
\* failed does not answer later calls.
WaitsForARefresh ==
  \A c, d \in Callers : waitsFor[c] = d => step[d] \in Refreshing /\ account[d] = account[c]

\* "Store refresh locks per user+account to prevent concurrent refresh"
\* (AuthCodePKCE.ts:31): one refresh of a name goes on at a time.
OneRefresh ==
  \A a \in Names :
    Cardinality({c \in Callers : step[c] \in Refreshing /\ account[c] = a}) <= 1
=============================================================================
