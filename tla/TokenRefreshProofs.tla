-------------------------- MODULE TokenRefreshProofs --------------------------
(***************************************************************************)
(* The tokens of any number of accounts under any number of callers and    *)
(* authorization flows: nobody is asked to authorize again whose account   *)
(* had a refresh token all along, a code goes with its own verifier,       *)
(* renaming keeps the token and a call waits only for a refresh that goes  *)
(* on.                                                                     *)
(*                                                                         *)
(* Only an authorization stores a token that cannot be refreshed, since a  *)
(* refresh that gets no new refresh token stores the one it used; so a     *)
(* call that finds nothing to refresh with has seen the account without a  *)
(* token, or with one that came without a refresh token.  Whoever          *)
(* refreshes waits for nobody, so a refresh that settles takes all of its  *)
(* waiters and its lock with it, and no other refresh.                     *)
(***************************************************************************)
EXTENDS TokenRefresh, TLAPS

\* An account has a refresh token, and a token, unless no authorization brought it one.
Whole(token) == /\ token.refresh > 0 <=> ~token.bare
                /\ token.refresh > 0 => token.present
TokensWhole == \A a \in Accounts : Whole(store[a])

\* An account that a call is about has a refresh token, or was without one during the call.
GapsAreSeen == \A c \in Callers : account[c] \in Names => gap[c] \/ ~Stored(c).bare

\* What a call knows: its account, and behind the reading a refresh token.
StepsKnow ==
  \A c \in Callers :
    /\ step[c] # "idle" => account[c] \in Names
    /\ step[c] \in {"asking", "storing"} => held[c] > 0

\* A lock stands for a refresh of its name that goes on.
LocksAreHeld ==
  \A a \in Names : \A c \in Callers :
    refreshLocks[a] = c => step[c] \in Refreshing /\ account[c] = a

\* Whoever refreshes waits for nobody.
WaitersWait == \A c \in Callers : waitsFor[c] # None => step[c] = "waiting"

\* A renaming carries a token, which stays under the old name until it is under the
\* new one.
Knows(r) ==
  rekey[r] # NoRekey =>
    /\ rekey[r].step \in {"removing", "storing", "clearing"}
    /\ rekey[r].old \in Accounts /\ rekey[r].new \in Accounts /\ rekey[r].old # rekey[r].new
    /\ Whole(rekey[r].token) /\ rekey[r].token.present
    /\ ~rekey[r].disturbed => IF rekey[r].step = "clearing" THEN store[rekey[r].new].present
                              ELSE store[rekey[r].old].present
RekeyKnows == \A r \in Renamings : Knows(r)

\* A flow that was opened has a name.
FlowsKnow ==
  \A f \in Flows : flow[f].step \in {"open", "asking", "storing"} => flow[f].account \in Names

StoreInv == TokensWhole /\ GapsAreSeen
CallsInv == StepsKnow /\ LocksAreHeld /\ WaitersWait /\ WaitsForARefresh /\ RefusedOnlyWithoutToken
FlowsInv == FlowsKnow /\ VerifierOfItsFlow

IInv == TypeOK /\ StoreInv /\ CallsInv /\ RekeyKnows /\ FlowsInv

-----------------------------------------------------------------------------
LEMMA ConstantTypes ==
  MaxIssued \in Nat /\ None \notin Callers /\ None \notin Accounts /\ None \notin Flows /\ None \notin Names
BY RefreshAssumption DEF RefreshAssumption, Names

\* A name stands for an account, and what is no name for itself.
LEMMA ScopedNames ==
  /\ \A a \in Names : Scoped(a) \in Accounts
  /\ \A a \in Accounts : a \in Names
  /\ Scoped(None) = None
BY RefreshAssumption DEF RefreshAssumption, Names, Scoped

LEMMA InitIInv == Init => IInv
<1> SUFFICES ASSUME Init PROVE IInv
  OBVIOUS
<1> USE ConstantTypes
<1>1. NoToken \in Tokens /\ Whole(NoToken)
  BY DEF NoToken, Tokens, Whole
<1>2. store \in [Accounts -> Tokens] /\ TokensWhole
  BY <1>1 DEF Init, TokensWhole
<1>3. rekey \in [Renamings -> Rekeys]
  BY <1>1 DEF Init, NoRekey, Rekeys
<1>4. flow \in [Flows -> [step : {"new", "open", "asking", "storing", "over"},
                          account : Names \cup {None}, sent : Flows \cup {None}, token : 0..MaxIssued]]
  BY DEF Init, NoFlow
<1>5. rotates \in BOOLEAN
  BY RefreshAssumption DEF RefreshAssumption, Init
<1>6. TypeOK
  BY <1>2, <1>3, <1>4, <1>5 DEF Init, TypeOK, Settled, Refreshing
<1>7. GapsAreSeen /\ CallsInv
  BY DEF Init, GapsAreSeen, CallsInv, StepsKnow, LocksAreHeld, WaitersWait, WaitsForARefresh,
         RefusedOnlyWithoutToken
<1>8. RekeyKnows /\ FlowsInv
  BY DEF Init, RekeyKnows, Knows, FlowsInv, FlowsKnow, VerifierOfItsFlow, NoFlow
<1> QED
  BY <1>2, <1>6, <1>7, <1>8 DEF IInv, StoreInv

-----------------------------------------------------------------------------
(* The parts of the invariant, each with the steps that leave it alone      *)

CallTypes ==
  /\ step \in [Callers -> Settled \cup Refreshing \cup {"validating", "taking", "looking", "waiting"}]
  /\ account \in [Callers -> Names \cup {None}]
  /\ held \in [Callers -> 0..MaxIssued]
  /\ refreshLocks \in [Names -> Callers \cup {None}]
  /\ waitsFor \in [Callers -> Callers \cup {None}]

FlowTypes ==
  /\ states \in [Names -> Flows \cup {None}] /\ codeVerifiers = states
  /\ flow \in [Flows -> [step : {"new", "open", "asking", "storing", "over"},
                         account : Names \cup {None}, sent : Flows \cup {None}, token : 0..MaxIssued]]

RekeyTypes == rekey \in [Renamings -> Rekeys]

ProviderTypes == rotates \in BOOLEAN /\ grants \subseteq 1..issued /\ issued \in 0..MaxIssued

StorePart == store \in [Accounts -> Tokens] /\ gap \in [Callers -> BOOLEAN] /\ StoreInv
CallPart == CallTypes /\ StepsKnow /\ LocksAreHeld /\ WaitersWait /\ WaitsForARefresh
FlowPart == FlowTypes /\ FlowsInv
RekeyPart == RekeyTypes /\ RekeyKnows

LEMMA Parts ==
  IInv <=> StorePart /\ CallPart /\ RefusedOnlyWithoutToken /\ FlowPart /\ RekeyPart /\ ProviderTypes
BY Zenon DEF IInv, TypeOK, CallsInv, StorePart, CallPart, FlowPart, RekeyPart, ProviderTypes,
       CallTypes, FlowTypes, RekeyTypes

LEMMA NextParts ==
  StorePart' /\ CallPart' /\ RefusedOnlyWithoutToken' /\ FlowPart' /\ RekeyPart' /\ ProviderTypes' => IInv'
BY Zenon DEF IInv, TypeOK, CallsInv, StorePart, CallPart, FlowPart, RekeyPart, ProviderTypes,
       CallTypes, FlowTypes, RekeyTypes

LEMMA CallsUnchanged == ASSUME CallPart, UNCHANGED calls PROVE CallPart'
BY DEF CallPart, calls, CallTypes, StepsKnow, LocksAreHeld, WaitersWait, WaitsForARefresh

LEMMA FlowsUnchanged == ASSUME FlowPart, UNCHANGED flows PROVE FlowPart'
BY DEF FlowPart, flows, FlowTypes, FlowsInv, FlowsKnow, VerifierOfItsFlow

LEMMA ProviderUnchanged == ASSUME ProviderTypes, UNCHANGED provider PROVE ProviderTypes'
BY DEF ProviderTypes, provider

LEMMA StoreUnchanged == ASSUME StorePart, UNCHANGED <<store, gap, account>> PROVE StorePart'
BY DEF StorePart, StoreInv, TokensWhole, GapsAreSeen, Stored

\* A renaming is only disturbed by what takes a token away.
LEMMA RekeyUnchanged ==
  ASSUME RekeyPart, UNCHANGED rekey, \A a \in Accounts : store[a].present => store'[a].present
  PROVE  RekeyPart'
BY DEF RekeyPart, RekeyTypes, RekeyKnows, Knows

\* A refused call stays one for as long as gaps are only added.
LEMMA RefusedUnchanged ==
  ASSUME RefusedOnlyWithoutToken, UNCHANGED step, \A c \in Callers : gap[c] => gap'[c]
  PROVE  RefusedOnlyWithoutToken'
BY DEF RefusedOnlyWithoutToken

-----------------------------------------------------------------------------
(* The store                                                                *)

\* What one access writes: the token of one account, and a gap for the calls
\* about it if there is none.
LEMMA StoreWrites ==
  ASSUME StorePart, CallTypes, NEW a \in Accounts, NEW token \in Tokens, Whole(token),
         storeToken(a, token), UNCHANGED account
  PROVE  /\ StorePart'
         /\ store'[a] = token
         /\ \A b \in Accounts \ {a} : store'[b] = store[b]
         /\ \A c \in Callers : gap[c] => gap'[c]
<1>1. store' \in [Accounts -> Tokens] /\ store'[a] = token /\ \A b \in Accounts \ {a} : store'[b] = store[b]
  BY DEF StorePart, storeToken
<1>2. gap' \in [Callers -> BOOLEAN] /\ \A c \in Callers : gap[c] => gap'[c]
  <2>1. gap' = [c \in Callers |-> gap[c] \/ (Scoped(account[c]) = a /\ token.bare)]
    BY DEF storeToken
  <2>2. \A c \in Callers : gap[c] => gap'[c]
    BY <2>1
  <2>3. gap' \in [Callers -> BOOLEAN]
    BY <2>1, Zenon
  <2> QED
    BY <2>2, <2>3
<1>3. TokensWhole'
  BY <1>1 DEF StorePart, StoreInv, TokensWhole, Whole
<1>4. GapsAreSeen'
  <2> SUFFICES ASSUME NEW c \in Callers, account[c] \in Names
               PROVE  gap'[c] \/ ~store'[Scoped(account[c])].bare
    BY DEF GapsAreSeen, Stored
  <2>1. gap[c] \/ ~store[Scoped(account[c])].bare
    BY DEF StorePart, StoreInv, GapsAreSeen, Stored
  <2>2. Scoped(account[c]) = a /\ token.bare => gap'[c]
    BY DEF storeToken
  <2>3. Scoped(account[c]) \in Accounts
    BY ScopedNames
  <2> QED
    BY <1>1, <1>2, <2>1, <2>2, <2>3
<1> QED
  BY <1>1, <1>2, <1>3, <1>4 DEF StorePart, StoreInv

\* So what a token is written for keeps every account that has one.
LEMMA PresentWrites ==
  ASSUME StorePart, CallTypes, NEW a \in Accounts, NEW n \in 0..MaxIssued, NEW bare \in BOOLEAN,
         n > 0 <=> ~bare, storeToken(a, Token(n, bare)), UNCHANGED account
  PROVE  /\ StorePart'
         /\ \A b \in Accounts : store[b].present => store'[b].present
         /\ \A c \in Callers : gap[c] => gap'[c]
<1>1. Token(n, bare) \in Tokens /\ Token(n, bare).present /\ Whole(Token(n, bare))
  BY ConstantTypes DEF Token, Tokens, Whole
<1> QED
  BY <1>1, StoreWrites

LEMMA NoTokenIsWhole == NoToken \in Tokens /\ ~NoToken.present /\ Whole(NoToken)
BY ConstantTypes DEF NoToken, Tokens, Whole

\* A deletion keeps what the renamings know that it does not disturb.
LEMMA DeletionDisturbs ==
  ASSUME RekeyPart, NEW a \in Accounts, NEW r \in Renamings, rekey'[r] = Disturbed(r, a),
         \A b \in Accounts \ {a} : store'[b] = store[b]
  PROVE  rekey'[r] \in Rekeys /\ Knows(r)'
<1>1. rekey[r] \in Rekeys /\ Knows(r)
  BY DEF RekeyPart, RekeyTypes, RekeyKnows
<1>2. /\ rekey'[r] \in Rekeys
      /\ rekey'[r].step = rekey[r].step /\ rekey'[r].old = rekey[r].old /\ rekey'[r].new = rekey[r].new
      /\ rekey'[r].token = rekey[r].token
      /\ ~rekey'[r].disturbed => ~rekey[r].disturbed /\ a \notin {rekey[r].old, rekey[r].new}
  BY <1>1 DEF Disturbed, Rekeys
<1>3. CASE rekey[r] # NoRekey
  BY <1>1, <1>2, <1>3 DEF Knows, Whole
<1>4. CASE rekey[r] = NoRekey
  <2>1. NoRekey.disturbed = FALSE /\ NoRekey.old = None /\ NoRekey.new = None
    BY DEF NoRekey
  <2>2. a \notin {rekey[r].old, rekey[r].new} /\ rekey[r].disturbed = FALSE
    BY <1>4, <2>1, ConstantTypes
  <2>3. rekey'[r] = [NoRekey EXCEPT !.disturbed = FALSE]
    BY <1>4, <2>2 DEF Disturbed
  <2>4. rekey'[r] = NoRekey
    BY <2>3 DEF NoRekey
  <2> QED
    BY <1>2, <2>4 DEF Knows
<1> QED
  BY <1>3, <1>4, <1>2

LEMMA ExpireKeeps ==
  ASSUME IInv, NEW a \in Accounts, Expire(a)
  PROVE  IInv'
<1> USE Parts, NextParts
<1>1. UNCHANGED <<calls, flows, rekey, provider, gap>> /\ UNCHANGED <<step, account>>
  BY DEF Expire, calls
<1>2. /\ store' \in [Accounts -> Tokens]
      /\ \A b \in Accounts : /\ store'[b].present = store[b].present
                            /\ store'[b].refresh = store[b].refresh /\ store'[b].bare = store[b].bare
  BY DEF Expire, StorePart, Tokens
<1>3. StorePart'
  <2>1. TokensWhole'
    BY <1>2 DEF StorePart, StoreInv, TokensWhole, Whole
  <2>2. GapsAreSeen'
    BY <1>1, <1>2, ScopedNames DEF StorePart, StoreInv, GapsAreSeen, Stored
  <2> QED
    BY <1>1, <1>2, <2>1, <2>2 DEF StorePart, StoreInv
<1>4. CallPart' /\ FlowPart' /\ ProviderTypes'
  BY <1>1, CallsUnchanged, FlowsUnchanged, ProviderUnchanged
<1>5. RekeyPart' /\ RefusedOnlyWithoutToken'
  BY <1>1, <1>2, RekeyUnchanged, RefusedUnchanged
<1> QED
  BY <1>3, <1>4, <1>5

LEMMA ClearKeeps ==
  ASSUME IInv, NEW a \in Accounts, clear(a)
  PROVE  IInv'
<1> USE Parts, NextParts
<1>1. UNCHANGED <<calls, flows, provider>> /\ UNCHANGED <<step, account>> /\ storeToken(a, NoToken)
  BY DEF clear, calls
<1>2. StorePart' /\ (\A b \in Accounts \ {a} : store'[b] = store[b]) /\ \A c \in Callers : gap[c] => gap'[c]
  BY <1>1, NoTokenIsWhole, StoreWrites DEF CallPart
<1>3. CallPart' /\ FlowPart' /\ ProviderTypes' /\ RefusedOnlyWithoutToken'
  BY <1>1, <1>2, CallsUnchanged, FlowsUnchanged, ProviderUnchanged, RefusedUnchanged
<1>4. rekey' = [r \in Renamings |-> Disturbed(r, a)]
  BY DEF clear
<1>5. \A r \in Renamings : rekey'[r] = Disturbed(r, a)
  BY <1>4
<1>6. ASSUME NEW r \in Renamings PROVE rekey'[r] \in Rekeys /\ Knows(r)'
  BY <1>2, <1>5, DeletionDisturbs
<1>7. RekeyPart'
  <2>1. rekey' \in [Renamings -> Rekeys]
    BY <1>4, <1>5, <1>6
  <2> QED
    BY <1>6, <2>1 DEF RekeyPart, RekeyTypes, RekeyKnows
<1> QED
  BY <1>2, <1>3, <1>7

LEMMA RevokeAtProviderKeeps ==
  ASSUME IInv, NEW a \in Accounts, RevokeAtProvider(a)
  PROVE  IInv'
<1> USE Parts, NextParts
<1>1. UNCHANGED <<store, calls, flows, rekey, gap>> /\ UNCHANGED <<step, account>>
  BY DEF RevokeAtProvider, calls
<1>2. ProviderTypes'
  BY DEF RevokeAtProvider, ProviderTypes
<1>3. StorePart' /\ CallPart' /\ FlowPart' /\ RekeyPart' /\ RefusedOnlyWithoutToken'
  BY <1>1, StoreUnchanged, CallsUnchanged, FlowsUnchanged, RekeyUnchanged, RefusedUnchanged
<1> QED
  BY <1>2, <1>3

LEMMA RekeyStarts ==
  ASSUME IInv, NEW r \in Renamings, NEW old \in Accounts, NEW new \in Accounts, rekeyAccount(r, old, new)
  PROVE  IInv'
<1> USE Parts, NextParts
<1>1. UNCHANGED <<store, calls, flows, provider, gap>> /\ UNCHANGED <<step, account>>
  BY DEF rekeyAccount, calls
<1>2. StorePart' /\ CallPart' /\ FlowPart' /\ ProviderTypes' /\ RefusedOnlyWithoutToken'
  BY <1>1, StoreUnchanged, CallsUnchanged, FlowsUnchanged, ProviderUnchanged, RefusedUnchanged
<1> DEFINE started == [step |-> "removing", old |-> old, new |-> new, token |-> store[old], disturbed |-> FALSE]
<1>3. store[old] \in Tokens /\ store[old].present /\ Whole(store[old]) /\ old # new
  BY DEF rekeyAccount, StorePart, StoreInv, TokensWhole
<1>4. started \in Rekeys /\ rekey' = [rekey EXCEPT ![r] = started] /\ rekey \in [Renamings -> Rekeys]
  BY <1>3 DEF rekeyAccount, Rekeys, RekeyPart, RekeyTypes
<1>5. /\ rekey' \in [Renamings -> Rekeys] /\ rekey'[r] = started
      /\ \A q \in Renamings \ {r} : rekey'[q] = rekey[q]
  BY <1>4, Zenon
<1>6. Knows(r)'
  BY <1>1, <1>3, <1>5 DEF Knows, Whole
<1>7. \A q \in Renamings \ {r} : Knows(q)'
  BY <1>1, <1>5 DEF RekeyPart, RekeyKnows, Knows
<1>8. RekeyPart'
  BY <1>5, <1>6, <1>7 DEF RekeyPart, RekeyTypes, RekeyKnows
<1> QED
  BY <1>2, <1>8

\* One renaming goes on, and the others know what they did.
LEMMA RenamingsGo ==
  ASSUME NEW r \in Renamings, rekey' \in [Renamings -> Rekeys],
         Knows(r)', \A q \in Renamings \ {r} : Knows(q)'
  PROVE  RekeyPart'
BY DEF RekeyPart, RekeyTypes, RekeyKnows

LEMMA RekeyStepKeeps ==
  ASSUME IInv, NEW r \in Renamings, RekeyStep(r)
  PROVE  IInv'
<1> USE Parts, NextParts
<1> DEFINE next(s) == [rekey[r] EXCEPT !.step = s]
<1>1. UNCHANGED <<calls, flows, provider>> /\ UNCHANGED <<step, account>> /\ rekey[r] # NoRekey
  BY DEF RekeyStep, calls
<1>2. CallPart' /\ FlowPart' /\ ProviderTypes' /\ CallTypes
  BY <1>1, CallsUnchanged, FlowsUnchanged, ProviderUnchanged DEF CallPart
<1>3. /\ rekey[r].step \in {"removing", "storing", "clearing"}
      /\ rekey[r].old \in Accounts /\ rekey[r].new \in Accounts /\ rekey[r].old # rekey[r].new
      /\ rekey[r].token \in Tokens /\ rekey[r].token.present /\ Whole(rekey[r].token)
      /\ ~rekey[r].disturbed => IF rekey[r].step = "clearing" THEN store[rekey[r].new].present
                                ELSE store[rekey[r].old].present
  BY <1>1 DEF RekeyPart, RekeyTypes, RekeyKnows, Knows, Rekeys
<1>4. rekey \in [Renamings -> Rekeys] /\ NoRekey \in Rekeys
  BY NoTokenIsWhole DEF RekeyPart, RekeyTypes, NoRekey, Rekeys
<1>5. CASE rekey' = [rekey EXCEPT ![r] = NoRekey] /\ UNCHANGED <<store, gap>>
  <2>1. rekey' \in [Renamings -> Rekeys] /\ rekey'[r] = NoRekey /\ \A q \in Renamings \ {r} : rekey'[q] = rekey[q]
    BY <1>4, <1>5, Zenon
  <2>2. Knows(r)' /\ \A q \in Renamings \ {r} : Knows(q)'
    BY <1>5, <2>1 DEF RekeyPart, RekeyKnows, Knows
  <2> QED
    BY <1>1, <1>2, <1>5, <2>1, <2>2, RenamingsGo, StoreUnchanged, RefusedUnchanged
<1>6. ASSUME NEW a \in Accounts, storeToken(a, NoToken), NEW to \in Rekeys,
             rekey' = [q \in Renamings |-> IF q = r THEN to ELSE Disturbed(q, a)],
             to = NoRekey \/ (a = rekey[r].new /\ to = next("storing") /\ rekey[r].step = "removing")
      PROVE  IInv'
  <2>1. /\ StorePart' /\ (\A b \in Accounts \ {a} : store'[b] = store[b])
        /\ \A c \in Callers : gap[c] => gap'[c]
    BY <1>1, <1>2, <1>6, NoTokenIsWhole, StoreWrites
  <2>2. rekey'[r] = to /\ \A q \in Renamings \ {r} : rekey'[q] = Disturbed(q, a)
    BY <1>6
  <2>3. \A q \in Renamings \ {r} : rekey'[q] \in Rekeys /\ Knows(q)'
    BY <2>1, <2>2, DeletionDisturbs
  <2>4. rekey' \in [Renamings -> Rekeys]
    BY <1>6, <2>2, <2>3
  <2>5. Knows(r)'
    <3>1. CASE to = NoRekey
      BY <2>2, <3>1 DEF Knows
    <3>2. CASE a = rekey[r].new /\ to = next("storing") /\ rekey[r].step = "removing"
      <4>1. /\ to.step = "storing" /\ to.old = rekey[r].old /\ to.new = rekey[r].new
            /\ to.token = rekey[r].token /\ to.disturbed = rekey[r].disturbed
        BY <1>4, <3>2 DEF Rekeys
      <4>2. store'[rekey[r].old] = store[rekey[r].old]
        BY <1>3, <2>1, <3>2
      <4> QED
        BY <1>3, <2>2, <3>2, <4>1, <4>2 DEF Knows, Whole
    <3> QED
      BY <1>6, <3>1, <3>2
  <2> QED
    BY <1>1, <1>2, <2>1, <2>3, <2>4, <2>5, RenamingsGo, RefusedUnchanged
<1>7. CASE /\ rekey[r].step = "storing" /\ storeToken(rekey[r].new, rekey[r].token)
           /\ rekey' = [rekey EXCEPT ![r] = next("clearing")]
  <2>1. /\ StorePart' /\ store'[rekey[r].new] = rekey[r].token
        /\ (\A b \in Accounts \ {rekey[r].new} : store'[b] = store[b])
        /\ \A c \in Callers : gap[c] => gap'[c]
    BY <1>1, <1>2, <1>3, <1>7, StoreWrites
  <2>2. \A b \in Accounts : store[b].present => store'[b].present
    BY <1>3, <2>1
  <2>3. /\ next("clearing") \in Rekeys /\ next("clearing").step = "clearing"
        /\ next("clearing").old = rekey[r].old /\ next("clearing").new = rekey[r].new
        /\ next("clearing").token = rekey[r].token
    BY <1>4 DEF Rekeys
  <2>4. /\ rekey' \in [Renamings -> Rekeys] /\ rekey'[r] = next("clearing")
        /\ \A q \in Renamings \ {r} : rekey'[q] = rekey[q]
    BY <1>4, <1>7, <2>3, Zenon
  <2>5. Knows(r)'
    BY <1>3, <2>1, <2>3, <2>4 DEF Knows, Whole
  <2>6. \A q \in Renamings \ {r} : Knows(q)'
    BY <2>2, <2>4 DEF RekeyPart, RekeyKnows, Knows
  <2> QED
    BY <1>1, <1>2, <2>1, <2>4, <2>5, <2>6, RenamingsGo, RefusedUnchanged
<1>8. ASSUME storeToken(RekeyWrite(r, rekey[r].step)[1], RekeyWrite(r, rekey[r].step)[2]),
             rekey' = [q \in Renamings |->
                        IF q = r THEN IF RekeyWrite(r, rekey[r].step)[3] = "none" THEN NoRekey
                                      ELSE next(RekeyWrite(r, rekey[r].step)[3])
                        ELSE IF RekeyWrite(r, rekey[r].step)[2] = NoToken
                             THEN Disturbed(q, RekeyWrite(r, rekey[r].step)[1]) ELSE rekey[q]]
      PROVE  IInv'
  <2>1. CASE rekey[r].step = "removing"
    <3>1. RekeyWrite(r, rekey[r].step) = <<rekey[r].new, NoToken, "storing">>
      BY <2>1 DEF RekeyWrite
    <3>2. next("storing") \in Rekeys
      BY <1>4 DEF Rekeys
    <3> QED
      BY <1>3, <1>6, <1>8, <2>1, <3>1, <3>2
  <2>2. CASE rekey[r].step = "storing"
    <3>1. RekeyWrite(r, rekey[r].step) = <<rekey[r].new, rekey[r].token, "clearing">>
      BY <2>2 DEF RekeyWrite
    <3>2. rekey[r].token # NoToken
      BY <1>3, NoTokenIsWhole
    <3> DEFINE write == RekeyWrite(r, rekey[r].step)
    <3>3. write[1] = rekey[r].new /\ write[2] = rekey[r].token /\ write[3] = "clearing"
      BY <3>1
    <3>4. storeToken(rekey[r].new, rekey[r].token)
      BY <1>8, <3>3
    <3>5. rekey' = [q \in Renamings |->
                     IF q = r THEN IF write[3] = "none" THEN NoRekey ELSE next(write[3])
                     ELSE IF write[2] = NoToken THEN Disturbed(q, write[1]) ELSE rekey[q]]
      BY <1>8
    <3> HIDE DEF write, next
    <3>6. rekey' = [q \in Renamings |-> IF q = r THEN next("clearing") ELSE rekey[q]]
      BY <3>2, <3>3, <3>5
    <3>7. rekey' = [rekey EXCEPT ![r] = next("clearing")]
      BY <1>4, <3>6
    <3> QED
      BY <1>7, <2>2, <3>4, <3>7
  <2>3. CASE rekey[r].step = "clearing"
    <3>1. RekeyWrite(r, rekey[r].step) = <<rekey[r].old, NoToken, "none">>
      BY <2>3 DEF RekeyWrite
    <3> QED
      BY <1>3, <1>4, <1>6, <1>8, <3>1
  <2> QED
    BY <1>3, <2>1, <2>2, <2>3
<1> QED
  BY <1>5, <1>8 DEF RekeyStep

-----------------------------------------------------------------------------
(* getToken() and refreshToken()                                            *)

\* A refresh that settles takes its waiters and its lock with it.
LEMMA SettleKeeps ==
  ASSUME CallPart, NEW c \in Callers, NEW how, step[c] \in Refreshing, Settle(c, how), UNCHANGED account
  PROVE  /\ CallPart'
         /\ \A d \in Callers : step'[d] \in {step[d], "idle"} \/
              (how = "refused" /\ account[d] = account[c] /\ account[c] \in Names)
<1> USE ConstantTypes
<1>1. /\ step' = [d \in Callers |-> IF d = c \/ waitsFor[d] = c THEN Over(how) ELSE step[d]]
      /\ waitsFor' = [d \in Callers |-> IF waitsFor[d] = c THEN None ELSE waitsFor[d]]
      /\ held' = [held EXCEPT ![c] = 0]
      /\ refreshLocks' = [refreshLocks EXCEPT ![account[c]] = None]
  BY DEF Settle
<1>2. account[c] \in Names
  BY DEF CallPart, StepsKnow, Refreshing
<1>3. Over(how) \in {"idle", "refused"} /\ (Over(how) = "refused" => how = "refused")
  BY DEF Over
<1>4. \A d \in Callers : waitsFor[d] = c => account[d] = account[c] /\ step[d] = "waiting"
  BY DEF CallPart, WaitersWait, WaitsForARefresh
<1>5. waitsFor[c] = None
  BY DEF CallPart, WaitersWait, Refreshing
<1>6. CallTypes'
  BY <1>1, <1>2, <1>3 DEF CallPart, CallTypes, Settled
<1>7. StepsKnow'
  BY <1>1, <1>2, <1>3, <1>4 DEF CallPart, CallTypes, StepsKnow
<1>8. LocksAreHeld'
  <2> SUFFICES ASSUME NEW a \in Names, NEW d \in Callers, refreshLocks'[a] = d
               PROVE  step'[d] \in Refreshing /\ account[d] = a
    BY DEF LocksAreHeld
  <2>1. a # account[c] /\ refreshLocks[a] = d
    BY <1>1, <1>2 DEF CallPart, CallTypes
  <2>2. step[d] \in Refreshing /\ account[d] = a
    BY <2>1 DEF CallPart, LocksAreHeld
  <2>3. d # c /\ waitsFor[d] # c
    BY <2>1, <2>2, <1>4 DEF Refreshing
  <2> QED
    BY <1>1, <2>2, <2>3
<1>9. WaitersWait' /\ WaitsForARefresh'
  <2> SUFFICES ASSUME NEW e \in Callers, waitsFor'[e] # None
               PROVE  /\ step'[e] = "waiting"
                      /\ \A d \in Callers : waitsFor'[e] = d => step'[d] \in Refreshing /\ account[d] = account[e]
    BY DEF WaitersWait, WaitsForARefresh
  <2>1. waitsFor[e] # c /\ waitsFor'[e] = waitsFor[e] /\ waitsFor[e] # None /\ e # c
    BY <1>1, <1>5
  <2>2. step[e] = "waiting" /\ step'[e] = step[e]
    BY <1>1, <2>1 DEF CallPart, WaitersWait
  <2>3. ASSUME NEW d \in Callers, waitsFor'[e] = d
        PROVE  step'[d] \in Refreshing /\ account[d] = account[e]
    <3>1. d # c /\ step[d] \in Refreshing /\ account[d] = account[e]
      BY <2>1, <2>3 DEF CallPart, WaitsForARefresh
    <3>2. waitsFor[d] # c
      BY <3>1, <1>4 DEF Refreshing
    <3> QED
      BY <1>1, <3>1, <3>2
  <2> QED
    BY <2>2, <2>3
<1>10. ASSUME NEW d \in Callers
       PROVE  step'[d] \in {step[d], "idle"} \/ (how = "refused" /\ account[d] = account[c] /\ account[c] \in Names)
  BY <1>1, <1>2, <1>3, <1>4
<1> QED
  BY <1>6, <1>7, <1>8, <1>9, <1>10 DEF CallPart

\* Nobody is refused by a refresh that fails or succeeds, and by one that finds no
\* token only the calls about that account, whose gap was seen.
LEMMA SettleRefuses ==
  ASSUME CallPart, StorePart, RefusedOnlyWithoutToken, NEW c \in Callers, NEW how, step[c] \in Refreshing,
         Settle(c, how), UNCHANGED account, \A d \in Callers : gap[d] => gap'[d],
         how = "refused" => Stored(c).bare
  PROVE  RefusedOnlyWithoutToken'
<1> SUFFICES ASSUME NEW d \in Callers, step'[d] = "refused"
             PROVE  gap'[d]
  BY DEF RefusedOnlyWithoutToken
<1>1. step[d] = "refused" \/ (how = "refused" /\ account[d] = account[c] /\ account[c] \in Names)
  BY SettleKeeps
<1>2. gap[d]
  BY <1>1 DEF RefusedOnlyWithoutToken, StorePart, StoreInv, GapsAreSeen, Stored
<1> QED
  BY <1>2

\* One call goes on, which nobody waits for and which holds no lock, or which
\* refreshes before and after.
LEMMA GoKeeps ==
  ASSUME CallPart, NEW c \in Callers, NEW s, Go(c, s), UNCHANGED <<account, refreshLocks, waitsFor>>,
         s \in Settled \cup Refreshing \cup {"validating", "taking", "looking"},
         step[c] \notin {"idle", "waiting"},
         step[c] \in Refreshing => s \in Refreshing,
         held' \in [Callers -> 0..MaxIssued], \A d \in Callers \ {c} : held'[d] = held[d],
         s \in {"asking", "storing"} => held'[c] > 0
  PROVE  CallPart'
<1>1. step' = [step EXCEPT ![c] = s]
  BY DEF Go
<1>2. CallTypes'
  BY <1>1 DEF CallPart, CallTypes
<1>3. StepsKnow'
  BY <1>1 DEF CallPart, CallTypes, StepsKnow
<1>4. LocksAreHeld'
  BY <1>1 DEF CallPart, CallTypes, LocksAreHeld
<1>5. WaitersWait'
  BY <1>1 DEF CallPart, CallTypes, WaitersWait
<1>6. WaitsForARefresh'
  BY <1>1 DEF CallPart, CallTypes, WaitsForARefresh
<1> QED
  BY <1>2, <1>3, <1>4, <1>5, <1>6 DEF CallPart

\* What a call does to nothing but the calls keeps the rest.
LEMMA RestKeeps ==
  ASSUME IInv, UNCHANGED <<store, account, flows, rekey, gap>>
  PROVE  StorePart' /\ FlowPart' /\ RekeyPart'
<1> QED
  BY Parts, StoreUnchanged, FlowsUnchanged, RekeyUnchanged

LEMMA GetTokenKeeps ==
  ASSUME IInv, NEW c \in Callers, NEW a \in Names, getToken(c, a)
  PROVE  IInv'
<1> USE Parts, NextParts, ConstantTypes
<1>1. /\ step[c] \in Settled
      /\ account' = [account EXCEPT ![c] = a]
      /\ gap' = [gap EXCEPT ![c] = store[Scoped(a)].bare]
      /\ waitsFor' = [waitsFor EXCEPT ![c] = refreshLocks[a]]
      /\ step' = [step EXCEPT ![c] = IF refreshLocks[a] # None THEN "waiting" ELSE "validating"]
      /\ held' = [held EXCEPT ![c] = 0]
      /\ UNCHANGED <<store, refreshLocks, flows, rekey, provider>>
  BY DEF getToken, Go
<1>2. step[c] \notin Refreshing /\ step[c] # "waiting"
  BY <1>1 DEF Settled, Refreshing
<1>3. CallTypes'
  BY <1>1 DEF CallPart, CallTypes
<1>4. StepsKnow'
  BY <1>1 DEF CallPart, CallTypes, StepsKnow
<1>5. LocksAreHeld'
  BY <1>1, <1>2 DEF CallPart, CallTypes, LocksAreHeld
<1>6. WaitersWait'
  BY <1>1 DEF CallPart, CallTypes, WaitersWait
<1>7. WaitsForARefresh'
  <2> SUFFICES ASSUME NEW e \in Callers, NEW d \in Callers, waitsFor'[e] = d
               PROVE  step'[d] \in Refreshing /\ account'[d] = account'[e]
    BY DEF WaitsForARefresh
  <2>1. CASE e = c
    <3>1. refreshLocks[a] = d
      BY <1>1, <2>1 DEF CallPart, CallTypes
    <3>2. step[d] \in Refreshing /\ account[d] = a /\ d # c
      BY <3>1, <1>2 DEF CallPart, LocksAreHeld
    <3> QED
      BY <1>1, <2>1, <3>2 DEF CallPart, CallTypes
  <2>2. CASE e # c
    <3>1. waitsFor[e] = d
      BY <1>1, <2>2 DEF CallPart, CallTypes
    <3>2. step[d] \in Refreshing /\ account[d] = account[e] /\ d # c
      BY <3>1, <1>2 DEF CallPart, WaitsForARefresh
    <3> QED
      BY <1>1, <2>2, <3>2 DEF CallPart, CallTypes
  <2> QED
    BY <2>1, <2>2
<1>8. gap' \in [Callers -> BOOLEAN]
  <2>1. store[Scoped(a)].bare \in BOOLEAN /\ gap \in [Callers -> BOOLEAN]
    BY ScopedNames DEF StorePart, Tokens
  <2> QED
    BY <1>1, <2>1, Zenon
<1>9. StorePart'
  <2>1. TokensWhole'
    BY <1>1 DEF StorePart, StoreInv, TokensWhole
  <2>2. GapsAreSeen'
    BY <1>1 DEF StorePart, StoreInv, GapsAreSeen, Stored, CallPart, CallTypes
  <2> QED
    BY <1>1, <1>8, <2>1, <2>2 DEF StorePart, StoreInv
<1>10. RefusedOnlyWithoutToken'
  <2> SUFFICES ASSUME NEW d \in Callers, step'[d] = "refused"
               PROVE  gap'[d]
    BY DEF RefusedOnlyWithoutToken
  <2>1. d # c /\ step[d] = "refused"
    BY <1>1 DEF CallPart, CallTypes
  <2> QED
    BY <1>1, <2>1 DEF RefusedOnlyWithoutToken, StorePart
<1>11. FlowPart' /\ RekeyPart' /\ ProviderTypes'
  BY <1>1, FlowsUnchanged, RekeyUnchanged, ProviderUnchanged
<1> QED
  BY <1>3, <1>4, <1>5, <1>6, <1>7, <1>9, <1>10, <1>11 DEF CallPart

\* Only the last look at the store refuses a call that does not refresh.
LEMMA LooksKeep ==
  ASSUME IInv, NEW c \in Callers, isValid(c) \/ getAccessToken(c) \/ hasRefreshToken(c)
  PROVE  IInv'
<1> USE Parts, NextParts, ConstantTypes
<1>1. UNCHANGED <<store, account, held, waitsFor, flows, rekey, provider, gap>>
  BY DEF isValid, getAccessToken, hasRefreshToken
<1>2. StorePart' /\ FlowPart' /\ RekeyPart' /\ ProviderTypes'
  BY <1>1, RestKeeps, ProviderUnchanged
<1>3. account[c] \in Names /\ held \in [Callers -> 0..MaxIssued] /\ Scoped(account[c]) \in Accounts
  BY ScopedNames DEF CallPart, CallTypes, StepsKnow, isValid, getAccessToken, hasRefreshToken
<1>4. Stored(c).bare => gap[c]
  BY <1>3 DEF StorePart, StoreInv, GapsAreSeen
<1>5. Whole(Stored(c)) /\ Stored(c).refresh \in 0..MaxIssued
  BY <1>3 DEF StorePart, StoreInv, TokensWhole, Stored, Tokens
<1>6. PICK s : /\ Go(c, s)
               /\ s \in Settled \cup Refreshing \cup {"validating", "taking", "looking"}
               /\ s \notin {"asking", "storing"}
               /\ s = "refused" => Stored(c).bare
  <2>1. CASE isValid(c)
    BY <2>1 DEF isValid
  <2>2. CASE getAccessToken(c)
    BY <1>5, <2>2 DEF getAccessToken, Over, Settled, Whole
  <2>3. CASE hasRefreshToken(c)
    <3>1. CASE Stored(c).refresh > 0
      BY <2>3, <3>1 DEF hasRefreshToken, Refreshing
    <3>2. CASE ~(Stored(c).refresh > 0)
      BY <1>5, <2>3, <3>2 DEF hasRefreshToken, Settled, Whole
    <3> QED
      BY <3>1, <3>2
  <2> QED
    BY <2>1, <2>2, <2>3
<1>7. RefusedOnlyWithoutToken'
  <2> SUFFICES ASSUME NEW d \in Callers, step'[d] = "refused"
               PROVE  gap[d]
    BY <1>1 DEF RefusedOnlyWithoutToken
  <2>1. step[d] = "refused" \/ (d = c /\ s = "refused")
    BY <1>6 DEF Go, CallPart, CallTypes
  <2> QED
    BY <1>4, <1>6, <2>1 DEF RefusedOnlyWithoutToken
<1>8. CASE UNCHANGED refreshLocks
  <2>1. step[c] \notin {"idle", "waiting"} /\ step[c] \notin Refreshing
    BY DEF isValid, getAccessToken, hasRefreshToken, Refreshing
  <2>2. CallPart'
    BY <1>1, <1>3, <1>6, <1>8, <2>1, GoKeeps
  <2> QED
    BY <1>2, <1>7, <2>2
<1>9. CASE /\ hasRefreshToken(c) /\ Go(c, "reading")
           /\ refreshLocks' = [refreshLocks EXCEPT ![account[c]] = c]
  <2>1. step' = [step EXCEPT ![c] = "reading"] /\ step[c] = "looking"
    BY <1>9 DEF Go, hasRefreshToken
  <2>2. CallTypes'
    BY <1>1, <1>3, <1>9, <2>1 DEF CallPart, CallTypes, Refreshing
  <2>3. StepsKnow' /\ WaitersWait'
    BY <1>1, <1>3, <2>1 DEF CallPart, CallTypes, StepsKnow, WaitersWait
  <2>4. LocksAreHeld'
    <3> SUFFICES ASSUME NEW a \in Names, NEW d \in Callers, refreshLocks'[a] = d
                 PROVE  step'[d] \in Refreshing /\ account[d] = a
      BY <1>1 DEF LocksAreHeld
    <3>1. CASE a = account[c]
      BY <1>3, <1>9, <2>1, <3>1 DEF CallPart, CallTypes, Refreshing
    <3>2. CASE a # account[c]
      BY <1>3, <1>9, <2>1, <3>2 DEF CallPart, CallTypes, LocksAreHeld, Refreshing
    <3> QED
      BY <3>1, <3>2
  <2>5. WaitsForARefresh'
    BY <1>1, <2>1 DEF CallPart, CallTypes, WaitsForARefresh, Refreshing
  <2> QED
    BY <1>2, <1>7, <2>2, <2>3, <2>4, <2>5 DEF CallPart
<1> QED
  BY <1>8, <1>9 DEF isValid, getAccessToken, hasRefreshToken

LEMMA GetRefreshTokenKeeps ==
  ASSUME IInv, NEW c \in Callers, getRefreshToken(c)
  PROVE  IInv'
<1> USE Parts, NextParts, ConstantTypes
<1>1. UNCHANGED <<store, account, flows, rekey, provider, gap>> /\ step[c] = "reading"
  BY DEF getRefreshToken
<1>2. StorePart' /\ FlowPart' /\ RekeyPart' /\ ProviderTypes'
  BY <1>1, RestKeeps, ProviderUnchanged
<1>3. account[c] \in Names /\ step[c] \in Refreshing /\ Scoped(account[c]) \in Accounts
  BY <1>1, ScopedNames DEF CallPart, StepsKnow, Refreshing
<1>4. Stored(c).refresh \in 0..MaxIssued /\ Whole(Stored(c))
  BY <1>3 DEF StorePart, StoreInv, TokensWhole, Tokens, Stored
<1>5. CASE Stored(c).refresh = 0 /\ Settle(c, "refused")
  <2>1. Stored(c).bare
    BY <1>4, <1>5 DEF Whole
  <2> QED
    BY <1>1, <1>2, <1>3, <1>5, <2>1, SettleKeeps, SettleRefuses
<1>6. CASE /\ Stored(c).refresh # 0 /\ held' = [held EXCEPT ![c] = Stored(c).refresh]
           /\ Go(c, "asking") /\ UNCHANGED <<refreshLocks, waitsFor>>
  <2>1. /\ held' \in [Callers -> 0..MaxIssued] /\ held'[c] > 0
        /\ \A d \in Callers \ {c} : held'[d] = held[d]
    BY <1>4, <1>6 DEF CallPart, CallTypes
  <2>2. CallPart'
    BY <1>1, <1>6, <2>1, GoKeeps DEF Refreshing
  <2>3. RefusedOnlyWithoutToken'
    BY <1>1, <1>6 DEF RefusedOnlyWithoutToken, Go, CallPart, CallTypes
  <2> QED
    BY <1>2, <2>2, <2>3
<1> QED
  BY <1>5, <1>6 DEF getRefreshToken

LEMMA AskProviderKeeps ==
  ASSUME IInv, NEW c \in Callers, AskProvider(c)
  PROVE  IInv'
<1> USE Parts, NextParts, ConstantTypes
<1>1. UNCHANGED <<store, account, flows, rekey, rotates, gap>> /\ step[c] = "asking"
  BY DEF AskProvider
<1>2. StorePart' /\ FlowPart' /\ RekeyPart'
  BY <1>1, RestKeeps
<1>3. step[c] \in Refreshing /\ held[c] > 0 /\ held \in [Callers -> 0..MaxIssued]
  BY <1>1 DEF CallPart, CallTypes, StepsKnow, Refreshing
<1>4. CASE Settle(c, "failed") /\ ProviderTypes'
  BY <1>1, <1>2, <1>3, <1>4, SettleKeeps, SettleRefuses
<1>5. ASSUME NEW new \in 0..MaxIssued, held' = [held EXCEPT ![c] = Preserved(@, new)],
             Go(c, "storing"), UNCHANGED <<refreshLocks, waitsFor>>, ProviderTypes'
      PROVE  IInv'
  <2>1. Preserved(held[c], new) \in 0..MaxIssued /\ Preserved(held[c], new) > 0
    BY <1>3 DEF Preserved
  <2>2. /\ held' \in [Callers -> 0..MaxIssued] /\ held'[c] > 0
        /\ \A d \in Callers \ {c} : held'[d] = held[d]
    BY <1>3, <1>5, <2>1
  <2>3. CallPart'
    BY <1>1, <1>5, <2>2, GoKeeps DEF Refreshing
  <2>4. RefusedOnlyWithoutToken'
    BY <1>1, <1>5 DEF RefusedOnlyWithoutToken, Go, CallPart, CallTypes
  <2> QED
    BY <1>2, <1>5, <2>3, <2>4
<1>6. CASE held[c] \in grants /\ (rotates => issued < MaxIssued)
  <2> DEFINE new == IF rotates THEN issued + 1 ELSE 0
  <2>1. new \in 0..MaxIssued
    BY <1>6 DEF ProviderTypes
  <2>2. /\ grants' = IF rotates THEN (grants \ {held[c]}) \cup {new} ELSE grants
        /\ issued' = IF rotates THEN new ELSE issued
    BY <1>6 DEF AskProvider
  <2>3. ProviderTypes'
    <3>1. CASE rotates
      BY <1>1, <1>6, <2>2, <3>1 DEF ProviderTypes
    <3>2. CASE ~rotates
      BY <1>1, <2>2, <3>2 DEF ProviderTypes
    <3> QED
      BY <3>1, <3>2
  <2>4. \/ Settle(c, "failed")
        \/ /\ held' = [held EXCEPT ![c] = Preserved(@, new)]
           /\ Go(c, "storing") /\ UNCHANGED <<refreshLocks, waitsFor>>
    BY <1>6 DEF AskProvider
  <2> HIDE DEF new
  <2> QED
    BY <1>4, <1>5, <2>1, <2>3, <2>4
<1>7. CASE ~(held[c] \in grants /\ (rotates => issued < MaxIssued))
  <2>1. Settle(c, "failed") /\ UNCHANGED <<grants, issued>>
    BY <1>7 DEF AskProvider
  <2>2. ProviderTypes'
    BY <1>1, <2>1 DEF ProviderTypes
  <2> QED
    BY <1>4, <2>1, <2>2
<1> QED
  BY <1>6, <1>7

LEMMA StoreRefreshedKeeps ==
  ASSUME IInv, NEW c \in Callers, StoreRefreshed(c)
  PROVE  IInv'
<1> USE Parts, NextParts, ConstantTypes
<1>1. UNCHANGED <<account, flows, rekey, provider>> /\ step[c] = "storing"
  BY DEF StoreRefreshed
<1>2. FlowPart' /\ ProviderTypes'
  BY <1>1, FlowsUnchanged, ProviderUnchanged
<1>3. step[c] \in Refreshing /\ Scoped(account[c]) \in Accounts /\ held[c] \in 0..MaxIssued /\ held[c] > 0
  BY <1>1, ScopedNames DEF CallPart, CallTypes, StepsKnow, Refreshing
<1>4. CASE storeToken(Scoped(account[c]), Token(held[c], FALSE)) /\ Settle(c, "answered")
  <2>1. /\ StorePart'
        /\ \A b \in Accounts : store[b].present => store'[b].present
        /\ \A d \in Callers : gap[d] => gap'[d]
    BY <1>1, <1>3, <1>4, PresentWrites DEF CallPart
  <2>2. CallPart' /\ RefusedOnlyWithoutToken'
    BY <1>1, <1>3, <1>4, <2>1, SettleKeeps, SettleRefuses
  <2> QED
    BY <1>1, <1>2, <2>1, <2>2, RekeyUnchanged
<1>5. CASE Settle(c, "failed") /\ UNCHANGED <<store, gap>>
  <2>1. CallPart' /\ RefusedOnlyWithoutToken'
    BY <1>1, <1>3, <1>5, SettleKeeps, SettleRefuses
  <2>2. StorePart' /\ RekeyPart'
    BY <1>1, <1>5, StoreUnchanged, RekeyUnchanged
  <2> QED
    BY <1>2, <2>1, <2>2
<1> QED
  BY <1>4, <1>5 DEF StoreRefreshed

-----------------------------------------------------------------------------
(* Authorization flows                                                      *)

FlowRecords == [step : {"new", "open", "asking", "storing", "over"},
                account : Names \cup {None}, sent : Flows \cup {None}, token : 0..MaxIssued]

\* One flow goes on, and knows by then what its place says.
LEMMA FlowGoes ==
  ASSUME FlowPart, NEW f \in Flows, NEW r \in FlowRecords, flow' = [flow EXCEPT ![f] = r],
         states' \in [Names -> Flows \cup {None}], codeVerifiers' = states',
         r.step \in {"open", "asking", "storing"} => r.account \in Names,
         r.sent \in {None, f}
  PROVE  FlowPart'
<1>1. flow' \in [Flows -> FlowRecords]
  BY DEF FlowPart, FlowTypes, FlowRecords
<1>2. flow'[f] = r /\ \A g \in Flows \ {f} : flow'[g] = flow[g]
  BY DEF FlowPart, FlowTypes
<1>3. FlowsKnow' /\ VerifierOfItsFlow'
  BY <1>2 DEF FlowPart, FlowsInv, FlowsKnow, VerifierOfItsFlow
<1> QED
  BY <1>1, <1>3 DEF FlowPart, FlowTypes, FlowRecords, FlowsInv

LEMMA FlowOpens ==
  ASSUME IInv, NEW f \in Flows, NEW a \in Names, getAuthorizationUrl(f, a)
  PROVE  IInv'
<1> USE Parts, NextParts, ConstantTypes
<1>1. UNCHANGED <<store, calls, rekey, provider, gap>> /\ UNCHANGED <<step, account>>
  BY DEF getAuthorizationUrl, calls
<1>2. flow' = [flow EXCEPT ![f] = [@ EXCEPT !.step = "open", !.account = a]]
  BY DEF getAuthorizationUrl
<1>3. states' \in [Names -> Flows \cup {None}] /\ codeVerifiers' = states'
  BY DEF getAuthorizationUrl, FlowPart, FlowTypes
<1>4. FlowPart'
  <2> DEFINE r == [flow[f] EXCEPT !.step = "open", !.account = a]
  <2>1. r \in FlowRecords /\ r.step = "open" /\ r.account = a /\ r.sent = flow[f].sent
    BY DEF FlowPart, FlowTypes, FlowRecords
  <2>2. r.sent \in {None, f} /\ flow' = [flow EXCEPT ![f] = r]
    BY <1>2, <2>1 DEF FlowPart, FlowsInv, VerifierOfItsFlow
  <2> HIDE DEF r
  <2> QED
    BY <1>3, <2>1, <2>2, FlowGoes
<1> QED
  BY <1>1, <1>4, StoreUnchanged, CallsUnchanged, RekeyUnchanged, RefusedUnchanged, ProviderUnchanged

LEMMA ExchangeKeeps ==
  ASSUME IInv, NEW f \in Flows, exchangeCode(f)
  PROVE  IInv'
<1> USE Parts, NextParts, ConstantTypes
<1>1. UNCHANGED <<store, calls, states, codeVerifiers, rekey, provider, gap>> /\ UNCHANGED <<step, account>>
  BY DEF exchangeCode, calls
<1>2. codeVerifiers[flow[f].account] = f
  BY DEF exchangeCode, StateMatches, FlowPart, FlowTypes
<1>3. flow' = [flow EXCEPT ![f] = [@ EXCEPT !.step = "asking", !.sent = f]] /\ flow[f].step = "open"
  BY <1>2 DEF exchangeCode
<1>4. FlowPart'
  BY <1>1, <1>3 DEF FlowPart, FlowTypes, FlowsInv, FlowsKnow, VerifierOfItsFlow
<1> QED
  BY <1>1, <1>4, StoreUnchanged, CallsUnchanged, RekeyUnchanged, RefusedUnchanged, ProviderUnchanged

\* A flow that is over keeps nothing.
LEMMA FlowEnds ==
  ASSUME FlowPart, NEW f \in Flows, flow' = [flow EXCEPT ![f] = [NoFlow EXCEPT !.step = "over"]],
         states' \in [Names -> Flows \cup {None}], codeVerifiers' = states'
  PROVE  FlowPart'
BY ConstantTypes DEF FlowPart, FlowTypes, FlowsInv, FlowsKnow, VerifierOfItsFlow, NoFlow

LEMMA ExchangeAnsweredKeeps ==
  ASSUME IInv, NEW f \in Flows, ExchangeAnswered(f)
  PROVE  IInv'
<1> USE Parts, NextParts, ConstantTypes
<1>1. /\ UNCHANGED <<store, calls, states, codeVerifiers, rekey, rotates, gap>> /\ UNCHANGED <<step, account>>
      /\ flow[f].step = "asking"
  BY DEF ExchangeAnswered, calls
<1>2. StorePart' /\ CallPart' /\ RekeyPart' /\ RefusedOnlyWithoutToken'
  BY <1>1, StoreUnchanged, CallsUnchanged, RekeyUnchanged, RefusedUnchanged
<1>3. ASSUME NEW n \in 0..MaxIssued, ProviderTypes',
             flow' = [flow EXCEPT ![f] = [@ EXCEPT !.step = "storing", !.token = n]]
      PROVE  IInv'
  <2> DEFINE r == [flow[f] EXCEPT !.step = "storing", !.token = n]
  <2>1. flow[f] \in FlowRecords
    BY DEF FlowPart, FlowTypes, FlowRecords
  <2>2. r \in FlowRecords /\ r.step = "storing" /\ r.account = flow[f].account /\ r.sent = flow[f].sent
    BY <2>1 DEF FlowRecords
  <2>3. flow' = [flow EXCEPT ![f] = r]
    BY <1>3
  <2>4. r.account \in Names /\ r.sent \in {None, f}
    BY <1>1, <2>2 DEF FlowPart, FlowsInv, FlowsKnow, VerifierOfItsFlow
  <2>5. states' \in [Names -> Flows \cup {None}] /\ codeVerifiers' = states'
    BY <1>1 DEF FlowPart, FlowTypes
  <2> HIDE DEF r
  <2>6. FlowPart'
    BY <2>2, <2>3, <2>4, <2>5, FlowGoes
  <2> QED
    BY <1>2, <1>3, <2>6
<1>4. CASE flow' = [flow EXCEPT ![f] = [NoFlow EXCEPT !.step = "over"]] /\ UNCHANGED <<issued, grants>>
  <2>1. FlowPart'
    BY <1>1, <1>4, FlowEnds DEF FlowPart, FlowTypes
  <2>2. ProviderTypes'
    BY <1>1, <1>4 DEF ProviderTypes
  <2> QED
    BY <1>2, <2>1, <2>2
<1>5. CASE /\ issued < MaxIssued
           /\ issued' = issued + 1 /\ grants' = grants \cup {issued + 1}
           /\ flow' = [flow EXCEPT ![f] = [@ EXCEPT !.step = "storing", !.token = issued + 1]]
  <2>1. ProviderTypes' /\ issued + 1 \in 0..MaxIssued
    BY <1>1, <1>5 DEF ProviderTypes
  <2> QED
    BY <1>3, <1>5, <2>1
<1>6. CASE /\ flow' = [flow EXCEPT ![f] = [@ EXCEPT !.step = "storing", !.token = 0]]
           /\ UNCHANGED <<issued, grants>>
  <2>1. ProviderTypes' /\ 0 \in 0..MaxIssued
    BY <1>1, <1>6 DEF ProviderTypes
  <2> QED
    BY <1>3, <1>6, <2>1
<1> QED
  BY <1>4, <1>5, <1>6 DEF ExchangeAnswered

LEMMA ExchangeStoresKeeps ==
  ASSUME IInv, NEW f \in Flows, ExchangeStores(f)
  PROVE  IInv'
<1> USE Parts, NextParts, ConstantTypes
<1> DEFINE a == flow[f].account
<1>1. UNCHANGED <<calls, rekey, provider>> /\ UNCHANGED <<step, account>>
  BY DEF ExchangeStores, calls
<1>2. a \in Names /\ Scoped(a) \in Accounts /\ flow[f].token \in 0..MaxIssued
  BY ScopedNames DEF ExchangeStores, FlowPart, FlowTypes, FlowsInv, FlowsKnow
<1>3. CallPart' /\ ProviderTypes'
  BY <1>1, CallsUnchanged, ProviderUnchanged
<1>4. states' \in [Names -> Flows \cup {None}] /\ codeVerifiers' = states'
  BY <1>2 DEF ExchangeStores, FlowPart, FlowTypes
<1>5. FlowPart'
  BY <1>4, FlowEnds DEF ExchangeStores
<1>6. CASE storeToken(Scoped(a), Token(flow[f].token, flow[f].token = 0))
  <2> DEFINE bare == flow[f].token = 0
  <2>0. bare \in BOOLEAN /\ (flow[f].token > 0 <=> ~bare)
    BY <1>2
  <2> HIDE DEF bare
  <2>1. /\ StorePart'
        /\ \A b \in Accounts : store[b].present => store'[b].present
        /\ \A d \in Callers : gap[d] => gap'[d]
    BY <1>1, <1>2, <1>6, <2>0, PresentWrites DEF CallPart, bare
  <2> QED
    BY <1>1, <1>3, <1>5, <2>1, RekeyUnchanged, RefusedUnchanged
<1>7. CASE UNCHANGED <<store, gap>>
  BY <1>1, <1>3, <1>5, <1>7, StoreUnchanged, RekeyUnchanged, RefusedUnchanged
<1> QED
  BY <1>6, <1>7 DEF ExchangeStores

-----------------------------------------------------------------------------
LEMMA NextKeeps == IInv /\ [Next]_vars => IInv'
<1> SUFFICES ASSUME IInv, [Next]_vars PROVE IInv'
  OBVIOUS
<1>1. CASE UNCHANGED vars
  BY <1>1, Parts, NextParts, StoreUnchanged, CallsUnchanged, FlowsUnchanged, RekeyUnchanged, RefusedUnchanged,
     ProviderUnchanged DEF vars, calls
<1>2. ASSUME NEW c \in Callers, CallStep(c) PROVE IInv'
  BY <1>2, LooksKeep, GetRefreshTokenKeeps, AskProviderKeeps, StoreRefreshedKeeps DEF CallStep
<1>3. ASSUME NEW c \in Callers, NEW a \in Asked, getToken(c, a) PROVE IInv'
  <2>1. a \in Names
    BY RefreshAssumption DEF RefreshAssumption, Names
  <2> QED
    BY <1>3, <2>1, GetTokenKeeps
<1>4. ASSUME NEW a \in Accounts, Expire(a) \/ clear(a) \/ RevokeAtProvider(a) PROVE IInv'
  BY <1>4, ExpireKeeps, ClearKeeps, RevokeAtProviderKeeps
<1>5. ASSUME NEW r \in Renamings, NEW a \in Accounts, NEW b \in Accounts, rekeyAccount(r, a, b) PROVE IInv'
  BY <1>5, RekeyStarts
<1>6. ASSUME NEW r \in Renamings, RekeyStep(r) PROVE IInv'
  BY <1>6, RekeyStepKeeps
<1>7. ASSUME NEW f \in Flows, exchangeCode(f) \/ ExchangeAnswered(f) \/ ExchangeStores(f) PROVE IInv'
  BY <1>7, ExchangeKeeps, ExchangeAnsweredKeeps, ExchangeStoresKeeps
<1>8. ASSUME NEW f \in Flows, NEW a \in Authorized, getAuthorizationUrl(f, a) PROVE IInv'
  <2>1. a \in Names
    BY RefreshAssumption DEF RefreshAssumption, Names
  <2> QED
    BY <1>8, <2>1, FlowOpens
<1> QED
  BY <1>1, <1>2, <1>3, <1>4, <1>5, <1>6, <1>7, <1>8 DEF Next

\* All of the invariant at once.
THEOREM TokensInvariant == Spec => []IInv
<1>1. Init => IInv
  BY InitIInv
<1>2. IInv /\ [Next]_vars => IInv'
  BY NextKeeps
<1> QED
  BY <1>1, <1>2, PTL DEF Spec

\* Every variable has its type, and an account keeps the state and the verifier of
\* one flow.
THEOREM TokensTyped == Spec => []TypeOK
<1>1. IInv => TypeOK
  BY DEF IInv
<1> QED
  BY <1>1, TokensInvariant, PTL

\* getToken() asks a user to authorize again only if at some moment of the call the
\* account was without a token or had one whose authorization brought no refresh
\* token, however many calls refresh it at once, under one name or two.
THEOREM TokenIsNotLost == Spec => []RefusedOnlyWithoutToken
<1>1. IInv => RefusedOnlyWithoutToken
  BY DEF IInv, CallsInv
<1> QED
  BY <1>1, TokensInvariant, PTL

\* exchangeCode() sends the verifier of the flow whose code it exchanges.
THEOREM CodeHasItsVerifier == Spec => []VerifierOfItsFlow
<1>1. IInv => VerifierOfItsFlow
  BY DEF IInv, FlowsInv
<1> QED
  BY <1>1, TokensInvariant, PTL

\* A failure anywhere in rekeyAccount() leaves the token under one of its names, unless
\* a revocation or another renaming deletes it.
THEOREM RenamingIsSafe == Spec => []RenamingKeepsToken
<1>1. IInv => RenamingKeepsToken
  BY DEF IInv, RekeyKnows, Knows, RenamingKeepsToken
<1> QED
  BY <1>1, TokensInvariant, PTL

\* A call of getToken() waits only for a refresh of its account that goes on.
THEOREM WaitsEnd == Spec => []WaitsForARefresh
<1>1. IInv => WaitsForARefresh
  BY DEF IInv, CallsInv
<1> QED
  BY <1>1, TokensInvariant, PTL
=============================================================================
