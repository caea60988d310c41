--------------------------- MODULE ModelCallProofs ----------------------------
(***************************************************************************)
(* The two limits on the calls of a model: the budget of a task and the    *)
(* rate of requests.                                                       *)
(*                                                                         *)
(* The budget of a model task holds for any number of invocations, any     *)
(* limits and any number of attempts.  An invocation is charged what its   *)
(* attempts reserved until its usage is known, and then keeps what was     *)
(* reported and what its failed attempts reserved, so what its attempts    *)
(* use stays charged to it, but for what a settlement leaves out.  A       *)
(* reservation is tested with the total before it is made, nothing else    *)
(* adds to the total, and an attempt that waits for its dispatch is the    *)
(* first of an operation that has just been started: a released            *)
(* reservation is never used.                                              *)
(*                                                                         *)
(* The rate limiter grants at most two buckets in any stretch as long as   *)
(* a window, for any callers, limits and stretch: what is granted since a  *)
(* refill was taken from its bucket, and what was granted at most a        *)
(* window before that refill, from one earlier bucket.                     *)
(***************************************************************************)
EXTENDS ModelTask, RateLimiter, FiniteSetTheorems, FunctionTheorems, TLAPS

-----------------------------------------------------------------------------
(* ModelTask: the inductive invariant.                                       *)

\* Reserved by execute(), and neither dispatched nor released.
Waiting(a) == ~a.dispatched /\ a.status # "not_dispatched"

\* What the n-th attempt uses are tokens of its own, and only once it is dispatched.
Sound(n, a) ==
  /\ a.used \subseteq TokensOf(n)
  /\ ~a.dispatched => a.used = {} /\ a.status # "received"
  /\ a.status = "not_dispatched" => ~a.dispatched /\ a.reserved = {}
  /\ Waiting(a) => a.status = "reserved" /\ a.reserved = TokensOf(n)

\* The attempts an operation may have at a stage.
GoodList(list, at) ==
  /\ list \in Seq(Attempts) /\ Len(list) \in 1..MaxAttempts
  /\ at = "calling" => list[Len(list)].dispatched /\ list[Len(list)].status = "reserved"
  /\ \A n \in 1..Len(list) :
       Sound(n, list[n]) /\ (Waiting(list[n]) => Len(list) = 1 /\ at = "ready")

\* The invocation is charged for a token.
Holds(list, t) == \E n \in 1..Len(list) : t \in list[n].reserved

\* What a report speaks of are uses of the attempts it covers, of one of them all.
CoveredIn(through, list) == {n \in 1..Len(list) : list[n].status = "received" \/ ~through}

Honest(through, list, report) ==
  /\ \A t \in report.tokens : \E n \in CoveredIn(through, list) : t \in list[n].used
  /\ \E n \in CoveredIn(through, list) : list[n].dispatched /\ list[n].used \subseteq report.tokens

\* A settlement with this report has left the use of the n-th attempt out.
Omitted(list, report, n, t) ==
  /\ list[n].status = "received" /\ report.known /\ t \notin report.tokens
  /\ \E m \in 1..Len(list) : m # n /\ list[m].status = "received"

\* What the attempts of an invocation are charged, with the usage it was settled
\* with and the one its stream has shown.
Account(through, list, settled, seen) ==
  /\ \A n \in 1..Len(list) : \A t \in list[n].used : Holds(list, t) \/ Omitted(list, settled, n, t)
  /\ \A n, m \in 1..Len(list) : \A t \in list[n].reserved \cap list[m].reserved : n = m
  /\ \A n \in 1..Len(list) : \A t \in list[n].reserved : t[1] \in 1..Len(list)
  /\ \A n \in 1..Len(list) :
       through /\ list[n].status \in {"reserved", "failed"} => list[n].reserved = TokensOf(n)
  /\ ~through => Len(list) = 1
  /\ seen.known => Honest(through, list, seen)
  /\ settled.known => \A t \in settled.tokens : Holds(list, t)

InvocationInv(i) ==
  /\ IF stage[i] = "idle"
     THEN attempts[i] = <<>> /\ i \notin aborted /\ ~observed[i].known /\ ~usage[i].known
     ELSE GoodList(attempts[i], stage[i])
            /\ Account(Transported(i), attempts[i], usage[i], observed[i])
  /\ stage[i] = "ready" => Transported(i) \/ ~attempts[i][1].dispatched
  /\ usage[i].known => stage[i] = "over" \/ (Streamed(i) /\ usage[i] = observed[i])

AttemptsInv == \A i \in Invocations : InvocationInv(i)

\* The tokens charged to each invocation.
Charged == {p \in Invocations \X Tokens : Holds(attempts[p[1]], p[2])}

BudgetInv == Cardinality(Charged) <= maxTokens /\ Cardinality(Active) <= maxCalls

IInv == TypeOK /\ AttemptsInv /\ BudgetInv

\* The attempts of i become a list that adds nothing to the totals, and nothing
\* dispatched once i is aborted.
AddsNothing(i, list) ==
  /\ \A t \in Tokens : Holds(list, t) => Holds(attempts[i], t)
  /\ \A n \in 1..Len(list) : list[n].status # "not_dispatched" =>
       n <= Len(attempts[i]) /\ attempts[i][n].status # "not_dispatched"

DispatchesNothing(i, list) ==
  \A n \in 1..Len(list) :
    list[n].dispatched => n <= Len(attempts[i]) /\ attempts[i][n].dispatched

Replaces(i, list, to) ==
  /\ attempts' = [attempts EXCEPT ![i] = list]
  /\ stage' = [stage EXCEPT ![i] = to]

-----------------------------------------------------------------------------
LEMMA Bounds == maxCalls \in Nat /\ maxTokens \in Nat \ {0} /\ bound \in Nat \ {0}
                /\ MaxAttempts \in Nat \ {0}
BY BudgetAssumption

LEMMA FiniteTotals ==
  /\ IsFiniteSet(AttemptIds) /\ IsFiniteSet(Active) /\ IsFiniteSet(Sent)
  /\ IsFiniteSet(Charges) /\ IsFiniteSet(Uses \ LeftOut) /\ IsFiniteSet(Charged)
  /\ IsFiniteSet(Reports) /\ IsFiniteSet(ReportCharges)
<1>1. IsFiniteSet(1..MaxAttempts) /\ IsFiniteSet(1..bound) /\ IsFiniteSet(1..maxTokens)
  BY Bounds, FS_Interval
<1>2. IsFiniteSet(AttemptIds)
  <2>1. IsFiniteSet(Invocations \X (1..MaxAttempts))
    BY <1>1, BudgetAssumption, FS_Product
  <2> QED BY <2>1, FS_Subset DEF AttemptIds
<1>3. IsFiniteSet(Tokens)
  BY <1>1, FS_Product DEF Tokens
<1>4. /\ IsFiniteSet(AttemptIds \X Tokens) /\ IsFiniteSet(Externals \X (1..maxTokens))
      /\ IsFiniteSet(Invocations \X Tokens)
  BY <1>1, <1>2, <1>3, BudgetAssumption, FS_Product
<1>5. IsFiniteSet(Active) /\ IsFiniteSet(Sent)
  BY <1>2, FS_Subset DEF Active, Sent
<1>6. IsFiniteSet(Charges) /\ IsFiniteSet(Charged)
  BY <1>4, FS_Subset DEF Charges, Charged
<1>7. IsFiniteSet(Uses \ LeftOut)
  BY <1>4, FS_Subset DEF Uses
<1>8. IsFiniteSet(Reports) /\ IsFiniteSet(ReportCharges)
  BY <1>4, BudgetAssumption, FS_Subset DEF Reports, ReportCharges
<1> QED BY <1>2, <1>5, <1>6, <1>7, <1>8

LEMMA AttemptTyped ==
  ASSUME TypeOK, NEW i \in Invocations
  PROVE  /\ attempts[i] \in Seq(Attempts) /\ Len(attempts[i]) \in Nat
         /\ Len(attempts[i]) <= MaxAttempts
         /\ DOMAIN attempts[i] = 1..Len(attempts[i])
         /\ \A n \in 1..Len(attempts[i]) : attempts[i][n] \in Attempts
BY DEF TypeOK

LEMMA AttemptShape ==
  ASSUME NEW a \in Attempts
  PROVE  /\ a.status \in {"reserved", "received", "failed", "not_dispatched"}
         /\ a.dispatched \in BOOLEAN
         /\ a.reserved \subseteq Tokens /\ a.used \subseteq Tokens
BY DEF Attempts

LEMMA TokensOfAttempt ==
  ASSUME NEW n \in 1..MaxAttempts
  PROVE  TokensOf(n) \subseteq Tokens /\ \A t \in TokensOf(n) : t[1] = n
BY DEF TokensOf, Tokens

LEMMA ReplacedAttempts ==
  ASSUME TypeOK, NEW i \in Invocations, NEW list \in Seq(Attempts),
         attempts' = [attempts EXCEPT ![i] = list]
  PROVE  /\ attempts'[i] = list
         /\ \A j \in Invocations \ {i} : attempts'[j] = attempts[j]
BY DEF TypeOK

(* An invocation is charged no token that none of its attempts is.           *)
LEMMA ChargedOnce ==
  ASSUME TypeOK
  PROVE  Cardinality(Charged) <= Cardinality(Charges)
<1> DEFINE f == [c \in Charges |-> <<c[1][1], c[2]>>]
<1>1. f \in [Charges -> Charged]
  <2> SUFFICES ASSUME NEW c \in Charges PROVE <<c[1][1], c[2]>> \in Charged
    OBVIOUS
  <2> PICK j \in Invocations, n \in 1..MaxAttempts, t \in Tokens :
         c = <<<<j, n>>, t>> /\ n <= Len(attempts[j]) /\ t \in attempts[j][n].reserved
    BY DEF Charges, AttemptIds, Attempt
  <2>1. n \in 1..Len(attempts[j])
    BY AttemptTyped, Bounds
  <2> QED BY <2>1 DEF Charged, Holds
<1>2. ASSUME NEW p \in Charged PROVE \E c \in Charges : f[c] = p
  <2> PICK j \in Invocations, t \in Tokens : p = <<j, t>> /\ Holds(attempts[j], t)
    BY DEF Charged
  <2> PICK n \in 1..Len(attempts[j]) : t \in attempts[j][n].reserved
    BY DEF Holds
  <2>1. n \in 1..MaxAttempts /\ n <= Len(attempts[j])
    BY AttemptTyped, Bounds
  <2>2. <<<<j, n>>, t>> \in Charges
    BY <2>1 DEF Charges, AttemptIds, Attempt
  <2> QED BY <2>2
<1>3. f \in Surjection(Charges, Charged)
  <2> HIDE DEF f
  <2> QED BY <1>1, <1>2, Fun_IsSurj
<1> HIDE DEF f
<1> QED BY <1>3, FiniteTotals, FS_Surjection

(* What the totals make of a list that adds nothing to them.                 *)
LEMMA NothingAdded ==
  ASSUME TypeOK, NEW i \in Invocations, NEW list \in Seq(Attempts),
         attempts' = [attempts EXCEPT ![i] = list], AddsNothing(i, list)
  PROVE  Charged' \subseteq Charged /\ Active' \subseteq Active
<1>1. ASSUME NEW id \in AttemptIds', Attempt(id)'.status # "not_dispatched"
      PROVE  id \in Active
  <2> PICK j \in Invocations, n \in 1..MaxAttempts : id = <<j, n>> /\ n <= Len(attempts'[j])
    BY <1>1 DEF AttemptIds
  <2>1. attempts'[j][n].status # "not_dispatched"
    BY <1>1 DEF Attempt
  <2>2. n <= Len(attempts[j]) /\ attempts[j][n].status # "not_dispatched"
    BY <2>1, ReplacedAttempts, Bounds DEF AddsNothing
  <2> QED BY <2>2 DEF Active, AttemptIds, Attempt
<1>2. ASSUME NEW j \in Invocations, NEW t \in Tokens, Holds(attempts'[j], t)
      PROVE  Holds(attempts[j], t)
  BY <1>2, ReplacedAttempts DEF AddsNothing
<1> QED BY <1>1, <1>2 DEF Active, Charged

LEMMA NothingDispatched ==
  ASSUME TypeOK, NEW i \in Invocations, NEW list \in Seq(Attempts),
         attempts' = [attempts EXCEPT ![i] = list], DispatchesNothing(i, list)
  PROVE  Sent' \subseteq Sent
<1>1. ASSUME NEW id \in AttemptIds', Attempt(id)'.dispatched
      PROVE  id \in Sent
  <2> PICK j \in Invocations, n \in 1..MaxAttempts : id = <<j, n>> /\ n <= Len(attempts'[j])
    BY <1>1 DEF AttemptIds
  <2>1. attempts'[j][n].dispatched
    BY <1>1 DEF Attempt
  <2>2. n <= Len(attempts[j]) /\ attempts[j][n].dispatched
    BY <2>1, ReplacedAttempts, Bounds DEF DispatchesNothing
  <2> QED BY <2>2 DEF Sent, AttemptIds, Attempt
<1> QED BY <1>1 DEF Sent

(* Only the attempts of i may be dispatched by a change of them.             *)
LEMMA DispatchedOnlyHere ==
  ASSUME TypeOK, NEW i \in Invocations, NEW list \in Seq(Attempts),
         attempts' = [attempts EXCEPT ![i] = list]
  PROVE  \A id \in Sent' \ Sent : id[1] = i
<1> SUFFICES ASSUME NEW id \in Sent', id[1] # i PROVE id \in Sent
  OBVIOUS
<1> PICK j \in Invocations, n \in 1..MaxAttempts :
       id = <<j, n>> /\ n <= Len(attempts'[j]) /\ attempts'[j][n].dispatched
  BY DEF Sent, AttemptIds, Attempt
<1> QED BY ReplacedAttempts DEF Sent, AttemptIds, Attempt

LEMMA FewerFit ==
  ASSUME BudgetInv, Charged' \subseteq Charged, Active' \subseteq Active
  PROVE  BudgetInv'
<1>1. Cardinality(Charged') <= Cardinality(Charged) /\ Cardinality(Active') <= Cardinality(Active)
  BY FiniteTotals, FS_Subset
<1>2. /\ Cardinality(Charged) \in Nat /\ Cardinality(Active) \in Nat
      /\ Cardinality(Charged') \in Nat /\ Cardinality(Active') \in Nat
  <2>1. IsFiniteSet(Charged') /\ IsFiniteSet(Active')
    BY FiniteTotals, FS_Subset
  <2> QED BY <2>1, FiniteTotals, FS_CardinalityType
<1> QED BY <1>1, <1>2, Bounds DEF BudgetInv

(* One more attempt fits when Fits says so.                                  *)
LEMMA OneMoreFits ==
  ASSUME TypeOK, Fits, NEW i \in Invocations, NEW list \in Seq(Attempts),
         attempts' = [attempts EXCEPT ![i] = list],
         Len(list) = Len(attempts[i]) + 1, Len(list) <= MaxAttempts,
         \A n \in 1..Len(attempts[i]) : list[n] = attempts[i][n],
         list[Len(list)].reserved \subseteq TokensOf(Len(list))
  PROVE  BudgetInv'
<1> DEFINE new == <<i, Len(list)>>
           added == {i} \X TokensOf(Len(list))
<1>1. Active' \subseteq Active \cup {new}
  <2> SUFFICES ASSUME NEW id \in Active', id # new PROVE id \in Active
    OBVIOUS
  <2> PICK j \in Invocations, n \in 1..MaxAttempts :
         id = <<j, n>> /\ n <= Len(attempts'[j]) /\ attempts'[j][n].status # "not_dispatched"
    BY DEF Active, AttemptIds, Attempt
  <2>1. n <= Len(attempts[j]) /\ attempts'[j][n] = attempts[j][n]
    BY ReplacedAttempts, AttemptTyped, Bounds
  <2> QED BY <2>1 DEF Active, AttemptIds, Attempt
<1>2. Charged' \subseteq Charged \cup added
  <2> SUFFICES ASSUME NEW j \in Invocations, NEW t \in Tokens, Holds(attempts'[j], t),
                      j = i => t \notin TokensOf(Len(list))
               PROVE  Holds(attempts[j], t)
    BY DEF Charged
  <2> PICK n \in 1..Len(attempts'[j]) : t \in attempts'[j][n].reserved
    BY DEF Holds
  <2>1. n \in 1..Len(attempts[j]) /\ attempts'[j][n] = attempts[j][n]
    BY ReplacedAttempts, AttemptTyped
  <2> QED BY <2>1 DEF Holds
<1>3. /\ IsFiniteSet(Active \cup {new})
      /\ Cardinality(Active \cup {new}) <= Cardinality(Active) + 1
      /\ Cardinality(Active) \in Nat
  <2>1. Cardinality(Active) \in Nat
    BY FiniteTotals, FS_CardinalityType
  <2>2. /\ IsFiniteSet(Active \cup {new})
        /\ Cardinality(Active \cup {new}) \in {Cardinality(Active), Cardinality(Active) + 1}
    BY FiniteTotals, FS_AddElement
  <2> HIDE DEF new
  <2> QED BY <2>1, <2>2
<1>4. IsFiniteSet(added) /\ Cardinality(added) = bound
  <2> DEFINE L == Len(list)
             mine == TokensOf(L)
  <2>1. /\ IsFiniteSet({L}) /\ Cardinality({L}) = 1
        /\ IsFiniteSet({i}) /\ Cardinality({i}) = 1
    BY FS_Singleton
  <2>2. IsFiniteSet(1..bound) /\ Cardinality(1..bound) = bound
    <3>1. 1 \in Int /\ bound \in Int /\ 1 <= bound
      BY Bounds
    <3>2. /\ IsFiniteSet(1..bound)
          /\ Cardinality(1..bound) = IF 1 > bound THEN 0 ELSE bound - 1 + 1
      BY <3>1, FS_Interval
    <3> QED BY <3>1, <3>2
  <2>3. IsFiniteSet(mine) /\ Cardinality(mine) = Cardinality({L}) * Cardinality(1..bound)
    BY <2>1, <2>2, FS_Product DEF TokensOf
  <2> HIDE DEF L, mine
  <2>4. Cardinality(mine) = bound
    BY <2>1, <2>2, <2>3, Bounds
  <2>5. IsFiniteSet({i} \X mine) /\ Cardinality({i} \X mine) = Cardinality({i}) * Cardinality(mine)
    BY <2>1, <2>3, FS_Product
  <2>6. Cardinality({i} \X mine) = bound
    BY <2>1, <2>4, <2>5, Bounds
  <2> QED BY <2>5, <2>6 DEF mine, L
<1>5. /\ IsFiniteSet(Charged \cup added)
      /\ Cardinality(Charged \cup added) <= Cardinality(Charged) + bound
      /\ Cardinality(Charged) \in Nat
  <2> HIDE DEF added
  <2>1. /\ IsFiniteSet(Charged \cup added)
        /\ Cardinality(Charged \cup added)
             = Cardinality(Charged) + Cardinality(added) - Cardinality(Charged \cap added)
    BY <1>4, FiniteTotals, FS_Union
  <2>2. Cardinality(Charged \cap added) \in Nat
    <3>1. IsFiniteSet(Charged \cap added)
      BY FiniteTotals, FS_Subset
    <3> QED BY <3>1, FS_CardinalityType
  <2>3. Cardinality(Charged) \in Nat
    BY FiniteTotals, FS_CardinalityType
  <2> QED BY <1>4, <2>1, <2>2, <2>3, Bounds
<1> HIDE DEF new, added
<1>6. /\ Cardinality(Active') <= Cardinality(Active \cup {new}) /\ IsFiniteSet(Active')
      /\ Cardinality(Charged') <= Cardinality(Charged \cup added) /\ IsFiniteSet(Charged')
  BY <1>1, <1>2, <1>3, <1>5, FS_Subset
<1>7. /\ Cardinality(Active') \in Nat /\ Cardinality(Active \cup {new}) \in Nat
      /\ Cardinality(Charged') \in Nat /\ Cardinality(Charged \cup added) \in Nat
      /\ Cardinality(Charges) \in Nat
      /\ Cardinality(Reports) \in Nat /\ Cardinality(ReportCharges) \in Nat
  BY <1>3, <1>5, <1>6, FiniteTotals, FS_CardinalityType
<1>8. /\ Cardinality(Active) + Cardinality(Reports) + 1 <= maxCalls
      /\ Cardinality(Charges) + Cardinality(ReportCharges) + bound <= maxTokens
  BY DEF Fits, ActiveCalls, chargedTokens
<1>9. Cardinality(Active') <= maxCalls
  BY <1>3, <1>6, <1>7, <1>8, Bounds
<1>10. Cardinality(Charged') <= maxTokens
  <2>1. Cardinality(Charged) <= Cardinality(Charges)
    BY ChargedOnce
  <2> QED BY <2>1, <1>5, <1>6, <1>7, <1>8, Bounds
<1> QED BY <1>9, <1>10 DEF BudgetInv

-----------------------------------------------------------------------------
(* Lists of attempts.                                                        *)

LEMMA SmallerIsWellFounded == IsWellFoundedOn({ss \in Nat \X Nat : ss[1] < ss[2]}, Nat)
BY NatLessThanWellFounded DEF OpToRel

LEMMA GreatestOf ==
  ASSUME NEW n \in Nat, NEW S, S \subseteq 1..n, S # {}
  PROVE  \E x \in S : \A y \in S : y <= x
<1> DEFINE R == {ss \in Nat \X Nat : ss[1] < ss[2]}
           T == {k \in Nat : k <= n /\ n - k \in S}
<1>1. T \subseteq Nat /\ T # {}
  <2> PICK s \in S : TRUE
    OBVIOUS
  <2>1. n - s \in T
    OBVIOUS
  <2> QED BY <2>1
<1>2. IsWellFoundedOn(R, Nat)
  BY SmallerIsWellFounded
<1> HIDE DEF R, T
<1>3. PICK x \in T : \A y \in T : ~(<<y, x>> \in R)
  BY <1>1, <1>2, WFMin
<1>4. n - x \in S /\ x \in Nat /\ x <= n
  BY <1>3 DEF T
<1>5. ASSUME NEW y \in S PROVE y <= n - x
  <2>1. n - y \in T /\ y \in Nat /\ n - y \in Nat
    BY DEF T
  <2>2. ~(n - y < x)
    BY <1>3, <1>4, <2>1 DEF R
  <2> QED BY <1>4, <2>1, <2>2
<1> QED BY <1>4, <1>5

(* The last attempt of a list becomes another.                               *)
LEMMA LastChanged ==
  ASSUME NEW list \in Seq(Attempts), list # <<>>, NEW a \in Attempts
  PROVE  LET changed == [list EXCEPT ![Len(list)] = a]
         IN  /\ changed \in Seq(Attempts) /\ Len(changed) = Len(list)
             /\ changed[Len(list)] = a
             /\ \A n \in 1..Len(list) : n # Len(list) => changed[n] = list[n]
OBVIOUS

(* reserve() adds an attempt that is charged all it may use.                 *)
LEMMA Reserved ==
  ASSUME NEW list \in Seq(Attempts), Len(list) < MaxAttempts
  PROVE  /\ reserve(list) \in Seq(Attempts) /\ Len(reserve(list)) = Len(list) + 1
         /\ reserve(list)[Len(list) + 1] =
              [status |-> "reserved", dispatched |-> FALSE,
               reserved |-> TokensOf(Len(list) + 1), used |-> {}]
         /\ \A n \in 1..Len(list) : reserve(list)[n] = list[n]
<1> DEFINE mine == TokensOf(Len(list) + 1)
           a == [status |-> "reserved", dispatched |-> FALSE, reserved |-> mine, used |-> {}]
<1>1. a \in Attempts
  <2>1. mine \subseteq Tokens
    <3>1. Len(list) + 1 \in 1..MaxAttempts
      BY Bounds
    <3> QED BY <3>1, TokensOfAttempt
  <2> HIDE DEF mine
  <2> QED BY <2>1 DEF Attempts
<1> HIDE DEF a
<1>2. /\ Append(list, a) \in Seq(Attempts) /\ Len(Append(list, a)) = Len(list) + 1
      /\ Append(list, a)[Len(list) + 1] = a
      /\ \A n \in 1..Len(list) : Append(list, a)[n] = list[n]
  BY <1>1
<1> QED BY <1>2 DEF reserve, a

(* The dispatch of the last attempt of a list.                               *)
Sending(n, a, use) == [a EXCEPT !.dispatched = TRUE, !.used = {n} \X (1..use)]

LEMMA SendingAttempt ==
  ASSUME NEW n \in 1..MaxAttempts, NEW a \in Attempts, NEW use \in 0..bound,
         a.reserved = TokensOf(n), a.status = "reserved"
  PROVE  /\ Sending(n, a, use) \in Attempts
         /\ Sending(n, a, use).dispatched /\ Sending(n, a, use).used \subseteq TokensOf(n)
         /\ Sending(n, a, use).status = "reserved"
         /\ Sending(n, a, use).reserved = TokensOf(n)
         /\ Sound(n, Sending(n, a, use)) /\ ~Waiting(Sending(n, a, use))
<1> DEFINE u == {n} \X (1..use)
<1>1. u \subseteq TokensOf(n)
  BY Bounds DEF TokensOf
<1>2. u \subseteq Tokens
  BY <1>1, TokensOfAttempt
<1> DEFINE b == [a EXCEPT !.dispatched = TRUE, !.used = u]
<1>3. b = Sending(n, a, use)
  BY DEF Sending
<1> HIDE DEF u
<1>4. /\ b \in Attempts /\ b.dispatched /\ b.used = u /\ b.status = a.status
      /\ b.reserved = a.reserved
  BY <1>2 DEF Attempts
<1> HIDE DEF b
<1>5. Sound(n, b) /\ ~Waiting(b)
  BY <1>1, <1>4 DEF Sound, Waiting
<1> QED BY <1>1, <1>3, <1>4, <1>5

LEMMA DispatchedList ==
  ASSUME NEW list \in Seq(Attempts), list # <<>>, Len(list) <= MaxAttempts,
         \A n \in 1..Len(list) : n # Len(list) => Sound(n, list[n]) /\ ~Waiting(list[n]),
         list[Len(list)].reserved = TokensOf(Len(list)), list[Len(list)].status = "reserved",
         NEW use \in 0..bound
  PROVE  LET sent == [list EXCEPT ![Len(list)] =
                        [@ EXCEPT !.dispatched = TRUE, !.used = {Len(list)} \X (1..use)]]
         IN  /\ GoodList(sent, "calling") /\ Len(sent) = Len(list)
             /\ sent[Len(list)].reserved = TokensOf(Len(list))
             /\ sent[Len(list)].used \subseteq TokensOf(Len(list))
             /\ sent[Len(list)].status = "reserved"
             /\ \A n \in 1..Len(list) : n # Len(list) => sent[n] = list[n]
<1> DEFINE L == Len(list)
           a == Sending(L, list[L], use)
           sent == [list EXCEPT ![L] = a]
<1>1. L \in 1..L /\ L \in Nat /\ L \in 1..MaxAttempts /\ list[L] \in Attempts
  BY Bounds
<1>2. sent = [list EXCEPT ![L] = [@ EXCEPT !.dispatched = TRUE, !.used = {L} \X (1..use)]]
  BY DEF Sending
<1>3. /\ a \in Attempts /\ a.dispatched /\ a.used \subseteq TokensOf(L)
      /\ a.status = "reserved" /\ a.reserved = TokensOf(L)
      /\ Sound(L, a) /\ ~Waiting(a)
  BY <1>1, SendingAttempt
<1> HIDE DEF a
<1>4. /\ sent \in Seq(Attempts) /\ Len(sent) = L /\ sent[L] = a
      /\ \A n \in 1..L : n # L => sent[n] = list[n]
  BY <1>3, LastChanged
<1> HIDE DEF sent
<1>5. GoodList(sent, "calling")
  BY <1>1, <1>3, <1>4 DEF GoodList
<1> QED BY <1>2, <1>3, <1>4, <1>5

(* The only attempt of an invocation that has not been settled.              *)
LEMMA SingleAccount ==
  ASSUME NEW list \in Seq(Attempts), Len(list) = 1, 1 \in 1..MaxAttempts,
         list[1].used \subseteq list[1].reserved, list[1].reserved \subseteq TokensOf(1),
         list[1].status \in {"reserved", "failed"} => list[1].reserved = TokensOf(1),
         NEW through, NEW settled, NEW seen, ~settled.known, ~seen.known
  PROVE  Account(through, list, settled, seen)
<1>1. \A n \in 1..Len(list) : n = 1
  OBVIOUS
<1>2. 1 \in 1..Len(list)
  OBVIOUS
<1>3. \A t \in list[1].reserved : t[1] \in 1..Len(list)
  BY <1>2, TokensOfAttempt
<1>4. \A t \in list[1].used : Holds(list, t)
  BY <1>2 DEF Holds
<1> QED BY <1>1, <1>3, <1>4 DEF Account

(* A request that reserves an attempt of its own.                            *)
LEMMA LongerAccount ==
  ASSUME NEW list \in Seq(Attempts), NEW longer \in Seq(Attempts),
         Len(longer) = Len(list) + 1, Len(longer) \in 1..MaxAttempts,
         \A n \in 1..Len(list) : longer[n] = list[n],
         longer[Len(longer)].used \subseteq longer[Len(longer)].reserved,
         longer[Len(longer)].reserved \subseteq TokensOf(Len(longer)),
         longer[Len(longer)].status \in {"reserved", "failed"} =>
           longer[Len(longer)].reserved = TokensOf(Len(longer)),
         NEW through, through, NEW settled, NEW seen,
         Account(through, list, settled, seen)
  PROVE  Account(through, longer, settled, seen)
<1> DEFINE L == Len(longer)
<1>1. /\ L \in 1..L /\ \A n \in 1..L : n # L => n \in 1..Len(list) /\ longer[n] = list[n]
      /\ \A n \in 1..Len(list) : n \in 1..L /\ n # L
  OBVIOUS
<1>2. \A t : Holds(list, t) => Holds(longer, t)
  BY <1>1 DEF Holds
<1>3. \A n \in 1..Len(list) : \A t : Omitted(list, settled, n, t) => Omitted(longer, settled, n, t)
  BY <1>1 DEF Omitted
<1>4. \A n \in 1..L : \A t \in longer[n].used : Holds(longer, t) \/ Omitted(longer, settled, n, t)
  <2> SUFFICES ASSUME NEW n \in 1..L, NEW t \in longer[n].used
               PROVE  Holds(longer, t) \/ Omitted(longer, settled, n, t)
    OBVIOUS
  <2>1. CASE n = L
    BY <1>1, <2>1 DEF Holds
  <2>2. CASE n # L
    BY <1>1, <1>2, <1>3, <2>2 DEF Account
  <2> QED BY <2>1, <2>2
<1>5. /\ \A t \in longer[L].reserved : t[1] = L
      /\ \A n \in 1..Len(list) : \A t \in longer[n].reserved : t[1] \in 1..Len(list)
  BY <1>1, TokensOfAttempt DEF Account
<1>6. \A n, m \in 1..L : \A t \in longer[n].reserved \cap longer[m].reserved : n = m
  <2> SUFFICES ASSUME NEW n \in 1..L, NEW m \in 1..L,
                      NEW t \in longer[n].reserved, t \in longer[m].reserved
               PROVE  n = m
    OBVIOUS
  <2>1. CASE n # L /\ m # L
    <3>1. n \in 1..Len(list) /\ m \in 1..Len(list) /\ t \in list[n].reserved \cap list[m].reserved
      BY <1>1, <2>1
    <3> QED BY <3>1 DEF Account
  <2>2. CASE n = L \/ m = L
    <3>1. t[1] = L
      BY <1>5, <2>2
    <3>2. L \notin 1..Len(list)
      OBVIOUS
    <3> QED BY <1>1, <1>5, <3>1, <3>2
  <2> QED BY <2>1, <2>2
<1>7. \A n \in 1..L : \A t \in longer[n].reserved : t[1] \in 1..L
  BY <1>1, <1>5
<1>8. \A n \in 1..L : longer[n].status \in {"reserved", "failed"} => longer[n].reserved = TokensOf(n)
  BY <1>1 DEF Account
<1>9. seen.known => Honest(through, longer, seen)
  BY <1>1 DEF Account, Honest, CoveredIn
<1> HIDE DEF L
<1> QED BY <1>2, <1>4, <1>6, <1>7, <1>8, <1>9 DEF Account, L

(* An attempt is answered or fails.                                          *)
LEMMA AnsweredAccount ==
  ASSUME NEW list \in Seq(Attempts), list # <<>>, NEW over \in Seq(Attempts), Len(over) = Len(list),
         \A n \in 1..Len(list) :
           /\ over[n].used = list[n].used /\ over[n].reserved = list[n].reserved
           /\ over[n].dispatched = list[n].dispatched
           /\ n # Len(list) => over[n].status = list[n].status,
         list[Len(list)].status = "reserved", over[Len(list)].status \in {"received", "failed"},
         NEW through, NEW settled, NEW seen, Account(through, list, settled, seen)
  PROVE  Account(through, over, settled, seen)
<1>1. \A t : Holds(over, t) <=> Holds(list, t)
  BY DEF Holds
<1>2. Len(list) \in 1..Len(list)
  OBVIOUS
<1>3. \A n \in 1..Len(list) : list[n].status = "received" => over[n].status = "received"
  BY <1>2
<1>4. \A n \in 1..Len(list) : \A t : Omitted(list, settled, n, t) => Omitted(over, settled, n, t)
  BY <1>3 DEF Omitted
<1>5. \A n \in 1..Len(list) : through /\ over[n].status \in {"reserved", "failed"} => over[n].reserved = TokensOf(n)
  BY <1>2 DEF Account
<1>6. CoveredIn(through, list) \subseteq CoveredIn(through, over)
  BY <1>3 DEF CoveredIn
<1>7. CoveredIn(through, list) \subseteq 1..Len(list)
  BY DEF CoveredIn
<1>8. seen.known => Honest(through, over, seen)
  <2>1. seen.known => Honest(through, list, seen)
    BY DEF Account
  <2> QED BY <1>6, <1>7, <2>1 DEF Honest
<1>9. \A n \in 1..Len(list) : over[n].used = list[n].used /\ over[n].reserved = list[n].reserved
  OBVIOUS
<1> QED BY <1>1, <1>4, <1>5, <1>8, <1>9 DEF Account

(* What settle() makes of the attempts of an operation that has begun: with  *)
(* a report the greatest attempt it covers is charged all of it.             *)
SettledAs(list, settled, settledUsage, through, seen) ==
  /\ settled \in Seq(Attempts) /\ Len(settled) = Len(list)
  /\ \A n \in 1..Len(list) :
       /\ Sound(n, settled[n]) /\ ~Waiting(settled[n])
       /\ settled[n].dispatched = list[n].dispatched /\ settled[n].status = list[n].status
  /\ \A t : Holds(settled, t) => Holds(list, t)
  /\ Account(through, settled, settledUsage, seen)

LEMMA ChargedToGreatest ==
  ASSUME NEW list \in Seq(Attempts), Len(list) \in 1..MaxAttempts,
         \A n \in 1..Len(list) : Sound(n, list[n]) /\ ~Waiting(list[n]),
         NEW report \in Usage, report.known, NEW through, NEW u, NEW seen,
         Account(through, list, u, seen), Honest(through, list, report),
         u.known => u = report,
         NEW g \in CoveredIn(through, list),
         NEW S \in Seq(Attempts), Len(S) = Len(list),
         \A n \in 1..Len(list) :
           S[n] = IF n \in CoveredIn(through, list)
                  THEN [list[n] EXCEPT !.reserved = IF n = g THEN report.tokens ELSE {}]
                  ELSE list[n]
  PROVE  SettledAs(list, S, report, through, seen)
<1> DEFINE C == CoveredIn(through, list)
           L == Len(list)
<1>1. /\ C \subseteq 1..L /\ g \in C /\ g \in 1..L
      /\ \A n \in 1..L : n \in C <=> list[n].status = "received" \/ ~through
  BY DEF CoveredIn
<1>2. \A n \in 1..L : list[n] \in Attempts /\ S[n] \in Attempts
  OBVIOUS
<1>3. \A n \in 1..L : /\ S[n].status = list[n].status /\ S[n].dispatched = list[n].dispatched
                      /\ S[n].used = list[n].used
                      /\ n = g => S[n].reserved = report.tokens
                      /\ n \in C /\ n # g => S[n].reserved = {}
                      /\ n \notin C => S[n].reserved = list[n].reserved
  <2> SUFFICES ASSUME NEW n \in 1..L
               PROVE  /\ S[n].status = list[n].status /\ S[n].dispatched = list[n].dispatched
                      /\ S[n].used = list[n].used
                      /\ n = g => S[n].reserved = report.tokens
                      /\ n \in C /\ n # g => S[n].reserved = {}
                      /\ n \notin C => S[n].reserved = list[n].reserved
    OBVIOUS
  <2>1. CASE n \in C
    <3>1. S[n] = [list[n] EXCEPT !.reserved = IF n = g THEN report.tokens ELSE {}]
      BY <2>1
    <3> HIDE DEF C
    <3> QED BY <1>1, <1>2, <2>1, <3>1 DEF Attempts
  <2>2. CASE n \notin C
    BY <1>1, <2>2
  <2> QED BY <2>1, <2>2
<1> HIDE DEF C
<1>4. PICK l \in C : list[l].dispatched /\ list[l].used \subseteq report.tokens
  BY DEF Honest, C
<1>5. \A n \in C : list[n].dispatched
  <2>1. CASE through
    BY <1>1, <2>1 DEF Sound
  <2>2. CASE ~through
    <3>1. L = 1
      BY <2>2 DEF Account
    <3> QED BY <1>1, <1>4, <3>1
  <2> QED BY <2>1, <2>2
<1>6. \A t \in report.tokens : \E k \in C : t \in list[k].used
  BY DEF Honest, C
<1>7. \A t \in report.tokens : Holds(list, t)
  <2> SUFFICES ASSUME NEW t \in report.tokens PROVE Holds(list, t)
    OBVIOUS
  <2> PICK k \in C : t \in list[k].used
    BY <1>6
  <2>1. Holds(list, t) \/ Omitted(list, u, k, t)
    BY <1>1 DEF Account
  <2> QED BY <2>1 DEF Omitted
<1>8. \A t \in report.tokens : t[1] \in C
  <2> SUFFICES ASSUME NEW t \in report.tokens PROVE t[1] \in C
    OBVIOUS
  <2> PICK k \in C : t \in list[k].used
    BY <1>6
  <2>1. t \in TokensOf(k) /\ k \in 1..MaxAttempts
    BY <1>1, Bounds DEF Sound
  <2> QED BY <2>1, TokensOfAttempt
<1>9. \A n \in (1..L) \ C :
        /\ list[n].reserved \subseteq TokensOf(n) /\ list[n].used \subseteq list[n].reserved
        /\ \A t \in list[n].reserved : t[1] = n
  <2> SUFFICES ASSUME NEW n \in (1..L) \ C
               PROVE  /\ list[n].reserved \subseteq TokensOf(n) /\ list[n].used \subseteq list[n].reserved
                      /\ \A t \in list[n].reserved : t[1] = n
    OBVIOUS
  <2>1. through /\ list[n].status \in {"reserved", "failed", "not_dispatched"} /\ Sound(n, list[n])
    BY <1>1, <1>2, AttemptShape
  <2>2. list[n].reserved = TokensOf(n) \/ (list[n].reserved = {} /\ list[n].used = {})
    BY <2>1 DEF Account, Sound
  <2>3. n \in 1..MaxAttempts
    BY Bounds
  <2> QED BY <2>1, <2>2, <2>3, TokensOfAttempt DEF Sound
<1>10. \A n \in 1..L : Sound(n, S[n]) /\ ~Waiting(S[n])
  <2> SUFFICES ASSUME NEW n \in 1..L PROVE Sound(n, S[n]) /\ ~Waiting(S[n])
    OBVIOUS
  <2>1. Sound(n, list[n]) /\ ~Waiting(list[n])
    OBVIOUS
  <2>2. CASE n \in C
    BY <1>3, <1>5, <2>1, <2>2 DEF Sound, Waiting
  <2>3. CASE n \notin C
    BY <1>3, <2>1, <2>3 DEF Sound, Waiting
  <2> QED BY <2>2, <2>3
<1>11. \A t : Holds(S, t) => Holds(list, t)
  <2> SUFFICES ASSUME NEW t, NEW n \in 1..L, t \in S[n].reserved PROVE Holds(list, t)
    BY DEF Holds
  <2>1. CASE n \in C
    BY <1>3, <1>7, <2>1
  <2>2. CASE n \notin C
    BY <1>3, <2>2 DEF Holds
  <2> QED BY <2>1, <2>2
<1>12. \A t \in report.tokens : Holds(S, t)
  BY <1>1, <1>3 DEF Holds
<1>13. \A n \in 1..L : \A t \in S[n].used : Holds(S, t) \/ Omitted(S, report, n, t)
  <2> SUFFICES ASSUME NEW n \in 1..L, NEW t \in list[n].used, ~Holds(S, t)
               PROVE  Omitted(S, report, n, t)
    BY <1>3
  <2>1. t \notin report.tokens
    BY <1>12
  <2>2. n \in C
    <3>1. ASSUME n \notin C PROVE t \in S[n].reserved
      BY <1>3, <1>9, <3>1
    <3> QED BY <3>1 DEF Holds
  <2>3. l # n
    BY <1>4, <2>1
  <2>4. through
    <3>1. L # 1
      BY <1>1, <1>4, <2>3
    <3> QED BY <3>1 DEF Account
  <2>5. S[n].status = "received" /\ S[l].status = "received" /\ l \in 1..Len(S)
    BY <1>1, <1>3, <1>4, <2>2, <2>4
  <2> QED BY <2>1, <2>3, <2>5 DEF Omitted
<1>14. \A n \in 1..L : \A t \in S[n].reserved :
         (n = g /\ n \in C /\ t[1] \in C) \/ (n \notin C /\ t[1] = n)
  BY <1>1, <1>3, <1>8, <1>9
<1>15. \A n, m \in 1..L : \A t \in S[n].reserved \cap S[m].reserved : n = m
  BY <1>14
<1>16. \A n \in 1..L : \A t \in S[n].reserved : t[1] \in 1..L
  BY <1>1, <1>14
<1>17. \A n \in 1..L : through /\ S[n].status \in {"reserved", "failed"} => S[n].reserved = TokensOf(n)
  BY <1>1, <1>3 DEF Account
<1>18. seen.known => Honest(through, S, seen)
  <2>1. CoveredIn(through, S) = CoveredIn(through, list)
    BY <1>3 DEF CoveredIn
  <2>2. CoveredIn(through, list) \subseteq 1..L
    BY DEF CoveredIn
  <2> QED BY <1>3, <2>1, <2>2 DEF Account, Honest
<1>19. ~through => Len(S) = 1
  BY DEF Account
<1>20. Account(through, S, report, seen)
  <2>1. Len(S) = L
    OBVIOUS
  <2> HIDE DEF L
  <2> QED BY <1>12, <1>13, <1>15, <1>16, <1>17, <1>18, <1>19, <2>1 DEF Account
<1> QED BY <1>3, <1>10, <1>11, <1>20 DEF SettledAs

LEMMA SettledList ==
  ASSUME NEW i \in Invocations, NEW list \in Seq(Attempts), Len(list) \in 1..MaxAttempts,
         \A n \in 1..Len(list) : Sound(n, list[n]) /\ ~Waiting(list[n]),
         NEW report \in Usage, NEW u, NEW seen, Account(Transported(i), list, u, seen),
         Counts(i, report) => Honest(Transported(i), list, report) /\ (u.known => u = report)
  PROVE  SettledAs(list, Settled(i, list, report), IF Counts(i, report) THEN report ELSE u,
                   Transported(i), seen)
<1> DEFINE through == Transported(i)
           S == Settled(i, list, report)
           C == CoveredIn(through, list)
<1>0. DOMAIN list = 1..Len(list) /\ Len(list) \in Nat /\ \A n \in 1..Len(list) : list[n] \in Attempts
  OBVIOUS
<1>1. \A n \in 1..Len(list) : n = 1 /\ ~list[n].dispatched =>
        [list[n] EXCEPT !.status = "not_dispatched", !.reserved = {}] = list[n]
  <2> SUFFICES ASSUME NEW n \in 1..Len(list), n = 1, ~list[n].dispatched
               PROVE  [list[n] EXCEPT !.status = "not_dispatched", !.reserved = {}] = list[n]
    OBVIOUS
  <2>1. list[n].status = "not_dispatched" /\ list[n].reserved = {} /\ list[n] \in Attempts
    BY <1>0 DEF Sound, Waiting
  <2> QED BY <2>1 DEF Attempts
<1>2. C = Covered(i, list)
  BY <1>0 DEF CoveredIn, Covered
<1>3. DOMAIN S = 1..Len(list) /\ S = [n \in DOMAIN S |-> S[n]]
  BY <1>0 DEF Settled
<1>4. CASE ~Counts(i, report)
  <2>1. \A n \in 1..Len(list) : S[n] = list[n]
    BY <1>0, <1>1, <1>4 DEF Settled
  <2> HIDE DEF S
  <2>2. S = list
    <3>1. list = [n \in 1..Len(list) |-> list[n]]
      BY <1>0
    <3> QED BY <1>3, <2>1, <3>1
  <2>3. SettledAs(list, list, u, through, seen)
    BY DEF SettledAs
  <2> QED BY <1>4, <2>2, <2>3 DEF S
<1>5. CASE Counts(i, report)
  <2>1. Honest(through, list, report) /\ report.known /\ (u.known => u = report)
    BY <1>5 DEF Counts
  <2>2. C \subseteq 1..Len(list) /\ C # {}
    BY <2>1 DEF Honest, CoveredIn
  <2>3. PICK g \in C : \A m \in C : m <= g
    <3> HIDE DEF C
    <3> QED BY <1>0, <2>2, GreatestOf
  <2>4. \A n \in C : (\A m \in C : m <= n) <=> n = g
    <3> HIDE DEF C
    <3> QED BY <2>2, <2>3
  <2>5. \A n \in C : ~(n = 1 /\ ~list[n].dispatched)
    <3>1. PICK l \in C : list[l].dispatched
      BY <2>1 DEF Honest
    <3>2. CASE through
      BY <2>2, <3>2 DEF CoveredIn, Sound
    <3>3. CASE ~through
      <4>1. Len(list) = 1
        BY <3>3 DEF Account
      <4> QED BY <2>2, <3>1, <4>1
    <3> QED BY <3>2, <3>3
  <2>6. {n \in Covered(i, list) : Counts(i, report)} = C
    BY <1>2, <1>5
  <2>7. \A n \in 1..Len(list) :
          S[n] = IF n = 1 /\ ~list[n].dispatched
                 THEN [list[n] EXCEPT !.status = "not_dispatched", !.reserved = {}]
                 ELSE IF n \in C
                 THEN [list[n] EXCEPT !.reserved = IF \A m \in C : m <= n THEN report.tokens ELSE {}]
                 ELSE list[n]
    <3> HIDE DEF C
    <3> QED BY <1>0, <2>6 DEF Settled
  <2>8. \A n \in 1..Len(list) :
          S[n] = IF n \in C
                 THEN [list[n] EXCEPT !.reserved = IF n = g THEN report.tokens ELSE {}]
                 ELSE list[n]
    <3> HIDE DEF S, C
    <3> SUFFICES ASSUME NEW n \in 1..Len(list)
                 PROVE  S[n] = IF n \in C
                               THEN [list[n] EXCEPT !.reserved = IF n = g THEN report.tokens ELSE {}]
                               ELSE list[n]
      OBVIOUS
    <3>1. CASE n \in C
      BY <2>4, <2>5, <2>7, <3>1
    <3>2. CASE n \notin C
      BY <1>1, <2>7, <3>2
    <3> QED BY <3>1, <3>2
  <2>9. \A n \in 1..Len(list) : S[n] \in Attempts
    <3>1. report.tokens \subseteq Tokens
      BY DEF Usage
    <3>2. \A a \in Attempts : \A r \in SUBSET Tokens : [a EXCEPT !.reserved = r] \in Attempts
      BY DEF Attempts
    <3> HIDE DEF S, C
    <3> SUFFICES ASSUME NEW n \in 1..Len(list) PROVE S[n] \in Attempts
      OBVIOUS
    <3>3. CASE n \in C
      <4>1. S[n] = [list[n] EXCEPT !.reserved = IF n = g THEN report.tokens ELSE {}]
        BY <2>8, <3>3
      <4> DEFINE r == IF n = g THEN report.tokens ELSE {}
      <4>2. r \in SUBSET Tokens /\ list[n] \in Attempts
        BY <1>0, <3>1
      <4>3. S[n] = [list[n] EXCEPT !.reserved = r]
        BY <4>1
      <4> HIDE DEF r
      <4>4. [list[n] EXCEPT !.reserved = r] \in Attempts
        BY <3>2, <4>2
      <4> QED BY <4>3, <4>4
    <3>4. CASE n \notin C
      BY <1>0, <2>8, <3>4
    <3> QED BY <3>3, <3>4
  <2> HIDE DEF S
  <2>10. S \in Seq(Attempts) /\ Len(S) = Len(list)
    <3>1. S \in [1..Len(list) -> Attempts]
      BY <1>3, <2>9
    <3> QED BY <1>0, <3>1
  <2>11. SettledAs(list, S, report, through, seen)
    <3> HIDE DEF through
    <3>1. Account(through, list, u, seen)
      BY DEF through
    <3> QED BY <2>1, <2>8, <2>10, <3>1, ChargedToGreatest
  <2> QED BY <1>5, <2>11 DEF S
<1> QED BY <1>4, <1>5

(* What settle() makes of an operation that was never dispatched.            *)
LEMMA SettledWaiting ==
  ASSUME NEW i \in Invocations, NEW list \in Seq(Attempts), Len(list) = 1, 1 \in 1..MaxAttempts,
         ~list[1].dispatched, list[1].used = {}, NEW report, NEW u, NEW seen,
         ~u.known, ~seen.known
  PROVE  /\ GoodList(Settled(i, list, report), "over")
         /\ GoodList(Settled(i, list, report), "ready")
         /\ Len(Settled(i, list, report)) = 1
         /\ Settled(i, list, report)[1].status = "not_dispatched"
         /\ ~Settled(i, list, report)[1].dispatched
         /\ \A t : ~Holds(Settled(i, list, report), t)
         /\ Account(Transported(i), Settled(i, list, report), u, seen)
<1> DEFINE S == Settled(i, list, report)
           a == [list[1] EXCEPT !.status = "not_dispatched", !.reserved = {}]
<1>0. DOMAIN list = 1..1 /\ list[1] \in Attempts /\ 1 \in 1..1
  OBVIOUS
<1>1. DOMAIN S = 1..1 /\ S = [n \in DOMAIN S |-> S[n]]
  BY <1>0 DEF Settled
<1>2. S[1] = a
  BY <1>0 DEF Settled
<1>3. /\ a \in Attempts /\ a.status = "not_dispatched" /\ ~a.dispatched
      /\ a.reserved = {} /\ a.used = {}
  BY <1>0 DEF Attempts
<1> HIDE DEF S, a
<1>4. S \in Seq(Attempts) /\ Len(S) = 1
  <2>1. ASSUME NEW L \in Nat, L = 1 PROVE S \in Seq(Attempts) /\ Len(S) = L
    <3>1. S \in [1..L -> Attempts]
      BY <1>1, <1>2, <1>3, <2>1
    <3> QED BY <3>1
  <2> QED BY <2>1
<1>5. Sound(1, S[1]) /\ ~Waiting(S[1]) /\ \A n \in 1..Len(S) : n = 1
  BY <1>2, <1>3, <1>4 DEF Sound, Waiting
<1>6. GoodList(S, "over") /\ GoodList(S, "ready")
  BY <1>4, <1>5 DEF GoodList
<1>7. \A t : ~Holds(S, t)
  BY <1>2, <1>3, <1>5 DEF Holds
<1>8. Account(Transported(i), S, u, seen)
  <2>1. /\ S[1].used \subseteq S[1].reserved /\ S[1].reserved \subseteq TokensOf(1)
        /\ S[1].status \in {"reserved", "failed"} => S[1].reserved = TokensOf(1)
    BY <1>2, <1>3
  <2> QED BY <1>4, <2>1, SingleAccount
<1> QED BY <1>2, <1>3, <1>4, <1>6, <1>7, <1>8 DEF S

-----------------------------------------------------------------------------
LEMMA InitIInv == Init => IInv
<1> SUFFICES ASSUME Init PROVE IInv
  OBVIOUS
<1>1. TypeOK
  BY Bounds DEF Init, TypeOK, Usage, Unknown
<1>2. AttemptsInv
  BY DEF Init, AttemptsInv, InvocationInv, Unknown
<1>3. AttemptIds = {} /\ Charged = {}
  BY DEF Init, AttemptIds, Charged, Holds
<1>4. Active = {}
  BY <1>3 DEF Active
<1>5. BudgetInv
  BY <1>3, <1>4, FS_EmptySet, Bounds DEF BudgetInv
<1> QED BY <1>1, <1>2, <1>5 DEF IInv

StopsNothing == \A id \in Sent' \ Sent : id[1] \notin aborted

Stages == {"ready", "calling", "over"}

\* What a list of attempts and the usage they were settled with must be like at a stage.
Fitting(i, list, to, u) ==
  /\ GoodList(list, to) /\ Account(Transported(i), list, u, observed[i])
  /\ to = "ready" => Transported(i) \/ ~list[1].dispatched
  /\ u.known => to = "over" \/ (Streamed(i) /\ u = observed[i])

(* What an invocation's attempts and stage become keeps the invariant.       *)
LEMMA ReplacedInv ==
  ASSUME IInv, NEW i \in Invocations, NEW list, NEW to \in Stages, NEW u \in Usage,
         Replaces(i, list, to), usage' = [usage EXCEPT ![i] = u], Fitting(i, list, to, u),
         UNCHANGED <<mode, observed, aborted>>
  PROVE  AttemptsInv'
<1> SUFFICES ASSUME NEW j \in Invocations PROVE InvocationInv(j)'
  BY DEF AttemptsInv
<1>0. (Transported(j)' <=> Transported(j)) /\ (Streamed(j)' <=> Streamed(j)) /\ TypeOK
  BY DEF Transported, Streamed, IInv
<1>1. CASE j = i
  <2>1. attempts'[j] = list /\ stage'[j] = to /\ usage'[j] = u /\ to # "idle"
    BY <1>0, <1>1 DEF Replaces, TypeOK, Stages
  <2>2. /\ GoodList(attempts'[j], stage'[j])
        /\ Account(Transported(j)', attempts'[j], usage'[j], observed'[j])
    <3>1. Transported(j)' = Transported(j) /\ observed'[j] = observed[j]
      BY DEF Transported
    <3>2. GoodList(list, to) /\ Account(Transported(j), list, u, observed[j])
      BY <1>1 DEF Fitting
    <3> QED BY <2>1, <3>1, <3>2
  <2> QED BY <1>0, <1>1, <2>1, <2>2 DEF InvocationInv, Fitting
<1>2. CASE j # i
  <2>1. attempts'[j] = attempts[j] /\ stage'[j] = stage[j] /\ usage'[j] = usage[j]
    BY <1>0, <1>2 DEF Replaces, TypeOK
  <2>2. InvocationInv(j)
    BY DEF IInv, AttemptsInv
  <2> QED BY <1>0, <2>1, <2>2 DEF InvocationInv, Transported, Streamed
<1> QED BY <1>1, <1>2

LEMMA ReplacedTyped ==
  ASSUME TypeOK, NEW i \in Invocations, NEW list, NEW to \in Stages, NEW u \in Usage,
         Replaces(i, list, to), usage' = [usage EXCEPT ![i] = u], GoodList(list, to),
         UNCHANGED <<mode, observed, aborted, ended, external>>,
         callerStopped' \subseteq Invocations
  PROVE  TypeOK'
<1>1. list \in Seq(Attempts) /\ Len(list) <= MaxAttempts
  BY Bounds DEF GoodList
<1>2. attempts' \in [Invocations -> Seq(Attempts)]
  BY <1>1 DEF Replaces, TypeOK
<1>3. \A j \in Invocations : Len(attempts'[j]) <= MaxAttempts
  BY <1>1, ReplacedAttempts DEF Replaces, TypeOK
<1>4. stage' \in [Invocations -> {"idle", "ready", "calling", "over"}]
  BY DEF Replaces, TypeOK, Stages
<1>5. usage' \in [Invocations -> Usage]
  BY DEF TypeOK
<1> QED BY <1>2, <1>3, <1>4, <1>5 DEF TypeOK

(* A change that adds nothing to the totals.                                 *)
LEMMA ShrinkingStep ==
  ASSUME IInv, NEW i \in Invocations, NEW list, NEW to \in Stages, NEW u \in Usage,
         Replaces(i, list, to), usage' = [usage EXCEPT ![i] = u], Fitting(i, list, to, u),
         AddsNothing(i, list), DispatchesNothing(i, list) \/ i \notin aborted,
         UNCHANGED <<mode, observed, aborted, ended, external>>,
         callerStopped' \subseteq Invocations
  PROVE  IInv' /\ StopsNothing
<1>0. list \in Seq(Attempts) /\ attempts' = [attempts EXCEPT ![i] = list] /\ TypeOK
      /\ GoodList(list, to)
  BY DEF Fitting, GoodList, Replaces, IInv
<1>1. TypeOK'
  BY <1>0, ReplacedTyped
<1>2. AttemptsInv'
  BY ReplacedInv
<1>3. BudgetInv'
  BY <1>0, NothingAdded, FewerFit DEF IInv
<1>4. StopsNothing
  BY <1>0, NothingDispatched, DispatchedOnlyHere DEF StopsNothing
<1> QED BY <1>1, <1>2, <1>3, <1>4 DEF IInv

(* A change that adds an attempt, for which there is room.                   *)
LEMMA GrowingStep ==
  ASSUME IInv, Fits, NEW i \in Invocations, i \notin aborted,
         NEW list, NEW to \in Stages,
         Replaces(i, list, to), Fitting(i, list, to, usage[i]),
         Len(list) = Len(attempts[i]) + 1,
         \A n \in 1..Len(attempts[i]) : list[n] = attempts[i][n],
         list[Len(list)].reserved \subseteq TokensOf(Len(list)),
         UNCHANGED <<mode, observed, usage, aborted, callerStopped, ended, external>>
  PROVE  IInv' /\ StopsNothing
<1>0. list \in Seq(Attempts) /\ attempts' = [attempts EXCEPT ![i] = list] /\ TypeOK
      /\ callerStopped' \subseteq Invocations /\ GoodList(list, to) /\ Len(list) <= MaxAttempts
  <2>1. GoodList(list, to) /\ attempts' = [attempts EXCEPT ![i] = list]
    BY DEF Fitting, Replaces
  <2>2. list \in Seq(Attempts) /\ Len(list) <= MaxAttempts
    BY <2>1, Bounds DEF GoodList
  <2>3. TypeOK /\ callerStopped' \subseteq Invocations
    BY DEF IInv, TypeOK
  <2> QED BY <2>1, <2>2, <2>3
<1>1. usage[i] \in Usage /\ usage' = [usage EXCEPT ![i] = usage[i]]
  BY <1>0 DEF TypeOK
<1>2. TypeOK'
  BY <1>0, <1>1, ReplacedTyped
<1>3. AttemptsInv'
  BY <1>1, ReplacedInv
<1>4. BudgetInv'
  BY <1>0, OneMoreFits
<1>5. StopsNothing
  BY <1>0, DispatchedOnlyHere DEF StopsNothing
<1> QED BY <1>2, <1>3, <1>4, <1>5 DEF IInv

LEMMA SameAttempts ==
  ASSUME UNCHANGED attempts
  PROVE  StopsNothing /\ (BudgetInv => BudgetInv')
BY DEF StopsNothing, BudgetInv, Sent, Charged, Active, AttemptIds, Attempt, Holds

(* What an operation's list is while it has one.                             *)
LEMMA OwnList ==
  ASSUME IInv, NEW i \in Invocations, stage[i] # "idle"
  PROVE  /\ Fitting(i, attempts[i], stage[i], usage[i]) /\ GoodList(attempts[i], stage[i])
         /\ attempts[i] \in Seq(Attempts) /\ Len(attempts[i]) \in 1..MaxAttempts
         /\ attempts[i] # <<>> /\ 1 \in 1..Len(attempts[i])
         /\ stage[i] \in Stages
         /\ Taken(i) <=> ~Waiting(attempts[i][1])
         /\ ~Taken(i) => Len(attempts[i]) = 1
         /\ Taken(i) => \A n \in 1..Len(attempts[i]) : ~Waiting(attempts[i][n])
         /\ \A n \in 1..Len(attempts[i]) :
              Sound(n, attempts[i][n]) /\ attempts[i][n] \in Attempts
         /\ usage[i] \in Usage /\ observed[i] \in Usage
<1>1. /\ Fitting(i, attempts[i], stage[i], usage[i]) /\ GoodList(attempts[i], stage[i])
      /\ stage[i] \in Stages
  BY DEF IInv, AttemptsInv, InvocationInv, Fitting, TypeOK, Stages
<1>2. /\ attempts[i] \in Seq(Attempts) /\ Len(attempts[i]) \in 1..MaxAttempts
      /\ attempts[i] # <<>> /\ 1 \in 1..Len(attempts[i])
  BY <1>1, Bounds DEF GoodList
<1>3. \A n \in 1..Len(attempts[i]) :
        /\ Sound(n, attempts[i][n]) /\ attempts[i][n] \in Attempts
        /\ Waiting(attempts[i][n]) => Len(attempts[i]) = 1
  BY <1>1, <1>2 DEF GoodList
<1>4. Taken(i) <=> ~Waiting(attempts[i][1])
  BY DEF Taken, Waiting
<1>5. Taken(i) => \A n \in 1..Len(attempts[i]) : ~Waiting(attempts[i][n])
  BY <1>2, <1>3, <1>4
<1>6. usage[i] \in Usage /\ observed[i] \in Usage
  BY DEF IInv, TypeOK
<1> QED BY <1>1, <1>2, <1>3, <1>4, <1>5, <1>6

(* Nothing was reported of an operation that was never dispatched.           *)
LEMMA NothingReported ==
  ASSUME NEW list \in Seq(Attempts), Len(list) = 1, ~list[1].dispatched, NEW through, NEW report
  PROVE  ~Honest(through, list, report)
BY DEF Honest, CoveredIn

LEMMA NothingSettled ==
  ASSUME IInv, NEW i \in Invocations, stage[i] # "idle", stage[i] # "over",
         Len(attempts[i]) = 1, ~attempts[i][1].dispatched
  PROVE  ~observed[i].known /\ ~usage[i].known
<1>1. ~observed[i].known
  BY OwnList, NothingReported DEF Fitting, Account
<1> QED BY <1>1, OwnList DEF Fitting

(* A provider reports of what was answered.                                  *)
LEMMA ReportedIsHonest ==
  ASSUME IInv, NEW i \in Invocations, stage[i] # "idle",
         Transported(i) \/ stage[i] = "calling", NEW report \in Reported(i)
  PROVE  report \in Usage /\ report.known /\ Honest(Transported(i), attempts[i], report)
<1> DEFINE list == attempts[i]
           C == Covered(i, list)
<1>1. /\ list \in Seq(Attempts) /\ Len(list) \in Nat /\ DOMAIN list = 1..Len(list)
      /\ \A n \in 1..Len(list) : Sound(n, list[n]) /\ list[n] \in Attempts
  BY OwnList
<1>2. C = CoveredIn(Transported(i), list) /\ C \subseteq 1..Len(list)
  BY <1>1 DEF CoveredIn, Covered
<1>3. \A n \in C : list[n].dispatched
  <2>1. CASE Transported(i)
    BY <1>1, <2>1 DEF Covered, Sound
  <2>2. CASE ~Transported(i)
    <3>1. Len(list) = 1 /\ list[Len(list)].dispatched
      BY <2>2, OwnList DEF Fitting, Account, GoodList
    <3> QED BY <1>2, <3>1
  <2> QED BY <2>1, <2>2
<1> HIDE DEF list
<1> DEFINE all == UNION {list[n].used : n \in C}
           last == UNION {list[n].used : n \in {m \in C : \A k \in C : k <= m}}
<1>4. report \in {[known |-> TRUE, tokens |-> t] : t \in {v \in {all, last} : C # {}}}
  BY DEF Reported, list
<1> HIDE DEF C
<1>5. C # {} /\ report.known /\ report.tokens \in {all, last}
      /\ report = [known |-> TRUE, tokens |-> report.tokens]
  BY <1>4
<1>6. \A n \in C : list[n].used \subseteq Tokens
  BY <1>1, <1>2, AttemptShape
<1>7. PICK g \in C : \A m \in C : m <= g
  BY <1>1, <1>2, <1>5, GreatestOf
<1>8. /\ all \subseteq Tokens /\ last \subseteq all
      /\ list[g].used \subseteq last
  BY <1>6, <1>7
<1>9. list[g].used \subseteq report.tokens /\ report.tokens \subseteq all
  BY <1>5, <1>8
<1>10. \A t \in report.tokens : \E n \in C : t \in list[n].used
  BY <1>9
<1> HIDE DEF all, last
<1>11. report \in Usage
  BY <1>5, <1>8, <1>9 DEF Usage
<1>12. Honest(Transported(i), list, report)
  BY <1>2, <1>3, <1>7, <1>9, <1>10 DEF Honest
<1> QED BY <1>5, <1>11, <1>12 DEF list

LEMMA ExecuteStep ==
  ASSUME IInv, NEW i \in Invocations, execute(i)
  PROVE  IInv' /\ StopsNothing
<1> DEFINE list == reserve(<<>>)
<1>0. stage[i] = "idle" /\ attempts[i] = <<>> /\ i \notin aborted /\ Fits
      /\ ~observed[i].known /\ ~usage[i].known
  BY DEF execute, IInv, AttemptsInv, InvocationInv
<1>1. /\ list \in Seq(Attempts) /\ Len(list) = 1
      /\ list[1] = [status |-> "reserved", dispatched |-> FALSE, reserved |-> TokensOf(1), used |-> {}]
  <2> DEFINE empty == <<>>
  <2>1. empty \in Seq(Attempts) /\ Len(empty) + 1 = 1 /\ Len(empty) < MaxAttempts
    BY Bounds
  <2>2. list = reserve(empty)
    OBVIOUS
  <2> HIDE DEF list, empty
  <2>3. /\ list \in Seq(Attempts) /\ Len(list) = Len(empty) + 1
        /\ list[Len(empty) + 1] =
             [status |-> "reserved", dispatched |-> FALSE,
              reserved |-> TokensOf(Len(empty) + 1), used |-> {}]
    BY <2>1, <2>2, Reserved
  <2> QED BY <2>1, <2>3
<1> HIDE DEF list
<1>2. /\ list[1].status = "reserved" /\ ~list[1].dispatched
      /\ list[1].reserved = TokensOf(1) /\ list[1].used = {}
  BY <1>1
<1>3. Sound(1, list[1])
  BY <1>2 DEF Sound
<1>4. Len(list) \in 1..MaxAttempts /\ 1 \in 1..MaxAttempts /\ \A n \in 1..Len(list) : n = 1
  BY <1>1, Bounds
<1>5. GoodList(list, "ready")
  BY <1>1, <1>3, <1>4 DEF GoodList
<1>6. Account(Transported(i), list, usage[i], observed[i])
  BY <1>0, <1>1, <1>2, <1>4, SingleAccount
<1>7. Fitting(i, list, "ready", usage[i]) /\ "ready" \in Stages
  BY <1>0, <1>2, <1>5, <1>6 DEF Fitting, Stages
<1>8. Replaces(i, list, "ready")
  BY DEF execute, Replaces, list
<1>9. /\ Len(list) = Len(attempts[i]) + 1 /\ \A n \in 1..Len(attempts[i]) : list[n] = attempts[i][n]
      /\ list[Len(list)].reserved \subseteq TokensOf(Len(list))
  BY <1>0, <1>1, <1>2
<1>10. UNCHANGED <<mode, observed, usage, aborted, callerStopped, ended, external>>
  BY DEF execute
<1> QED BY <1>0, <1>7, <1>8, <1>9, <1>10, GrowingStep

LEMMA BeginFirstStep ==
  ASSUME IInv, NEW i \in Invocations, BeginFirst(i)
  PROVE  IInv' /\ StopsNothing
<1> DEFINE list == attempts[i]
<1>0. stage[i] = "ready" /\ i \notin aborted /\ ~Taken(i) /\ ~list[1].dispatched
  BY DEF BeginFirst, Taken
<1>1. /\ list \in Seq(Attempts) /\ list # <<>> /\ Len(list) = 1 /\ Len(list) <= MaxAttempts
      /\ list[1].reserved = TokensOf(1) /\ list[1].status = "reserved"
      /\ usage[i] \in Usage
  BY <1>0, OwnList, Bounds DEF Sound
<1>2. ~observed[i].known /\ ~usage[i].known
  BY <1>0, <1>1, NothingSettled
<1> PICK use \in 0..bound :
       attempts' = [attempts EXCEPT ![i] =
         [list EXCEPT ![Len(list)] = [@ EXCEPT !.dispatched = TRUE, !.used = {Len(list)} \X (1..use)]]]
  BY DEF BeginFirst, Dispatch
<1> DEFINE sent == [list EXCEPT ![Len(list)] =
                      [@ EXCEPT !.dispatched = TRUE, !.used = {Len(list)} \X (1..use)]]
<1>3. /\ GoodList(sent, "calling") /\ Len(sent) = 1
      /\ sent[1].reserved = TokensOf(1) /\ sent[1].used \subseteq TokensOf(1)
  <2>1. \A n \in 1..Len(list) : n # Len(list) => Sound(n, list[n]) /\ ~Waiting(list[n])
    BY <1>1
  <2> HIDE DEF list
  <2>2. list[Len(list)].reserved = TokensOf(Len(list)) /\ list[Len(list)].status = "reserved"
    BY <1>1
  <2>3. /\ GoodList(sent, "calling") /\ Len(sent) = Len(list)
        /\ sent[Len(list)].reserved = TokensOf(Len(list))
        /\ sent[Len(list)].used \subseteq TokensOf(Len(list))
    BY <1>1, <2>1, <2>2, DispatchedList
  <2> HIDE DEF sent
  <2> QED BY <1>1, <2>3
<1>4. Replaces(i, sent, "calling")
  BY DEF BeginFirst, Dispatch, Replaces
<1>5. /\ UNCHANGED <<mode, observed, usage, aborted, ended, external>>
      /\ callerStopped' \subseteq Invocations
  BY DEF BeginFirst, Dispatch, IInv, TypeOK
<1> HIDE DEF sent
<1>6. sent \in Seq(Attempts) /\ 1 \in 1..MaxAttempts
  BY <1>3, Bounds DEF GoodList
<1>7. Fitting(i, sent, "calling", usage[i]) /\ "calling" \in Stages
  <2>1. Account(Transported(i), sent, usage[i], observed[i])
    BY <1>2, <1>3, <1>6, SingleAccount
  <2> QED BY <1>2, <1>3, <2>1 DEF Fitting, Stages
<1>8. AddsNothing(i, sent)
  <2>1. \A n \in 1..Len(sent) : n = 1
    BY <1>3
  <2>2. 1 \in 1..Len(list)
    BY <1>1
  <2>3. \A t : Holds(sent, t) => Holds(list, t)
    BY <1>1, <1>3, <2>1, <2>2 DEF Holds
  <2> QED BY <1>1, <2>1, <2>3 DEF AddsNothing
<1>9. usage' = [usage EXCEPT ![i] = usage[i]]
  BY <1>5 DEF IInv, TypeOK
<1> QED BY <1>0, <1>1, <1>4, <1>5, <1>7, <1>8, <1>9, ShrinkingStep

LEMMA BeginRetryStep ==
  ASSUME IInv, NEW i \in Invocations, BeginRetry(i)
  PROVE  IInv' /\ StopsNothing
<1> DEFINE list == reserve(attempts[i])
<1>0. stage[i] = "ready" /\ i \notin aborted /\ Taken(i) /\ Len(attempts[i]) < MaxAttempts /\ Fits
      /\ Transported(i)
  BY DEF BeginRetry
<1>1. /\ attempts[i] \in Seq(Attempts) /\ Len(attempts[i]) \in Nat
      /\ \A n \in 1..Len(attempts[i]) : Sound(n, attempts[i][n]) /\ ~Waiting(attempts[i][n])
      /\ Fitting(i, attempts[i], "ready", usage[i])
  BY <1>0, OwnList
<1>2. /\ list \in Seq(Attempts) /\ Len(list) = Len(attempts[i]) + 1
      /\ list[Len(list)].reserved = TokensOf(Len(list)) /\ list[Len(list)].status = "reserved"
      /\ \A n \in 1..Len(attempts[i]) : list[n] = attempts[i][n]
  <2> DEFINE own == attempts[i]
             next == [status |-> "reserved", dispatched |-> FALSE,
                      reserved |-> TokensOf(Len(own) + 1), used |-> {}]
  <2>1. own \in Seq(Attempts) /\ Len(own) < MaxAttempts
    BY <1>0, <1>1
  <2> HIDE DEF own
  <2>2. /\ reserve(own) \in Seq(Attempts) /\ Len(reserve(own)) = Len(own) + 1
        /\ reserve(own)[Len(own) + 1] = next
        /\ \A n \in 1..Len(own) : reserve(own)[n] = own[n]
    BY <2>1, Reserved
  <2>3. next.status = "reserved" /\ next.reserved = TokensOf(Len(own) + 1)
    OBVIOUS
  <2> HIDE DEF next
  <2>4. reserve(own)[Len(own) + 1].status = "reserved"
        /\ reserve(own)[Len(own) + 1].reserved = TokensOf(Len(own) + 1)
    BY <2>2, <2>3
  <2> QED BY <2>2, <2>4 DEF own
<1> PICK use \in 0..bound :
       attempts' = [attempts EXCEPT ![i] =
         [list EXCEPT ![Len(list)] = [@ EXCEPT !.dispatched = TRUE, !.used = {Len(list)} \X (1..use)]]]
  BY DEF BeginRetry, Dispatch
<1> DEFINE sent == [list EXCEPT ![Len(list)] =
                      [@ EXCEPT !.dispatched = TRUE, !.used = {Len(list)} \X (1..use)]]
<1>3. Replaces(i, sent, "calling")
  BY DEF BeginRetry, Dispatch, Replaces
<1> HIDE DEF list
<1>4. /\ list # <<>> /\ Len(list) <= MaxAttempts
      /\ \A n \in 1..Len(list) : n # Len(list) => n \in 1..Len(attempts[i])
  BY <1>0, <1>1, <1>2, Bounds
<1>5. /\ GoodList(sent, "calling") /\ Len(sent) = Len(list)
      /\ sent[Len(list)].reserved = TokensOf(Len(list))
      /\ sent[Len(list)].used \subseteq TokensOf(Len(list))
      /\ \A n \in 1..Len(list) : n # Len(list) => sent[n] = list[n]
  BY <1>1, <1>2, <1>4, DispatchedList
<1> HIDE DEF sent
<1>6. /\ Len(sent) = Len(attempts[i]) + 1 /\ \A n \in 1..Len(attempts[i]) : sent[n] = attempts[i][n]
      /\ sent[Len(sent)].reserved = TokensOf(Len(sent))
      /\ sent[Len(sent)].used \subseteq TokensOf(Len(sent))
      /\ sent \in Seq(Attempts) /\ Len(sent) \in 1..MaxAttempts
  BY <1>1, <1>2, <1>5 DEF GoodList
<1>7. Account(Transported(i), sent, usage[i], observed[i])
  <2> DEFINE own == attempts[i]
             through == Transported(i)
             u == usage[i]
             seen == observed[i]
  <2>1. Account(through, own, u, seen) /\ through /\ own \in Seq(Attempts)
    BY <1>0, <1>1 DEF Fitting
  <2>2. Len(sent) = Len(own) + 1 /\ \A n \in 1..Len(own) : sent[n] = own[n]
    BY <1>6
  <2>3. /\ sent[Len(sent)].used \subseteq sent[Len(sent)].reserved
        /\ sent[Len(sent)].reserved \subseteq TokensOf(Len(sent))
        /\ sent[Len(sent)].status \in {"reserved", "failed"} =>
             sent[Len(sent)].reserved = TokensOf(Len(sent))
        /\ sent \in Seq(Attempts) /\ Len(sent) \in 1..MaxAttempts
    BY <1>6
  <2> HIDE DEF own, through, u, seen
  <2>4. Account(through, sent, u, seen)
    BY <2>1, <2>2, <2>3, LongerAccount
  <2> QED BY <2>4 DEF through, u, seen
<1>8. Fitting(i, sent, "calling", usage[i]) /\ "calling" \in Stages
  BY <1>1, <1>5, <1>7 DEF Fitting, Stages
<1>9. UNCHANGED <<mode, observed, usage, aborted, callerStopped, ended, external>>
  BY DEF BeginRetry, Dispatch
<1> QED BY <1>0, <1>3, <1>6, <1>8, <1>9, GrowingStep

LEMMA WithdrawStep ==
  ASSUME IInv, NEW i \in Invocations, Withdraw(i)
  PROVE  IInv' /\ StopsNothing
<1> DEFINE kept == IF Taken(i) THEN attempts[i] ELSE <<>>
           a == [status |-> "not_dispatched", dispatched |-> FALSE, reserved |-> {}, used |-> {}]
           list == Append(kept, a)
           through == Transported(i)
           u == usage[i]
           seen == observed[i]
<1>0. stage[i] = "ready" /\ (Taken(i) => Len(attempts[i]) < MaxAttempts) /\ through
      /\ "ready" \in Stages
  BY DEF Withdraw, Stages
<1>1. Replaces(i, list, "ready")
  BY <1>0 DEF Withdraw, Replaces, IInv, TypeOK
<1>2. /\ a \in Attempts /\ a.status = "not_dispatched" /\ ~a.dispatched
      /\ a.reserved = {} /\ a.used = {}
  BY DEF Attempts
<1>3. /\ kept \in Seq(Attempts) /\ Len(kept) < MaxAttempts /\ Len(kept) \in Nat
      /\ Len(kept) <= Len(attempts[i]) /\ Len(attempts[i]) \in Nat
      /\ \A n \in 1..Len(kept) :
           kept[n] = attempts[i][n] /\ Sound(n, kept[n]) /\ ~Waiting(kept[n])
  <2>1. CASE Taken(i)
    BY <1>0, <2>1, OwnList
  <2>2. CASE ~Taken(i)
    BY <1>0, <2>2, OwnList, Bounds
  <2> QED BY <2>1, <2>2
<1>4. Account(through, attempts[i], u, seen) /\ (u.known => Streamed(i) /\ u = seen) /\ u \in Usage
  BY <1>0, OwnList DEF Fitting
<1>5. Taken(i) => kept = attempts[i]
  OBVIOUS
<1>6. ~Taken(i) => Len(kept) = 0 /\ ~seen.known /\ ~u.known
  <2> SUFFICES ASSUME ~Taken(i) PROVE Len(kept) = 0 /\ ~seen.known /\ ~u.known
    OBVIOUS
  <2>1. Len(attempts[i]) = 1 /\ ~attempts[i][1].dispatched
    BY <1>0, OwnList DEF Taken
  <2> QED BY <1>0, <2>1, NothingSettled
<1> HIDE DEF kept, a, through, u, seen
<1>7. /\ list \in Seq(Attempts) /\ Len(list) = Len(kept) + 1 /\ list[Len(list)] = a
      /\ \A n \in 1..Len(kept) : list[n] = kept[n]
  BY <1>2, <1>3
<1> HIDE DEF list
<1>8. \A n \in 1..Len(list) : n \in 1..Len(kept) \/ list[n] = a
  BY <1>3, <1>7
<1>9. Len(list) \in 1..MaxAttempts
  BY <1>3, <1>7, Bounds
<1>10. GoodList(list, "ready")
  <2>1. \A n : Sound(n, a) /\ ~Waiting(a)
    BY <1>2 DEF Sound, Waiting
  <2>2. \A n \in 1..Len(list) : Sound(n, list[n]) /\ ~Waiting(list[n])
    BY <1>3, <1>7, <1>8, <2>1
  <2> QED BY <1>7, <1>9, <2>2 DEF GoodList
<1>11. Account(through, list, u, seen)
  <2>1. /\ list[Len(list)].used \subseteq list[Len(list)].reserved
        /\ list[Len(list)].reserved \subseteq TokensOf(Len(list))
        /\ list[Len(list)].status \in {"reserved", "failed"} =>
             list[Len(list)].reserved = TokensOf(Len(list))
    BY <1>2, <1>7
  <2>2. CASE Taken(i)
    <3>1. Account(through, kept, u, seen)
      BY <1>4, <1>5, <2>2
    <3> QED BY <1>0, <1>3, <1>7, <1>9, <2>1, <3>1, LongerAccount
  <2>3. CASE ~Taken(i)
    <3>1. Len(list) = 1 /\ 1 \in 1..MaxAttempts /\ ~seen.known /\ ~u.known
      BY <1>6, <1>7, <1>9, <2>3
    <3>2. /\ list[1].used \subseteq list[1].reserved
          /\ list[1].reserved \subseteq TokensOf(1)
          /\ list[1].status \in {"reserved", "failed"} => list[1].reserved = TokensOf(1)
      BY <2>1, <3>1
    <3> QED BY <1>7, <3>1, <3>2, SingleAccount
  <2> QED BY <2>2, <2>3
<1>12. Fitting(i, list, "ready", u)
  BY <1>0, <1>4, <1>10, <1>11 DEF Fitting, through, seen
<1>13. \A n \in 1..Len(kept) : n \in 1..Len(attempts[i]) /\ list[n] = attempts[i][n]
  BY <1>3, <1>7
<1>14. AddsNothing(i, list)
  <2>1. ASSUME NEW t, Holds(list, t) PROVE Holds(attempts[i], t)
    <3> PICK n \in 1..Len(list) : t \in list[n].reserved
      BY <2>1 DEF Holds
    <3>1. n \in 1..Len(kept)
      BY <1>2, <1>8
    <3> QED BY <1>13, <3>1 DEF Holds
  <2>2. ASSUME NEW n \in 1..Len(list), list[n].status # "not_dispatched"
        PROVE  n <= Len(attempts[i]) /\ attempts[i][n].status # "not_dispatched"
    <3>1. n \in 1..Len(kept)
      BY <1>2, <1>8, <2>2
    <3> QED BY <1>3, <1>13, <2>2, <3>1
  <2> QED BY <2>1, <2>2 DEF AddsNothing
<1>15. DispatchesNothing(i, list)
  <2> SUFFICES ASSUME NEW n \in 1..Len(list), list[n].dispatched
               PROVE  n <= Len(attempts[i]) /\ attempts[i][n].dispatched
    BY DEF DispatchesNothing
  <2>1. n \in 1..Len(kept)
    BY <1>2, <1>8
  <2> QED BY <1>3, <1>13, <2>1
<1>16. /\ UNCHANGED <<mode, observed, aborted, ended, external>>
       /\ callerStopped' \subseteq Invocations
       /\ usage' = [usage EXCEPT ![i] = u]
  BY DEF Withdraw, IInv, TypeOK, u
<1> QED BY <1>0, <1>1, <1>4, <1>12, <1>14, <1>15, <1>16, ShrinkingStep

(* The last attempt, which is under way, is answered or fails.               *)
WithStatus(list, status) == [list EXCEPT ![Len(list)].status = status]

LEMMA EndedList ==
  ASSUME IInv, NEW i \in Invocations, stage[i] = "calling",
         NEW status \in {"received", "failed"}
  PROVE  LET list == WithStatus(attempts[i], status)
         IN  /\ list \in Seq(Attempts) /\ Len(list) = Len(attempts[i])
             /\ GoodList(list, "ready") /\ GoodList(list, "over")
             /\ \A n \in 1..Len(list) :
                  /\ Sound(n, list[n]) /\ ~Waiting(list[n])
                  /\ list[n].reserved = attempts[i][n].reserved
                  /\ list[n].used = attempts[i][n].used
                  /\ list[n].dispatched = attempts[i][n].dispatched
                  /\ list[n].status # "not_dispatched" => attempts[i][n].status # "not_dispatched"
             /\ Account(Transported(i), list, usage[i], observed[i])
<1> DEFINE old == attempts[i]
           L == Len(old)
           a == [old[L] EXCEPT !.status = status]
           list == [old EXCEPT ![L] = a]
           u == usage[i]
           seen == observed[i]
           through == Transported(i)
<1>1. /\ old \in Seq(Attempts) /\ old # <<>> /\ L \in 1..MaxAttempts /\ L \in 1..L
      /\ old[L] \in Attempts /\ old[L].dispatched /\ old[L].status = "reserved"
      /\ \A n \in 1..L : Sound(n, old[n]) /\ ~Waiting(old[n])
      /\ Account(through, old, u, seen)
  <2>1. GoodList(old, "calling") /\ Account(through, old, u, seen)
    BY OwnList DEF Fitting
  <2>2. L \in 1..MaxAttempts /\ L \in 1..L /\ old # <<>>
    BY <2>1, Bounds DEF GoodList
  <2> HIDE DEF old, through, u, seen
  <2> QED BY <2>1, <2>2 DEF GoodList
<1>2. list = WithStatus(old, status)
  BY DEF WithStatus
<1> HIDE DEF old, through, u, seen
<1>3. /\ a \in Attempts /\ a.dispatched /\ a.status = status /\ a.used = old[L].used
      /\ a.reserved = old[L].reserved
  BY <1>1 DEF Attempts
<1> HIDE DEF a
<1>4. /\ list \in Seq(Attempts) /\ Len(list) = L /\ list[L] = a
      /\ \A n \in 1..L : n # L => list[n] = old[n]
  BY <1>1, <1>3, LastChanged
<1> HIDE DEF list
<1>5. Sound(L, a) /\ ~Waiting(a)
  <2>1. Sound(L, old[L])
    BY <1>1
  <2> QED BY <1>1, <1>3, <2>1 DEF Sound, Waiting
<1>6. \A n \in 1..L :
        /\ Sound(n, list[n]) /\ ~Waiting(list[n])
        /\ list[n].reserved = old[n].reserved /\ list[n].used = old[n].used
        /\ list[n].dispatched = old[n].dispatched
        /\ list[n].status # "not_dispatched" => old[n].status # "not_dispatched"
        /\ n # L => list[n].status = old[n].status
  <2> SUFFICES ASSUME NEW n \in 1..L
               PROVE  /\ Sound(n, list[n]) /\ ~Waiting(list[n])
                      /\ list[n].reserved = old[n].reserved /\ list[n].used = old[n].used
                      /\ list[n].dispatched = old[n].dispatched
                      /\ list[n].status # "not_dispatched" => old[n].status # "not_dispatched"
                      /\ n # L => list[n].status = old[n].status
    OBVIOUS
  <2>1. CASE n = L
    BY <1>1, <1>3, <1>4, <1>5, <2>1
  <2>2. CASE n # L
    BY <1>1, <1>4, <2>2
  <2> QED BY <2>1, <2>2
<1>7. GoodList(list, "ready") /\ GoodList(list, "over")
  BY <1>1, <1>4, <1>6 DEF GoodList
<1>8. Account(through, list, u, seen)
  <2>1. /\ Len(list) = Len(old) /\ old[Len(old)].status = "reserved"
        /\ list[Len(old)].status \in {"received", "failed"}
        /\ \A n \in 1..Len(old) :
             /\ list[n].used = old[n].used /\ list[n].reserved = old[n].reserved
             /\ list[n].dispatched = old[n].dispatched
             /\ n # Len(old) => list[n].status = old[n].status
    BY <1>1, <1>3, <1>4, <1>6
  <2> QED BY <1>1, <1>4, <2>1, AnsweredAccount
<1> QED BY <1>2, <1>4, <1>6, <1>7, <1>8 DEF old, through, u, seen

LEMMA AnswerStep ==
  ASSUME IInv, NEW i \in Invocations, Answer(i) \/ AttemptFails(i)
  PROVE  IInv' /\ StopsNothing
<1> PICK status \in {"received", "failed"} : EndTransport(i, status)
  BY DEF Answer, AttemptFails
<1> DEFINE list == WithStatus(attempts[i], status)
<1>0. stage[i] = "calling" /\ Transported(i) /\ "ready" \in Stages
  BY DEF EndTransport, Stages
<1>1. /\ list \in Seq(Attempts) /\ Len(list) = Len(attempts[i]) /\ GoodList(list, "ready")
      /\ \A n \in 1..Len(list) :
           /\ list[n].reserved = attempts[i][n].reserved
           /\ list[n].dispatched = attempts[i][n].dispatched
           /\ list[n].status # "not_dispatched" => attempts[i][n].status # "not_dispatched"
      /\ Account(Transported(i), list, usage[i], observed[i])
  <2>1. /\ list \in Seq(Attempts) /\ Len(list) = Len(attempts[i]) /\ GoodList(list, "ready")
        /\ Account(Transported(i), list, usage[i], observed[i])
    BY <1>0, EndedList
  <2>2. \A n \in 1..Len(list) :
          /\ list[n].reserved = attempts[i][n].reserved
          /\ list[n].dispatched = attempts[i][n].dispatched
          /\ list[n].status # "not_dispatched" => attempts[i][n].status # "not_dispatched"
    BY <1>0, EndedList
  <2> QED BY <2>1, <2>2
<1>2. Replaces(i, list, "ready")
  <2>1. attempts' = [attempts EXCEPT ![i][Len(attempts[i])] = [Last(i) EXCEPT !.status = status]]
    BY DEF EndTransport, Put
  <2>2. attempts' = [attempts EXCEPT ![i] = list]
    BY <2>1 DEF Last, WithStatus
  <2> QED BY <2>2 DEF EndTransport, Replaces
<1> HIDE DEF list
<1>3. Fitting(i, list, "ready", usage[i])
  BY <1>0, <1>1, OwnList DEF Fitting
<1>4. AddsNothing(i, list) /\ DispatchesNothing(i, list)
  BY <1>1 DEF AddsNothing, DispatchesNothing, Holds
<1>5. /\ UNCHANGED <<mode, observed, usage, aborted, ended, external>>
      /\ callerStopped' \subseteq Invocations /\ usage[i] \in Usage
      /\ usage' = [usage EXCEPT ![i] = usage[i]]
  BY DEF EndTransport, IInv, TypeOK
<1> QED BY <1>0, <1>2, <1>3, <1>4, <1>5, ShrinkingStep

(* settle() with an honest report, of an operation at any stage.             *)
LEMMA SettleStep ==
  ASSUME IInv, NEW i \in Invocations, stage[i] # "idle", stage[i] # "over",
         NEW list \in Seq(Attempts), Len(list) = Len(attempts[i]),
         \A n \in 1..Len(list) :
           /\ list[n].reserved = attempts[i][n].reserved
           /\ list[n].dispatched = attempts[i][n].dispatched
           /\ list[n].used = attempts[i][n].used,
         \/ Len(list) = 1 /\ ~list[1].dispatched
         \/ /\ \A n \in 1..Len(list) :
                 /\ Sound(n, list[n]) /\ ~Waiting(list[n])
                 /\ list[n].status # "not_dispatched" => attempts[i][n].status # "not_dispatched"
            /\ Account(Transported(i), list, usage[i], observed[i]),
         NEW report \in Usage,
         report.known => Honest(Transported(i), list, report),
         Streamed(i) => report = observed[i],
         NEW to \in Stages, to = "over" \/ (to = stage[i] /\ Streamed(i) /\ list = attempts[i]),
         Settle(i, list, report), stage' = [stage EXCEPT ![i] = to],
         UNCHANGED <<mode, observed, aborted, ended, external>>,
         callerStopped' \subseteq Invocations
  PROVE  IInv' /\ StopsNothing
<1> DEFINE S == Settled(i, list, report)
           old == usage[i]
           u == IF Counts(i, report) THEN report ELSE old
           seen == observed[i]
           through == Transported(i)
<1>0. /\ Fitting(i, attempts[i], stage[i], old) /\ old \in Usage /\ u \in Usage
      /\ Len(list) \in 1..MaxAttempts /\ 1 \in 1..MaxAttempts
      /\ \A n \in 1..Len(attempts[i]) : Sound(n, attempts[i][n])
      /\ stage[i] \in Stages
  BY OwnList, Bounds
<1>1. Replaces(i, S, to) /\ usage' = [usage EXCEPT ![i] = u]
  BY DEF Settle, Replaces
<1>2. old.known => old = seen /\ Streamed(i)
  BY <1>0 DEF Fitting
<1>3. u.known => to = "over" \/ (Streamed(i) /\ u = seen)
  BY <1>2
<1>4. CASE Len(list) = 1 /\ ~list[1].dispatched
  <2>1. Len(attempts[i]) = 1 /\ ~attempts[i][1].dispatched /\ list[1].used = {}
        /\ 1 \in 1..Len(attempts[i])
    BY <1>0, <1>4 DEF Sound
  <2>2. ~seen.known /\ ~old.known /\ ~report.known
    BY <1>4, <2>1, NothingSettled, NothingReported
  <2>3. u = old
    BY <2>2 DEF Counts
  <2>4. to # "calling"
    <3>1. stage[i] # "calling"
      BY <1>0, <2>1 DEF Fitting, GoodList
    <3> QED BY <3>1
  <2>5. /\ GoodList(S, "over") /\ GoodList(S, "ready") /\ Len(S) = 1
        /\ S[1].status = "not_dispatched" /\ ~S[1].dispatched
        /\ \A t : ~Holds(S, t) /\ Account(through, S, old, seen)
    BY <1>0, <1>4, <2>1, <2>2, SettledWaiting
  <2> HIDE DEF S, u, old, seen, through
  <2>6. GoodList(S, to)
    BY <2>4, <2>5 DEF Stages
  <2>7. Fitting(i, S, to, u)
    BY <1>3, <2>2, <2>3, <2>5, <2>6 DEF Fitting, seen, through
  <2>8. AddsNothing(i, S) /\ DispatchesNothing(i, S)
    BY <2>5 DEF AddsNothing, DispatchesNothing
  <2> QED BY <1>0, <1>1, <2>7, <2>8, ShrinkingStep
<1>5. CASE /\ \A n \in 1..Len(list) :
                /\ Sound(n, list[n]) /\ ~Waiting(list[n])
                /\ list[n].status # "not_dispatched" => attempts[i][n].status # "not_dispatched"
           /\ Account(through, list, old, seen)
  <2>1. Counts(i, report) => Honest(through, list, report) /\ (old.known => old = report)
    BY <1>2 DEF Counts
  <2>2. SettledAs(list, S, u, through, seen)
    BY <1>0, <1>5, <2>1, SettledList
  <2>3. to = "calling" => list[Len(list)].dispatched /\ list[Len(list)].status = "reserved"
    BY <1>0 DEF Fitting, GoodList
  <2>4. to = "ready" => Transported(i) \/ ~list[1].dispatched
    BY <1>0 DEF Fitting
  <2> HIDE DEF S, u, old, seen, through
  <2>5. /\ S \in Seq(Attempts) /\ Len(S) = Len(list) /\ 1 \in 1..Len(list) /\ Len(list) \in 1..Len(list)
        /\ \A n \in 1..Len(list) :
             /\ Sound(n, S[n]) /\ ~Waiting(S[n])
             /\ S[n].dispatched = list[n].dispatched /\ S[n].status = list[n].status
        /\ \A t : Holds(S, t) => Holds(list, t)
        /\ Account(through, S, u, seen)
    BY <1>0, <2>2 DEF SettledAs
  <2>6. GoodList(S, to)
    BY <1>0, <2>3, <2>5 DEF GoodList
  <2>7. Fitting(i, S, to, u)
    BY <1>3, <2>4, <2>5, <2>6 DEF Fitting, seen, through
  <2>8. AddsNothing(i, S) /\ DispatchesNothing(i, S)
    <3>1. \A t : Holds(list, t) => Holds(attempts[i], t)
      BY DEF Holds
    <3>2. \A n \in 1..Len(S) : n <= Len(attempts[i])
      BY <1>0, <2>5
    <3> QED BY <1>5, <2>5, <3>1, <3>2 DEF AddsNothing, DispatchesNothing
  <2> QED BY <1>0, <1>1, <2>7, <2>8, ShrinkingStep
<1> QED BY <1>4, <1>5

LEMMA OperationEndsStep ==
  ASSUME IInv, NEW i \in Invocations, OperationEnds(i)
  PROVE  IInv' /\ StopsNothing
<1> DEFINE own == attempts[i]
<1> PICK status \in IF Transported(i) THEN {Last(i).status} ELSE {"received", "failed"},
         report \in IF Streamed(i) THEN {observed[i]} ELSE
                    {Unknown} \cup {r \in Reported(i) : stage[i] = "calling" \/ Transported(i)} :
       Settle(i, WithStatus(own, status), report)
  BY DEF OperationEnds, WithStatus
<1> DEFINE list == WithStatus(own, status)
<1>0. /\ stage[i] # "idle" /\ stage[i] # "over" /\ "over" \in Stages
      /\ stage[i] = "ready" \/ (stage[i] = "calling" /\ ~Transported(i))
      /\ stage' = [stage EXCEPT ![i] = "over"]
      /\ UNCHANGED <<mode, observed, aborted, ended, external>> /\ callerStopped' \subseteq Invocations
  BY DEF OperationEnds, Stages, IInv, TypeOK
<1>1. /\ own \in Seq(Attempts) /\ own # <<>> /\ Len(own) \in 1..Len(own)
      /\ \A n \in 1..Len(own) : own[n] \in Attempts /\ Sound(n, own[n])
      /\ Account(Transported(i), own, usage[i], observed[i]) /\ observed[i] \in Usage
      /\ stage[i] = "ready" => Transported(i) \/ ~own[1].dispatched
      /\ ~Transported(i) => Len(own) = 1
      /\ stage[i] = "calling" => own[Len(own)].dispatched
  BY <1>0, OwnList, Bounds DEF Fitting, GoodList, Account
<1>2. report \in Usage /\ (report.known => Honest(Transported(i), own, report))
      /\ (Streamed(i) => report = observed[i])
  <2>1. CASE Streamed(i)
    BY <1>1, <2>1 DEF Account
  <2>2. CASE ~Streamed(i) /\ report = Unknown
    BY <2>2 DEF Usage, Unknown
  <2>3. CASE ~Streamed(i) /\ report # Unknown
    <3>1. report \in Reported(i) /\ (stage[i] = "calling" \/ Transported(i))
      BY <2>3
    <3> QED BY <1>0, <2>3, <3>1, ReportedIsHonest
  <2> QED BY <2>1, <2>2, <2>3
<1>3. /\ list \in Seq(Attempts) /\ Len(list) = Len(own)
      /\ \A n \in 1..Len(list) :
           /\ list[n].reserved = own[n].reserved /\ list[n].dispatched = own[n].dispatched
           /\ list[n].used = own[n].used
           /\ ~Transported(i) \/ list[n] = own[n]
           /\ Transported(i) => list[n].status = own[n].status
  <2> DEFINE a == [own[Len(own)] EXCEPT !.status = status]
             changed == [own EXCEPT ![Len(own)] = a]
  <2>1. own[Len(own)] \in Attempts /\ status \in {"reserved", "received", "failed", "not_dispatched"}
    BY <1>1, AttemptShape DEF Last
  <2>2. /\ a \in Attempts /\ a.reserved = own[Len(own)].reserved /\ a.used = own[Len(own)].used
        /\ a.dispatched = own[Len(own)].dispatched
    BY <2>1 DEF Attempts
  <2>3. Transported(i) => a = own[Len(own)]
    BY <2>1 DEF Last, Attempts
  <2>4. list = changed
    BY DEF WithStatus
  <2> HIDE DEF own, a, list
  <2>5. /\ changed \in Seq(Attempts) /\ Len(changed) = Len(own)
        /\ changed[Len(own)] = a
        /\ \A n \in 1..Len(own) : n # Len(own) => changed[n] = own[n]
    BY <1>1, <2>2, LastChanged
  <2> HIDE DEF changed
  <2>6. \A n \in 1..Len(own) :
          /\ changed[n].reserved = own[n].reserved /\ changed[n].dispatched = own[n].dispatched
          /\ changed[n].used = own[n].used
          /\ ~Transported(i) \/ changed[n] = own[n]
    <3> SUFFICES ASSUME NEW n \in 1..Len(own)
                 PROVE  /\ changed[n].reserved = own[n].reserved
                        /\ changed[n].dispatched = own[n].dispatched
                        /\ changed[n].used = own[n].used
                        /\ ~Transported(i) \/ changed[n] = own[n]
      OBVIOUS
    <3>1. CASE n = Len(own)
      BY <2>2, <2>3, <2>5, <3>1
    <3>2. CASE n # Len(own)
      BY <2>5, <3>2
    <3> QED BY <3>1, <3>2
  <2> QED BY <2>4, <2>5, <2>6
<1>4. report.known => Honest(Transported(i), list, report)
  <2>1. CASE Transported(i)
    <3>1. CoveredIn(TRUE, list) = CoveredIn(TRUE, own)
      BY <1>3, <2>1 DEF CoveredIn
    <3>2. CoveredIn(TRUE, own) \subseteq 1..Len(own) /\ Transported(i) = TRUE
      BY <2>1 DEF CoveredIn, Transported
    <3> HIDE DEF own, list
    <3> QED BY <1>2, <1>3, <3>1, <3>2 DEF Honest
  <2>2. CASE ~Transported(i)
    <3>1. CoveredIn(Transported(i), list) = 1..Len(own) /\ CoveredIn(Transported(i), own) = 1..Len(own)
      BY <1>3, <2>2 DEF CoveredIn
    <3> HIDE DEF own, list
    <3> QED BY <1>2, <1>3, <3>1 DEF Honest
  <2> QED BY <2>1, <2>2
<1>5. Settle(i, list, report)
  OBVIOUS
<1>6. CASE Len(own) = 1 /\ ~own[1].dispatched
  <2>1. Len(list) = 1 /\ ~list[1].dispatched
    BY <1>3, <1>6
  <2> HIDE DEF list
  <2> QED BY <1>0, <1>2, <1>3, <1>4, <1>5, <2>1, SettleStep
<1>7. CASE Transported(i) /\ ~(Len(own) = 1 /\ ~own[1].dispatched)
  <2>1. list = own
    BY <1>1, <1>3, <1>7
  <2>2. \A n \in 1..Len(own) : Sound(n, own[n]) /\ ~Waiting(own[n])
    BY <1>0, <1>1, <1>7, OwnList DEF Waiting
  <2> HIDE DEF list
  <2> QED BY <1>0, <1>1, <1>2, <1>4, <1>5, <2>1, <2>2, SettleStep
<1>8. CASE ~Transported(i) /\ ~(Len(own) = 1 /\ ~own[1].dispatched)
  <2>1. stage[i] = "calling" /\ status \in {"received", "failed"}
    BY <1>0, <1>1, <1>8
  <2>2. /\ \A n \in 1..Len(list) :
             /\ Sound(n, list[n]) /\ ~Waiting(list[n])
             /\ list[n].status # "not_dispatched" => own[n].status # "not_dispatched"
        /\ Account(Transported(i), list, usage[i], observed[i])
    BY <2>1, EndedList
  <2> HIDE DEF list
  <2> QED BY <1>0, <1>2, <1>3, <1>4, <1>5, <2>2, SettleStep
<1> QED BY <1>6, <1>7, <1>8

LEMMA CallerLeavesStep ==
  ASSUME IInv, NEW i \in Invocations, CallerLeaves(i)
  PROVE  IInv' /\ StopsNothing
<1> DEFINE own == attempts[i]
<1>0. /\ UNCHANGED <<stage, mode, observed, aborted, ended, external>>
      /\ callerStopped' \subseteq Invocations
      /\ stage[i] # "over" /\ stage[i] # "idle"
  BY DEF CallerLeaves, IInv, TypeOK, AttemptsInv, InvocationInv
<1>1. /\ own \in Seq(Attempts) /\ Fitting(i, own, stage[i], usage[i])
      /\ stage[i] \in Stages /\ usage[i] \in Usage /\ observed[i] \in Usage
      /\ \A n \in 1..Len(own) : Sound(n, own[n]) /\ own[n] \in Attempts
      /\ stage' = [stage EXCEPT ![i] = stage[i]] /\ Len(own) \in 1..MaxAttempts
  BY <1>0, OwnList DEF IInv, TypeOK
<1>2. CASE Streamed(i)
  <2>1. Settle(i, own, observed[i])
    BY <1>2 DEF CallerLeaves
  <2>2. Account(Transported(i), own, usage[i], observed[i])
    BY <1>1 DEF Fitting
  <2>3. observed[i].known => Honest(Transported(i), own, observed[i])
    BY <2>2 DEF Account
  <2>4. \/ Len(own) = 1 /\ ~own[1].dispatched
        \/ \A n \in 1..Len(own) : Sound(n, own[n]) /\ ~Waiting(own[n])
    BY <1>0, <1>1, OwnList DEF Waiting, Taken
  <2> QED BY <1>0, <1>1, <1>2, <2>1, <2>2, <2>3, <2>4, SettleStep
<1>3. CASE ~Streamed(i)
  <2>1. UNCHANGED <<attempts, usage>>
    BY <1>3 DEF CallerLeaves
  <2>2. Replaces(i, own, stage[i]) /\ usage' = [usage EXCEPT ![i] = usage[i]]
    BY <1>1, <2>1 DEF Replaces, IInv, TypeOK
  <2>3. AddsNothing(i, own) /\ DispatchesNothing(i, own)
    BY <1>1 DEF AddsNothing, DispatchesNothing
  <2> QED BY <1>0, <1>1, <2>2, <2>3, ShrinkingStep
<1> QED BY <1>2, <1>3

(* The stream shows its usage.                                               *)
LEMMA ObserveUsageStep ==
  ASSUME IInv, NEW i \in Invocations, ObserveUsage(i)
  PROVE  IInv' /\ StopsNothing
<1> PICK report \in Reported(i) : observed' = [observed EXCEPT ![i] = report]
  BY DEF ObserveUsage
<1>0. /\ UNCHANGED <<stage, mode, attempts, usage, aborted, callerStopped, ended, external>>
      /\ ~observed[i].known /\ Streamed(i)
      /\ stage[i] # "idle" /\ (Transported(i) \/ stage[i] = "calling")
  BY DEF ObserveUsage
<1>1. report \in Usage /\ report.known /\ Honest(Transported(i), attempts[i], report)
  BY <1>0, ReportedIsHonest
<1>2. TypeOK'
  BY <1>0, <1>1 DEF IInv, TypeOK
<1>3. observed'[i] = report /\ \A j \in Invocations \ {i} : observed'[j] = observed[j]
  BY DEF IInv, TypeOK
<1>4. InvocationInv(i)'
  <2>1. InvocationInv(i) /\ ~(usage[i].known /\ stage[i] # "over" /\ usage[i] = observed[i])
    BY <1>0 DEF IInv, AttemptsInv
  <2>2. Transported(i)' = Transported(i) /\ Streamed(i)' = Streamed(i)
    BY <1>0 DEF Transported, Streamed
  <2>3. stage[i] # "over"
    BY <1>0 DEF ObserveUsage
  <2>4. ~usage[i].known
    BY <1>0, <2>1, <2>3 DEF InvocationInv
  <2>5. GoodList(attempts[i], stage[i]) /\ Account(Transported(i), attempts[i], usage[i], observed[i])
    BY <1>0, <2>1 DEF InvocationInv
  <2>6. Account(Transported(i), attempts[i], usage[i], report)
    <3> DEFINE through == Transported(i)
               own == attempts[i]
               u == usage[i]
               seen == observed[i]
    <3>1. Account(through, own, u, seen) /\ Honest(through, own, report)
      BY <1>1, <2>5
    <3> HIDE DEF through, own, u, seen
    <3>2. Account(through, own, u, report)
      BY <3>1 DEF Account
    <3> QED BY <3>2 DEF through, own, u
  <2>7. Account(Transported(i)', attempts'[i], usage'[i], observed'[i])
    BY <1>0, <1>3, <2>2, <2>6
  <2>8. stage[i] = "ready" => Transported(i) \/ ~attempts[i][1].dispatched
    BY <2>1 DEF InvocationInv
  <2> QED BY <1>0, <2>2, <2>4, <2>5, <2>7, <2>8 DEF InvocationInv
<1>5. ASSUME NEW j \in Invocations, j # i PROVE InvocationInv(j)'
  <2>1. InvocationInv(j) /\ observed'[j] = observed[j]
    BY <1>3, <1>5 DEF IInv, AttemptsInv
  <2>2. Transported(j)' = Transported(j) /\ Streamed(j)' = Streamed(j)
    BY <1>0 DEF Transported, Streamed
  <2> QED BY <1>0, <2>1, <2>2 DEF InvocationInv
<1>6. AttemptsInv'
  BY <1>4, <1>5 DEF AttemptsInv
<1> QED BY <1>0, <1>2, <1>6, SameAttempts DEF IInv

(* The steps that leave the attempts alone and what is reported of them.     *)
LEMMA FlagSteps ==
  ASSUME IInv,
         \/ UNCHANGED vars
         \/ \E i \in Invocations : RetryRefused(i) \/ CallerAborts(i)
         \/ \E how \in {"cancelled", "destroyed"} : End(how)
         \/ \E e \in Externals : recordExternal(e)
  PROVE  IInv' /\ StopsNothing
<1>0. UNCHANGED <<attempts, stage, mode, observed, usage>>
  BY DEF RetryRefused, CallerAborts, End, recordExternal, vars
<1>1. TypeOK'
  <2>1. CASE UNCHANGED vars
    BY <2>1 DEF vars, IInv, TypeOK
  <2>2. ASSUME NEW i \in Invocations, RetryRefused(i) \/ CallerAborts(i) PROVE TypeOK'
    BY <2>2 DEF RetryRefused, CallerAborts, IInv, TypeOK
  <2>3. ASSUME NEW how \in {"cancelled", "destroyed"}, End(how) PROVE TypeOK'
    BY <2>3 DEF End, IInv, TypeOK
  <2>4. ASSUME NEW e \in Externals, recordExternal(e) PROVE TypeOK'
    <3>1. 1 \in 0..maxTokens /\ maxTokens \in 0..maxTokens
      BY Bounds
    <3> QED BY <2>4, <3>1 DEF recordExternal, IInv, TypeOK
  <2> QED BY <2>1, <2>2, <2>3, <2>4
<1>2. ASSUME NEW j \in Invocations PROVE InvocationInv(j)'
  <2>1. j \in aborted' => j \in aborted \/ stage[j] # "idle"
    BY DEF RetryRefused, CallerAborts, End, recordExternal, vars
  <2>2. InvocationInv(j)
    BY DEF IInv, AttemptsInv
  <2>3. Transported(j)' = Transported(j) /\ Streamed(j)' = Streamed(j)
    BY <1>0 DEF Transported, Streamed
  <2> QED BY <1>0, <2>1, <2>2, <2>3 DEF InvocationInv
<1>3. AttemptsInv'
  BY <1>2 DEF AttemptsInv
<1> QED BY <1>0, <1>1, <1>3, SameAttempts DEF IInv

LEMMA StepIInv == IInv /\ [Next]_vars => IInv' /\ StopsNothing
<1> SUFFICES ASSUME IInv, [Next]_vars PROVE IInv' /\ StopsNothing
  OBVIOUS
<1>1. ASSUME NEW i \in Invocations,
             \/ execute(i) \/ BeginFirst(i) \/ BeginRetry(i) \/ RetryRefused(i) \/ Withdraw(i)
             \/ Answer(i) \/ AttemptFails(i) \/ ObserveUsage(i) \/ OperationEnds(i)
             \/ CallerAborts(i) \/ CallerLeaves(i)
      PROVE  IInv' /\ StopsNothing
  BY <1>1, ExecuteStep, BeginFirstStep, BeginRetryStep, WithdrawStep, AnswerStep,
     ObserveUsageStep, OperationEndsStep, CallerLeavesStep, FlagSteps
<1>2. ASSUME \/ UNCHANGED vars
             \/ \E how \in {"cancelled", "destroyed"} : End(how)
             \/ \E e \in Externals : recordExternal(e)
      PROVE  IInv' /\ StopsNothing
  BY <1>2, FlagSteps
<1> QED BY <1>1, <1>2 DEF Next

THEOREM BudgetInvariant == Spec => []IInv
BY InitIInv, StepIInv, PTL DEF Spec

(* Every variable has its type, for any limits.                              *)
THEOREM TaskTyped == Spec => []TypeOK
BY BudgetInvariant, PTL DEF IInv

LEMMA UsesAreCharged == IInv => ChargesCoverUse
<1> SUFFICES ASSUME IInv PROVE ChargesCoverUse
  OBVIOUS
<1>1. ASSUME NEW i \in Invocations, NEW n \in 1..MaxAttempts, n <= Len(attempts[i])
      PROVE  /\ n \in 1..Len(attempts[i]) /\ attempts[i][n] \in Attempts
             /\ Account(Transported(i), attempts[i], usage[i], observed[i])
  <2>1. n \in 1..Len(attempts[i]) /\ attempts[i][n] \in Attempts
    BY <1>1, AttemptTyped, Bounds DEF IInv
  <2>2. stage[i] # "idle"
    BY <2>1 DEF IInv, AttemptsInv, InvocationInv
  <2> QED BY <2>1, <2>2, OwnList DEF Fitting
<1>2. ASSUME NEW c \in Uses \ LeftOut
      PROVE  \E d \in Charges : d[1][1] = c[1][1] /\ d[2] = c[2]
  <2> PICK i \in Invocations, n \in 1..MaxAttempts, t \in Tokens :
         c = <<<<i, n>>, t>> /\ n <= Len(attempts[i]) /\ t \in attempts[i][n].used
    BY DEF Uses, AttemptIds, Attempt
  <2>1. n \in 1..Len(attempts[i])
        /\ (Holds(attempts[i], t) \/ Omitted(attempts[i], usage[i], n, t))
    BY <1>1 DEF Account
  <2>2. ASSUME Omitted(attempts[i], usage[i], n, t) PROVE FALSE
    <3> PICK m \in 1..Len(attempts[i]) : m # n /\ attempts[i][m].status = "received"
      BY <2>2 DEF Omitted
    <3>1. m \in 1..MaxAttempts /\ m <= Len(attempts[i])
      BY AttemptTyped, Bounds DEF IInv
    <3>2. <<i, m>> \in AttemptIds \ {<<i, n>>} /\ Attempt(<<i, m>>).status = "received"
      BY <3>1 DEF AttemptIds, Attempt
    <3>3. c \in LeftOut
      BY <2>2, <3>2 DEF LeftOut, Omitted, Attempt
    <3> QED BY <3>3
  <2>3. PICK m \in 1..Len(attempts[i]) : t \in attempts[i][m].reserved
    BY <2>1, <2>2 DEF Holds
  <2>4. m \in 1..MaxAttempts /\ m <= Len(attempts[i])
    BY AttemptTyped, Bounds DEF IInv
  <2>5. <<<<i, m>>, t>> \in Charges
    BY <2>3, <2>4 DEF Charges, AttemptIds, Attempt
  <2> QED BY <2>5
<1>3. ASSUME NEW c \in Charges, NEW d \in Charges, c[1][1] = d[1][1], c[2] = d[2]
      PROVE  c = d
  <2> PICK i \in Invocations, n \in 1..MaxAttempts, t \in Tokens :
         c = <<<<i, n>>, t>> /\ n <= Len(attempts[i]) /\ t \in attempts[i][n].reserved
    BY DEF Charges, AttemptIds, Attempt
  <2> PICK m \in 1..MaxAttempts :
         d = <<<<i, m>>, t>> /\ m <= Len(attempts[i]) /\ t \in attempts[i][m].reserved
    BY <1>3 DEF Charges, AttemptIds, Attempt
  <2> QED BY <1>1 DEF Account
<1> QED BY <1>2, <1>3 DEF ChargesCoverUse

(* Every token an attempt uses is charged to its invocation at every moment, *)
(* and none twice, over retries, continuations, failures, callers that leave *)
(* and late or repeated settlements, but for what a settlement leaves out    *)
(* (ModelTask.ts:244-266).                                                   *)
THEOREM UseIsCharged == Spec => []ChargesCoverUse
BY BudgetInvariant, UsesAreCharged, PTL

LEMMA UsesAreFew ==
  ASSUME IInv PROVE Cardinality(Uses \ LeftOut) <= Cardinality(Charged)
<1> DEFINE S == Uses \ LeftOut
           f == [c \in S |-> <<c[1][1], c[2]>>]
<1>1. ASSUME NEW c \in S
      PROVE  \E i \in Invocations, n \in 1..MaxAttempts, t \in Tokens :
               /\ c = <<<<i, n>>, t>> /\ t \in TokensOf(n) /\ Holds(attempts[i], t)
  <2> PICK i \in Invocations, n \in 1..MaxAttempts, t \in Tokens :
         c = <<<<i, n>>, t>> /\ n <= Len(attempts[i]) /\ t \in attempts[i][n].used
    BY DEF Uses, AttemptIds, Attempt
  <2>1. n \in 1..Len(attempts[i]) /\ stage[i] # "idle"
    BY AttemptTyped, Bounds DEF IInv, AttemptsInv, InvocationInv
  <2>2. t \in TokensOf(n)
    BY <2>1, OwnList DEF Sound
  <2>3. PICK d \in Charges : d[1][1] = c[1][1] /\ d[2] = c[2]
    BY UsesAreCharged DEF ChargesCoverUse
  <2> PICK m \in 1..MaxAttempts :
         m <= Len(attempts[i]) /\ t \in attempts[i][m].reserved
    BY <2>3 DEF Charges, AttemptIds, Attempt
  <2>4. m \in 1..Len(attempts[i])
    BY AttemptTyped, Bounds DEF IInv
  <2> QED BY <2>2, <2>4 DEF Holds
<1>2. f \in [S -> Charged]
  <2> SUFFICES ASSUME NEW c \in S PROVE <<c[1][1], c[2]>> \in Charged
    OBVIOUS
  <2> QED BY <1>1 DEF Charged
<1>3. \A c, d \in S : f[c] = f[d] => c = d
  <2> SUFFICES ASSUME NEW c \in S, NEW d \in S, c[1][1] = d[1][1], c[2] = d[2] PROVE c = d
    OBVIOUS
  <2> PICK i \in Invocations, n \in 1..MaxAttempts, t \in Tokens :
         c = <<<<i, n>>, t>> /\ t \in TokensOf(n)
    BY <1>1
  <2> PICK j \in Invocations, m \in 1..MaxAttempts, s \in Tokens :
         d = <<<<j, m>>, s>> /\ s \in TokensOf(m)
    BY <1>1
  <2>1. i = j /\ t = s
    OBVIOUS
  <2>2. n = m
    BY <2>1, TokensOfAttempt
  <2> QED BY <2>1, <2>2
<1> HIDE DEF S, f
<1>4. f \in Injection(S, Charged)
  BY <1>2, <1>3, Fun_IsInj
<1>5. Cardinality(S) <= Cardinality(Charged)
  BY <1>4, FiniteTotals, FS_Injection
<1> QED BY <1>5 DEF S

(* The attempts of a task never use more than its tokens, but for what a     *)
(* settlement leaves out, nor are more of them dispatched than its calls,    *)
(* whatever invocations, retries and reports share them                      *)
(* (ModelTask.ts:163-192).                                                   *)
THEOREM BudgetIsKept == Spec => []WithinBudget
<1>1. ASSUME IInv PROVE WithinBudget
  <2>1. Sent \subseteq Active
    <3> SUFFICES ASSUME NEW id \in AttemptIds, Attempt(id).dispatched
                 PROVE  Attempt(id).status # "not_dispatched"
      BY DEF Sent, Active
    <3> PICK i \in Invocations, n \in 1..MaxAttempts : id = <<i, n>> /\ n <= Len(attempts[i])
      BY DEF AttemptIds
    <3>1. Attempt(id) = attempts[i][n] /\ n \in 1..Len(attempts[i])
      BY <1>1, AttemptTyped, Bounds DEF IInv, Attempt
    <3>2. stage[i] # "idle"
      BY <1>1, <3>1 DEF IInv, AttemptsInv, InvocationInv
    <3> QED BY <1>1, <3>1, <3>2, OwnList DEF Sound
  <2>2. Cardinality(Uses \ LeftOut) <= Cardinality(Charged) /\ Cardinality(Sent) <= Cardinality(Active)
    BY <1>1, <2>1, UsesAreFew, FiniteTotals, FS_Subset
  <2>3. /\ Cardinality(Uses \ LeftOut) \in Nat /\ Cardinality(Charged) \in Nat
        /\ Cardinality(Sent) \in Nat /\ Cardinality(Active) \in Nat
    BY FiniteTotals, FS_CardinalityType
  <2> QED BY <1>1, <2>2, <2>3, Bounds DEF IInv, BudgetInv, WithinBudget
<1> QED BY <1>1, BudgetInvariant, PTL

(* Nothing is dispatched for an invocation that was stopped, neither by a    *)
(* retry nor by a first attempt that was released (ModelTask.ts:221-238).    *)
THEOREM NothingIsSentAfterStop == Spec => NothingAfterStop
<1>1. IInv /\ [Next]_vars => [StopsNothing]_vars
  BY StepIInv
<1> QED BY <1>1, BudgetInvariant, PTL DEF Spec, NothingAfterStop, StopsNothing

(* An invocation that is over holds no reservation for what it did not       *)
(* dispatch (ModelTask.ts:264).                                              *)
THEOREM ReservationsComeBack == Spec => []ReservationsAreReturned
<1>1. ASSUME IInv PROVE ReservationsAreReturned
  <2> SUFFICES ASSUME NEW c \in Charges, stage[c[1][1]] = "over" PROVE c[1] \in Sent
    BY DEF ReservationsAreReturned
  <2> PICK i \in Invocations, n \in 1..MaxAttempts, t \in Tokens :
         c = <<<<i, n>>, t>> /\ n <= Len(attempts[i]) /\ t \in attempts[i][n].reserved
    BY DEF Charges, AttemptIds, Attempt
  <2>1. n \in 1..Len(attempts[i]) /\ stage[i] = "over"
    BY <1>1, AttemptTyped, Bounds DEF IInv
  <2>2. Sound(n, attempts[i][n]) /\ ~Waiting(attempts[i][n])
    BY <1>1, <2>1, OwnList DEF GoodList
  <2>3. attempts[i][n].dispatched
    BY <2>2 DEF Sound, Waiting
  <2> QED BY <2>3 DEF Sent, AttemptIds, Attempt
<1> QED BY <1>1, BudgetInvariant, PTL


-----------------------------------------------------------------------------
(* RateLimiter: the inductive invariant.                                     *)

\* Of the grants in G, those of the window that began at a refill, and those of
\* the stretch of the same length before it.
OfWindow(G, from) == {g \in G : g[2] >= from}
OfStretchBefore(G, from) == {g \in G : g[2] < from /\ from <= g[2] + windowMs}

AtMost(G, n) == IsFiniteSet(G) /\ Cardinality(G) <= n

\* A bucket is granted in a window, and another may have been before it.
Accounts(G, from, left) ==
  /\ AtMost(OfWindow(G, from), maxRequests - left)
  /\ AtMost(OfStretchBefore(G, from), maxRequests)

\* Nothing is granted at the end of a window before its refill.
GrantedInWindow == \A g \in grants : g[2] < lastRefill + windowMs

\* The two buckets of any stretch, not only of those a run looks at.
TwoBuckets == \A t \in Nat : AtMost(GrantedBetween(t, t + windowMs - 1), 2 * maxRequests)

BucketInv == Accounts(grants, lastRefill, tokens) /\ GrantedInWindow /\ TwoBuckets

LimiterInv == LimiterTypeOK /\ NoIdleToken /\ BucketInv

-----------------------------------------------------------------------------
(* Sets of bounded size.                                                     *)

LEMMA AtMostEmpty == ASSUME NEW n \in Nat PROVE AtMost({}, n)
BY FS_EmptySet DEF AtMost

LEMMA AtMostSubset ==
  ASSUME NEW G, NEW H, G \subseteq H, NEW n \in Nat, AtMost(H, n)
  PROVE  AtMost(G, n)
<1>1. IsFiniteSet(G) /\ Cardinality(G) <= Cardinality(H)
  BY FS_Subset DEF AtMost
<1>2. Cardinality(G) \in Nat /\ Cardinality(H) \in Nat
  BY <1>1, FS_CardinalityType DEF AtMost
<1> QED BY <1>1, <1>2 DEF AtMost

LEMMA AtMostMore ==
  ASSUME NEW G, NEW n \in Nat, NEW m \in Nat, AtMost(G, n), n <= m
  PROVE  AtMost(G, m)
BY FS_CardinalityType DEF AtMost

LEMMA AtMostUnion ==
  ASSUME NEW G, NEW H, NEW n \in Nat, NEW m \in Nat, AtMost(G, n), AtMost(H, m)
  PROVE  AtMost(G \cup H, n + m)
<1>1. /\ IsFiniteSet(G \cup H)
      /\ Cardinality(G \cup H) = Cardinality(G) + Cardinality(H) - Cardinality(G \cap H)
  BY FS_Union DEF AtMost
<1>2. IsFiniteSet(G \cap H)
  BY FS_Intersection DEF AtMost
<1>3. /\ Cardinality(G) \in Nat /\ Cardinality(H) \in Nat
      /\ Cardinality(G \cap H) \in Nat /\ Cardinality(G \cup H) \in Nat
  BY <1>1, <1>2, FS_CardinalityType DEF AtMost
<1> QED BY <1>1, <1>3 DEF AtMost

LEMMA AtMostOne == ASSUME NEW g PROVE AtMost({g}, 1)
<1>1. IsFiniteSet({g}) /\ Cardinality({g}) = 1
  BY FS_Singleton
<1> QED BY <1>1 DEF AtMost

\* The waiters a refill serves, each granted at this tick.
LEMMA AtMostServed ==
  ASSUME NEW queue \in Seq(Callers), NEW n \in Nat, n <= Len(queue), NEW t
  PROVE  AtMost({queue[i] : i \in 1..n} \X {t}, n)
<1> DEFINE G == {queue[i] : i \in 1..n} \X {t}
           f == [i \in 1..n |-> <<queue[i], t>>]
<1>1. f \in [1..n -> G]
  OBVIOUS
<1>2. \A g \in G : \E i \in 1..n : f[i] = g
  OBVIOUS
<1> HIDE DEF f, G
<1>3. ExistsSurjection(1..n, G)
  BY <1>1, <1>2, Zenon DEF ExistsSurjection, Surjection
<1>4. IsFiniteSet(G)
  BY <1>3, FS_NatSurjection, Zenon
<1>5. Cardinality(G) <= n
  BY <1>3, FS_SurjCardinalityBound, Zenon
<1> QED BY <1>4, <1>5 DEF AtMost, G

-----------------------------------------------------------------------------
(* What a step grants is counted in its window, and so in every stretch.     *)

\* A stretch that holds this tick lies in the current window and the stretch
\* before it, where every grant of this step is.
LEMMA StretchesAreCounted ==
  ASSUME LimiterInv, LimiterAssumption, NEW D, D \subseteq Callers \X {now},
         NEW from \in Nat, from <= now, now < from + windowMs, NEW left \in 0..maxRequests,
         Accounts(grants \cup D, from, left),
         grants' = grants \cup D
  PROVE  TwoBuckets'
<1> SUFFICES ASSUME NEW t \in Nat
             PROVE  AtMost({g \in grants \cup D : g[2] \in t..(t + windowMs - 1)}, 2 * maxRequests)
  BY DEF TwoBuckets, GrantedBetween
<1> DEFINE S == {g \in grants \cup D : g[2] \in t..(t + windowMs - 1)}
<1>0. /\ now \in Nat /\ windowMs \in Nat \ {0} /\ maxRequests \in Nat
      /\ \A g \in grants : g[2] \in 0..now
      /\ \A g \in D : g[2] = now
  BY DEF LimiterInv, LimiterTypeOK, LimiterAssumption
<1>1. CASE now \in t..(t + windowMs - 1)
  <2>1. S \subseteq OfWindow(grants \cup D, from) \cup OfStretchBefore(grants \cup D, from)
    BY <1>0, <1>1 DEF OfWindow, OfStretchBefore
  <2>2. AtMost(OfWindow(grants \cup D, from), maxRequests)
    <3>1. maxRequests - left \in Nat /\ maxRequests - left <= maxRequests
      BY <1>0
    <3> QED BY <3>1, <1>0, AtMostMore DEF Accounts
  <2>3. AtMost(OfWindow(grants \cup D, from) \cup OfStretchBefore(grants \cup D, from),
               maxRequests + maxRequests)
    BY <2>2, <1>0, AtMostUnion DEF Accounts
  <2>4. AtMost(S, maxRequests + maxRequests)
    <3>1. maxRequests + maxRequests \in Nat
      BY <1>0
    <3> HIDE DEF S
    <3> QED BY <2>1, <2>3, <3>1, AtMostSubset
  <2> QED BY <2>4, <1>0
<1>2. CASE now \notin t..(t + windowMs - 1)
  <2>1. S \subseteq GrantedBetween(t, t + windowMs - 1)
    BY <1>0, <1>2 DEF GrantedBetween
  <2>2. AtMost(GrantedBetween(t, t + windowMs - 1), 2 * maxRequests)
    BY DEF LimiterInv, BucketInv, TwoBuckets
  <2> QED BY <2>1, <2>2, <1>0, AtMostSubset
<1> QED BY <1>1, <1>2

\* One call more, for one token less.
LEMMA OneMoreGrant ==
  ASSUME LimiterAssumption, NEW G, NEW from \in Nat, NEW left \in Nat, left > 0,
         left <= maxRequests, NEW t \in Nat, from <= t, NEW c,
         Accounts(G, from, left)
  PROVE  Accounts(G \cup {<<c, t>>}, from, left - 1)
<1> DEFINE H == G \cup {<<c, t>>}
<1>0. maxRequests - left \in Nat /\ maxRequests \in Nat /\ windowMs \in Nat
      /\ (maxRequests - left) + 1 = maxRequests - (left - 1)
  BY DEF LimiterAssumption
<1>1. OfWindow(H, from) = OfWindow(G, from) \cup {<<c, t>>}
  BY DEF OfWindow
<1>2. AtMost(OfWindow(H, from), maxRequests - (left - 1))
  <2>1. AtMost(OfWindow(G, from), maxRequests - left) /\ AtMost({<<c, t>>}, 1)
    BY AtMostOne DEF Accounts
  <2>2. AtMost(OfWindow(G, from) \cup {<<c, t>>}, (maxRequests - left) + 1)
    BY <2>1, <1>0, AtMostUnion
  <2> HIDE DEF H
  <2> QED BY <2>2, <1>0, <1>1
<1>3. OfStretchBefore(H, from) = OfStretchBefore(G, from)
  BY DEF OfStretchBefore
<1> QED BY <1>2, <1>3 DEF Accounts

LEMMA RefillCounts ==
  ASSUME LimiterInv, LimiterAssumption, NEW queue \in Seq(Callers),
         tokens > 0 => queue = <<>>
  PROVE  LET r == Refill(queue)
         IN /\ r.tokens \in 0..maxRequests
            /\ r.lastRefill \in 0..now /\ now < r.lastRefill + windowMs
            /\ r.queue \in Seq(Callers) /\ Len(r.queue) <= Len(queue)
            /\ r.tokens > 0 => r.queue = <<>>
            /\ r.served \subseteq Callers
            /\ Accounts(grants \cup (r.served \X {now}), r.lastRefill, r.tokens)
<1>0. /\ now \in Nat /\ windowMs \in Nat \ {0} /\ maxRequests \in Nat \ {0}
      /\ tokens \in 0..maxRequests /\ lastRefill \in 0..now
      /\ \A g \in grants : g[2] \in 0..now
      /\ Len(queue) \in Nat
  BY DEF LimiterInv, LimiterTypeOK, LimiterAssumption
<1>1. CASE now - lastRefill >= windowMs
  <2> DEFINE n == IF Len(queue) < maxRequests THEN Len(queue) ELSE maxRequests
             served == {queue[i] : i \in 1..n}
             G == grants \cup (served \X {now})
  <2>1. n \in Nat /\ n <= Len(queue) /\ n <= maxRequests
    BY <1>0
  <2>2. Refill(queue) = [tokens |-> maxRequests - n, lastRefill |-> now,
                         queue |-> SubSeq(queue, n + 1, Len(queue)), served |-> served]
    BY <1>1 DEF Refill
  <2>3. \A i \in 1..Len(queue) : queue[i] \in Callers
    OBVIOUS
  <2>4. served \subseteq Callers
    BY <2>1, <2>3, <1>0
  <2>5. /\ SubSeq(queue, n + 1, Len(queue)) \in Seq(Callers)
        /\ Len(SubSeq(queue, n + 1, Len(queue))) <= Len(queue)
        /\ maxRequests - n > 0 => SubSeq(queue, n + 1, Len(queue)) = <<>>
    BY <2>1, <1>0
  <2>6. AtMost(OfWindow(G, now), maxRequests - (maxRequests - n))
    <3>1. OfWindow(G, now) \subseteq served \X {now}
      <4>1. \A g \in grants : g[2] < lastRefill + windowMs
        BY DEF LimiterInv, BucketInv, GrantedInWindow
      <4> QED BY <1>0, <1>1, <4>1 DEF OfWindow
    <3>2. AtMost(served \X {now}, n)
      BY <2>1, AtMostServed
    <3>3. maxRequests - (maxRequests - n) = n
      BY <2>1, <1>0
    <3> HIDE DEF n, served, G
    <3> QED BY <3>1, <3>2, <3>3, <2>1, AtMostSubset
  <2>7. AtMost(OfStretchBefore(G, now), maxRequests)
    <3>1. OfStretchBefore(G, now) \subseteq OfWindow(grants, lastRefill)
      BY <1>0, <1>1 DEF OfStretchBefore, OfWindow
    <3>2. AtMost(OfWindow(grants, lastRefill), maxRequests)
      <4>1. maxRequests - tokens \in Nat /\ maxRequests - tokens <= maxRequests
        BY <1>0
      <4> QED BY <4>1, <1>0, AtMostMore DEF LimiterInv, BucketInv, Accounts
    <3> HIDE DEF n, served, G
    <3> QED BY <3>1, <3>2, <1>0, AtMostSubset
  <2>8. Accounts(G, now, maxRequests - n)
    BY <2>6, <2>7 DEF Accounts
  <2>9. maxRequests - n \in 0..maxRequests /\ now \in 0..now /\ now < now + windowMs
    BY <2>1, <1>0
  <2> HIDE DEF n, served
  <2> QED BY <2>2, <2>4, <2>5, <2>8, <2>9
<1>2. CASE ~(now - lastRefill >= windowMs)
  <2>1. Refill(queue) = [tokens |-> tokens, lastRefill |-> lastRefill, queue |-> queue,
                         served |-> {}]
    BY <1>2 DEF Refill
  <2>2. now < lastRefill + windowMs
    BY <1>0, <1>2
  <2>3. grants \cup ({} \X {now}) = grants
    OBVIOUS
  <2>4. Accounts(grants \cup ({} \X {now}), lastRefill, tokens)
    BY <2>3 DEF LimiterInv, BucketInv
  <2>5. tokens > 0 => queue = <<>>
    OBVIOUS
  <2>6. Len(queue) <= Len(queue)
    BY <1>0
  <2> QED BY <2>1, <2>2, <2>4, <2>5, <2>6, <1>0
<1> QED BY <1>1, <1>2

-----------------------------------------------------------------------------
(* The steps.                                                                *)

\* The type of a queue, with its bound.
IsQueue(queue) == queue \in Seq(Callers) /\ Len(queue) <= maxQueueSize

LEMMA StaysBelow ==
  ASSUME NEW n \in Nat, NEW m \in 0..n, NEW from \in Nat, NEW w \in Nat, n < from + w
  PROVE  m < from + w
OBVIOUS

\* What a step that grants D at this tick must leave behind.
LEMMA GrantingStep ==
  ASSUME LimiterInv, LimiterAssumption, NEW D, D \subseteq Callers \X {now},
         grants' = grants \cup D, now' = now,
         tokens' \in 0..maxRequests, lastRefill' \in 0..now, now < lastRefill' + windowMs,
         Accounts(grants \cup D, lastRefill', tokens'),
         IsQueue(waitQueue'), tokens' > 0 => waitQueue' = <<>>,
         due' \in [Callers -> 0..(MaxTime + windowMs)],
         outcome' \in [Callers -> {"idle", "waiting", "granted", "refused", "starved", "dropped"}]
  PROVE  LimiterInv'
<1>0. /\ now \in Nat /\ windowMs \in Nat \ {0} /\ lastRefill' \in Nat /\ lastRefill \in Nat
      /\ now \in 0..MaxTime
      /\ grants \subseteq Callers \X (0..now)
  BY DEF LimiterInv, LimiterTypeOK, LimiterAssumption
<1>1. LimiterTypeOK'
  <2>1. grants' \subseteq Callers \X (0..now)
    BY <1>0
  <2> QED BY <2>1, <1>0 DEF LimiterTypeOK, IsQueue
<1>2. NoIdleToken'
  BY DEF NoIdleToken
<1>3. Accounts(grants, lastRefill, tokens)'
  BY DEF Accounts, OfWindow, OfStretchBefore, AtMost
<1>4. GrantedInWindow'
  <2> SUFFICES ASSUME NEW g \in grants' PROVE g[2] < lastRefill' + windowMs
    BY DEF GrantedInWindow
  <2>1. g[2] \in 0..now
    BY <1>0
  <2> QED BY <2>1, <1>0, StaysBelow
<1>5. TwoBuckets'
  <2>1. lastRefill' <= now
    BY <1>0
  <2> QED BY <2>1, <1>0, StretchesAreCounted
<1> QED BY <1>1, <1>2, <1>3, <1>4, <1>5 DEF LimiterInv, BucketInv

\* A call that comes out of a refill of some queue, granted or not.
LEMMA SettlesKeeps ==
  ASSUME LimiterInv, LimiterAssumption, NEW queue \in Seq(Callers), Len(queue) <= maxQueueSize,
         tokens > 0 => queue = <<>>,
         NEW c \in Callers,
         NEW verdict \in {"granted", "refused", "starved", "waiting"}, NEW left,
         Settles(Refill(queue), c, verdict, left),
         verdict = "granted" <=> Refill(queue).tokens > 0,
         IsQueue(left), verdict = "granted" => left = Refill(queue).queue,
         due' \in [Callers -> 0..(MaxTime + windowMs)], now' = now
  PROVE  LimiterInv'
<1> DEFINE r == Refill(queue)
           D == (r.served \X {now}) \cup (IF verdict = "granted" THEN {<<c, now>>} ELSE {})
<1>0. /\ r.tokens \in 0..maxRequests
      /\ r.lastRefill \in 0..now /\ now < r.lastRefill + windowMs
      /\ r.tokens > 0 => r.queue = <<>>
      /\ r.served \subseteq Callers
      /\ Accounts(grants \cup (r.served \X {now}), r.lastRefill, r.tokens)
  BY RefillCounts
<1>1. /\ now \in Nat /\ maxRequests \in Nat /\ windowMs \in Nat
      /\ outcome \in [Callers -> {"idle", "waiting", "granted", "refused", "starved", "dropped"}]
  BY DEF LimiterInv, LimiterTypeOK, LimiterAssumption
<1>2. /\ tokens' = r.tokens - IF verdict = "granted" THEN 1 ELSE 0
      /\ lastRefill' = r.lastRefill
      /\ waitQueue' = left
      /\ outcome' \in [Callers -> {"idle", "waiting", "granted", "refused", "starved", "dropped"}]
  BY <1>1 DEF Settles
<1>3. grants' = grants \cup D
  BY DEF Settles
<1>4. D \subseteq Callers \X {now}
  BY <1>0
<1>5. /\ tokens' \in 0..maxRequests
      /\ tokens' > 0 => waitQueue' = <<>>
      /\ Accounts(grants \cup D, r.lastRefill, tokens')
  <2> HIDE DEF r
  <2>1. CASE verdict = "granted"
    <3>1. tokens' = r.tokens - 1 /\ r.tokens > 0
      BY <1>2, <2>1 DEF r
    <3>2. grants \cup D = (grants \cup (r.served \X {now})) \cup {<<c, now>>}
      BY <2>1
    <3>3. r.lastRefill \in Nat /\ r.lastRefill <= now /\ r.tokens \in Nat /\ r.tokens <= maxRequests
      BY <1>0, <1>1
    <3>4. Accounts((grants \cup (r.served \X {now})) \cup {<<c, now>>}, r.lastRefill, r.tokens - 1)
      BY <1>0, <1>1, <3>1, <3>3, OneMoreGrant
    <3>5. waitQueue' = r.queue
      BY <1>2, <2>1 DEF r
    <3>6. tokens' \in 0..maxRequests
      BY <3>1, <3>3, <1>1
    <3>7. waitQueue' = <<>>
      BY <3>1, <3>5, <1>0
    <3> QED BY <3>1, <3>2, <3>4, <3>6, <3>7
  <2>2. CASE verdict # "granted"
    <3>1. tokens' = r.tokens /\ ~(r.tokens > 0)
      BY <1>0, <1>1, <1>2, <2>2 DEF r
    <3>2. D = r.served \X {now}
      BY <2>2
    <3> HIDE DEF D
    <3> QED BY <3>1, <3>2, <1>0
  <2> QED BY <2>1, <2>2
<1>6. /\ lastRefill' \in 0..now /\ now < lastRefill' + windowMs
      /\ Accounts(grants \cup D, lastRefill', tokens')
      /\ IsQueue(waitQueue')
  BY <1>0, <1>2, <1>5
<1> HIDE DEF D, r
<1> QED BY <1>2, <1>3, <1>4, <1>5, <1>6, GrantingStep

LEMMA acquireKeeps ==
  ASSUME LimiterInv, LimiterAssumption, NEW c \in Callers, acquire(c)
  PROVE  LimiterInv'
<1> DEFINE r == Refill(waitQueue)
<1>0. /\ waitQueue \in Seq(Callers) /\ Len(waitQueue) <= maxQueueSize
      /\ tokens > 0 => waitQueue = <<>>
      /\ due \in [Callers -> 0..(MaxTime + windowMs)]
      /\ now \in Nat /\ maxQueueSize \in Nat /\ windowMs \in Nat /\ MaxTime \in Nat
  BY DEF LimiterInv, LimiterTypeOK, NoIdleToken, LimiterAssumption
<1>1. /\ r.tokens \in 0..maxRequests
      /\ r.lastRefill \in 0..now /\ now < r.lastRefill + windowMs
      /\ r.queue \in Seq(Callers) /\ Len(r.queue) <= Len(waitQueue)
  BY <1>0, RefillCounts
<1>2. now' = now /\ now + windowMs <= MaxTime
  BY DEF acquire
<1>3. IsQueue(r.queue)
  <2> HIDE DEF r
  <2>1. Len(r.queue) \in Nat /\ Len(waitQueue) \in Nat
    BY <1>0, <1>1
  <2> QED BY <1>0, <1>1, <2>1 DEF IsQueue
<1>4. CASE r.tokens > 0 /\ Settles(r, c, "granted", r.queue) /\ UNCHANGED due
  BY <1>0, <1>2, <1>3, <1>4, SettlesKeeps
<1>5. CASE r.tokens = 0 /\ Settles(r, c, "refused", r.queue) /\ UNCHANGED due
  BY <1>0, <1>2, <1>3, <1>5, SettlesKeeps
<1>6. CASE /\ r.tokens = 0 /\ ~(Len(r.queue) >= maxQueueSize)
           /\ Settles(r, c, "waiting", Append(r.queue, c))
           /\ due' = [due EXCEPT ![c] = now + WaitTime(r)]
  <2>1. due' \in [Callers -> 0..(MaxTime + windowMs)]
    <3>1. now + WaitTime(r) \in 0..(MaxTime + windowMs)
      <4> HIDE DEF r
      <4> QED BY <1>0, <1>1, <1>2 DEF WaitTime
    <3> HIDE DEF r
    <3> QED BY <3>1, <1>0, <1>6
  <2>2. IsQueue(Append(r.queue, c))
    <3> HIDE DEF r
    <3>1. Len(r.queue) \in Nat /\ Append(r.queue, c) \in Seq(Callers)
          /\ Len(Append(r.queue, c)) = Len(r.queue) + 1
      BY <1>1
    <3> QED BY <1>0, <1>6, <3>1 DEF IsQueue
  <2>3. /\ Settles(Refill(waitQueue), c, "waiting", Append(r.queue, c))
        /\ ~(Refill(waitQueue).tokens > 0)
    BY <1>6
  <2> HIDE DEF r
  <2> QED BY <1>0, <1>2, <2>1, <2>2, <2>3, SettlesKeeps
<1> QED BY <1>4, <1>5, <1>6 DEF acquire

LEMMA tryAcquireKeeps ==
  ASSUME LimiterInv, LimiterAssumption, NEW c \in Callers, tryAcquire(c)
  PROVE  LimiterInv'
<1> DEFINE r == Refill(waitQueue)
           verdict == IF r.tokens > 0 THEN "granted" ELSE "refused"
<1>0. /\ waitQueue \in Seq(Callers) /\ Len(waitQueue) <= maxQueueSize
      /\ tokens > 0 => waitQueue = <<>>
      /\ due \in [Callers -> 0..(MaxTime + windowMs)]
      /\ maxQueueSize \in Nat
  BY DEF LimiterInv, LimiterTypeOK, NoIdleToken, LimiterAssumption
<1>1. r.queue \in Seq(Callers) /\ Len(r.queue) <= Len(waitQueue)
  BY <1>0, RefillCounts
<1>2. now' = now /\ due' = due /\ Settles(r, c, verdict, r.queue)
  BY DEF tryAcquire
<1>3. IsQueue(r.queue)
  <2> HIDE DEF r
  <2>1. Len(r.queue) \in Nat /\ Len(waitQueue) \in Nat
    BY <1>0, <1>1
  <2> QED BY <1>0, <1>1, <2>1 DEF IsQueue
<1>4. verdict \in {"granted", "refused", "starved", "waiting"} /\ (verdict = "granted" <=> r.tokens > 0)
  OBVIOUS
<1> HIDE DEF verdict
<1> QED BY <1>0, <1>2, <1>3, <1>4, SettlesKeeps

\* A queue that one waiter leaves.
LEMMA WithoutOne ==
  ASSUME NEW queue \in Seq(Callers), NEW i \in 1..Len(queue)
  PROVE  Without(queue, i) \in Seq(Callers) /\ Len(Without(queue, i)) <= Len(queue)
<1> DEFINE a == SubSeq(queue, 1, i - 1)
           b == SubSeq(queue, i + 1, Len(queue))
<1>1. a \in Seq(Callers) /\ Len(a) = i - 1
  OBVIOUS
<1>2. b \in Seq(Callers) /\ Len(b) = Len(queue) - i
  OBVIOUS
<1>3. a \o b \in Seq(Callers) /\ Len(a \o b) = Len(a) + Len(b)
  <2> HIDE DEF a, b
  <2> QED BY <1>1, <1>2
<1>4. Len(a \o b) <= Len(queue)
  <2> HIDE DEF a, b
  <2> QED BY <1>1, <1>2, <1>3
<1> QED BY <1>3, <1>4 DEF Without

LEMMA TimerFiresKeeps ==
  ASSUME LimiterInv, LimiterAssumption, NEW c \in Callers, TimerFires(c)
  PROVE  LimiterInv'
<1>0. /\ waitQueue \in Seq(Callers) /\ Len(waitQueue) <= maxQueueSize
      /\ tokens > 0 => waitQueue = <<>>
      /\ due \in [Callers -> 0..(MaxTime + windowMs)]
      /\ maxQueueSize \in Nat
  BY DEF LimiterInv, LimiterTypeOK, NoIdleToken, LimiterAssumption
<1>1. PICK i \in 1..Len(waitQueue) :
        LET r == Refill(Without(waitQueue, i))
        IN Settles(r, c, IF r.tokens > 0 THEN "granted" ELSE "starved", r.queue)
  BY DEF TimerFires
<1> DEFINE queue == Without(waitQueue, i)
           r == Refill(queue)
           verdict == IF r.tokens > 0 THEN "granted" ELSE "starved"
<1>2. queue \in Seq(Callers) /\ Len(queue) <= Len(waitQueue)
  BY <1>0, WithoutOne
<1>3. ~(tokens > 0)
  BY <1>0
<1> HIDE DEF queue
<1>4. r.queue \in Seq(Callers) /\ Len(r.queue) <= Len(queue)
  BY <1>2, <1>3, RefillCounts
<1>5. IsQueue(r.queue) /\ Len(queue) <= maxQueueSize
  <2> HIDE DEF r
  <2>1. Len(r.queue) \in Nat /\ Len(waitQueue) \in Nat /\ Len(queue) \in Nat
    BY <1>0, <1>2, <1>4
  <2> QED BY <1>0, <1>2, <1>4, <2>1 DEF IsQueue
<1>6. verdict \in {"granted", "refused", "starved", "waiting"} /\ (verdict = "granted" <=> r.tokens > 0)
  OBVIOUS
<1>7. now' = now /\ due' = due
  BY DEF TimerFires
<1>8. Settles(r, c, verdict, r.queue)
  BY <1>1 DEF queue
<1> HIDE DEF verdict
<1> QED BY <1>0, <1>2, <1>3, <1>5, <1>6, <1>7, <1>8, SettlesKeeps

LEMMA InspectKeeps ==
  ASSUME LimiterInv, LimiterAssumption, Inspect
  PROVE  LimiterInv'
<1> DEFINE r == Refill(waitQueue)
           D == r.served \X {now}
<1>0. /\ waitQueue \in Seq(Callers) /\ Len(waitQueue) <= maxQueueSize
      /\ tokens > 0 => waitQueue = <<>>
      /\ due \in [Callers -> 0..(MaxTime + windowMs)]
      /\ outcome \in [Callers -> {"idle", "waiting", "granted", "refused", "starved", "dropped"}]
      /\ maxQueueSize \in Nat
  BY DEF LimiterInv, LimiterTypeOK, NoIdleToken, LimiterAssumption
<1>1. /\ r.tokens \in 0..maxRequests
      /\ r.lastRefill \in 0..now /\ now < r.lastRefill + windowMs
      /\ r.queue \in Seq(Callers) /\ Len(r.queue) <= Len(waitQueue)
      /\ r.tokens > 0 => r.queue = <<>>
      /\ r.served \subseteq Callers
      /\ Accounts(grants \cup D, r.lastRefill, r.tokens)
  BY <1>0, RefillCounts
<1>2. /\ tokens' = r.tokens /\ lastRefill' = r.lastRefill /\ waitQueue' = r.queue
      /\ outcome' = [x \in Callers |-> IF x \in r.served THEN "granted" ELSE outcome[x]]
      /\ grants' = grants \cup D
      /\ now' = now /\ due' = due
  BY DEF Inspect
<1> HIDE DEF r
<1>3. IsQueue(r.queue)
  <2>1. Len(r.queue) \in Nat /\ Len(waitQueue) \in Nat
    BY <1>0, <1>1
  <2> QED BY <1>0, <1>1, <2>1 DEF IsQueue
<1>4. D \subseteq Callers \X {now}
  BY <1>1
<1>5. outcome' \in [Callers -> {"idle", "waiting", "granted", "refused", "starved", "dropped"}]
  BY <1>0, <1>2
<1>6. /\ tokens' \in 0..maxRequests /\ lastRefill' \in 0..now /\ now < lastRefill' + windowMs
      /\ tokens' > 0 => waitQueue' = <<>>
      /\ Accounts(grants \cup D, lastRefill', tokens')
      /\ IsQueue(waitQueue')
      /\ due' \in [Callers -> 0..(MaxTime + windowMs)]
  BY <1>0, <1>1, <1>2, <1>3
<1> HIDE DEF D
<1> QED BY <1>2, <1>4, <1>5, <1>6, GrantingStep

LEMMA AccountsOfNothing ==
  ASSUME LimiterAssumption, NEW from, NEW left \in 0..maxRequests
  PROVE  Accounts({}, from, left)
<1>1. OfWindow({}, from) = {} /\ OfStretchBefore({}, from) = {}
  BY DEF OfWindow, OfStretchBefore
<1>2. maxRequests - left \in Nat /\ maxRequests \in Nat
  BY DEF LimiterAssumption
<1> QED BY <1>1, <1>2, AtMostEmpty DEF Accounts

LEMMA resetKeeps ==
  ASSUME LimiterInv, LimiterAssumption, reset
  PROVE  LimiterInv'
<1>0. /\ grants' = {} /\ waitQueue' = <<>> /\ tokens' = maxRequests /\ lastRefill' = now
      /\ now' = now /\ due' = due
      /\ now \in Nat /\ now \in 0..MaxTime /\ maxRequests \in Nat /\ maxQueueSize \in Nat
      /\ windowMs \in Nat
  BY DEF reset, LimiterInv, LimiterTypeOK, LimiterAssumption
<1>1. LimiterTypeOK'
  <2>1. outcome' \in [Callers -> {"idle", "waiting", "granted", "refused", "starved", "dropped"}]
    BY DEF reset, LimiterInv, LimiterTypeOK
  <2>2. due \in [Callers -> 0..(MaxTime + windowMs)]
    BY DEF LimiterInv, LimiterTypeOK
  <2> QED BY <1>0, <2>1, <2>2 DEF LimiterTypeOK
<1>2. NoIdleToken' /\ GrantedInWindow'
  BY <1>0 DEF NoIdleToken, GrantedInWindow
<1>3. Accounts(grants, lastRefill, tokens)'
  <2>1. Accounts({}, now, maxRequests)
    BY <1>0, AccountsOfNothing
  <2> QED BY <1>0, <2>1 DEF Accounts, OfWindow, OfStretchBefore, AtMost
<1>4. TwoBuckets'
  <2>1. \A t : GrantedBetween(t, t + windowMs - 1)' = {}
    BY <1>0 DEF GrantedBetween
  <2>2. AtMost({}, 2 * maxRequests)
    BY <1>0, AtMostEmpty
  <2> QED BY <2>1, <2>2 DEF TwoBuckets, AtMost
<1> QED BY <1>1, <1>2, <1>3, <1>4 DEF LimiterInv, BucketInv

LEMMA TickKeeps ==
  ASSUME LimiterInv, LimiterAssumption, Tick
  PROVE  LimiterInv'
<1>0. /\ now' = now + 1 /\ now < MaxTime /\ now \in 0..MaxTime /\ MaxTime \in Nat
      /\ UNCHANGED <<tokens, lastRefill, waitQueue, due, outcome, grants>>
  BY DEF Tick, LimiterInv, LimiterTypeOK, LimiterAssumption
<1>1. LimiterTypeOK'
  <2>1. 0..now \subseteq 0..(now + 1) /\ now + 1 \in 0..MaxTime
    BY <1>0
  <2>2. grants \subseteq Callers \X (0..(now + 1)) /\ lastRefill \in 0..(now + 1)
    BY <2>1 DEF LimiterInv, LimiterTypeOK
  <2> QED BY <1>0, <2>1, <2>2 DEF LimiterInv, LimiterTypeOK
<1>2. NoIdleToken' /\ BucketInv'
  BY <1>0 DEF LimiterInv, NoIdleToken, BucketInv, GrantedInWindow, TwoBuckets, GrantedBetween,
              Accounts, OfWindow, OfStretchBefore, AtMost
<1> QED BY <1>1, <1>2 DEF LimiterInv

LEMMA LimiterStutters ==
  ASSUME LimiterInv, UNCHANGED limiterVars
  PROVE  LimiterInv'
BY DEF LimiterInv, LimiterTypeOK, NoIdleToken, BucketInv, GrantedInWindow, TwoBuckets,
       GrantedBetween, Accounts, OfWindow, OfStretchBefore, AtMost, limiterVars

LEMMA LimiterInitInv == LimiterInit /\ LimiterAssumption => LimiterInv
<1> SUFFICES ASSUME LimiterInit, LimiterAssumption PROVE LimiterInv
  OBVIOUS
<1>0. maxRequests \in Nat /\ windowMs \in Nat /\ maxQueueSize \in Nat /\ MaxTime \in Nat
      /\ maxRequests \in 0..maxRequests
  BY DEF LimiterAssumption
<1>1. LimiterTypeOK
  BY <1>0 DEF LimiterInit, LimiterTypeOK
<1>2. NoIdleToken /\ GrantedInWindow
  BY DEF LimiterInit, NoIdleToken, GrantedInWindow
<1>3. Accounts(grants, lastRefill, tokens)
  BY <1>0, AccountsOfNothing DEF LimiterInit
<1>4. TwoBuckets
  <2>1. \A t : GrantedBetween(t, t + windowMs - 1) = {}
    BY DEF LimiterInit, GrantedBetween
  <2>2. AtMost({}, 2 * maxRequests)
    BY <1>0, AtMostEmpty
  <2> QED BY <2>1, <2>2 DEF TwoBuckets
<1> QED BY <1>1, <1>2, <1>3, <1>4 DEF LimiterInv, BucketInv

LEMMA LimiterInvariant == LimiterSpec => []LimiterInv
<1>1. LimiterInit => LimiterInv
  BY LimiterInitInv, LimiterAssumption
<1>2. LimiterInv /\ [LimiterNext]_limiterVars => LimiterInv'
  <2> SUFFICES ASSUME LimiterInv, [LimiterNext]_limiterVars PROVE LimiterInv'
    OBVIOUS
  <2> USE LimiterAssumption
  <2>1. CASE UNCHANGED limiterVars
    BY <2>1, LimiterStutters
  <2>2. CASE Tick
    BY <2>2, TickKeeps
  <2>3. CASE Inspect
    BY <2>3, InspectKeeps
  <2>4. CASE reset
    BY <2>4, resetKeeps
  <2>5. ASSUME NEW c \in Callers, acquire(c) PROVE LimiterInv'
    BY <2>5, acquireKeeps
  <2>6. ASSUME NEW c \in Callers, tryAcquire(c) PROVE LimiterInv'
    BY <2>6, tryAcquireKeeps
  <2>7. ASSUME NEW c \in Callers, TimerFires(c) PROVE LimiterInv'
    BY <2>7, TimerFiresKeeps
  <2> QED BY <2>1, <2>2, <2>3, <2>4, <2>5, <2>6, <2>7 DEF LimiterNext
<1> QED BY <1>1, <1>2, PTL DEF LimiterSpec

\* Every variable of the rate limiter has its type.
THEOREM LimiterTyped == LimiterSpec => []LimiterTypeOK
<1>1. LimiterInv => LimiterTypeOK
  BY DEF LimiterInv
<1> QED BY <1>1, LimiterInvariant, PTL

\* No token lies in the bucket while a caller queues for one: refills serve the
\* queue first and reset() empties it (RateLimiter.ts:193-204, 225-280).
THEOREM TokensAreNotIdle == LimiterSpec => []NoIdleToken
<1>1. LimiterInv => NoIdleToken
  BY DEF LimiterInv
<1> QED BY <1>1, LimiterInvariant, PTL

\* Within any stretch of a window's length at most two buckets are granted
\* (RateLimiter.ts:225-237).
THEOREM TwoBucketsAtMost == LimiterSpec => []AtMostTwoBuckets
<1>1. LimiterInv => AtMostTwoBuckets
  <2> SUFFICES ASSUME LimiterInv, NEW t \in 0..MaxTime
               PROVE  Cardinality(GrantedBetween(t, t + windowMs - 1)) <= 2 * maxRequests
    BY DEF AtMostTwoBuckets
  <2>1. t \in Nat
    BY LimiterAssumption DEF LimiterAssumption
  <2> QED BY <2>1 DEF LimiterInv, BucketInv, TwoBuckets, AtMost
<1> QED BY <1>1, LimiterInvariant, PTL
===============================================================================
