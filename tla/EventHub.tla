------------------------------- MODULE EventHub -------------------------------
(***************************************************************************)
(* AsyncEventHub.ts: the event stream of one run.  Events are numbered and *)
(* kept in a journal of bounded size, which drops incremental events first *)
(* and says so in a diagnostic event; every subscriber gets a snapshot of  *)
(* the journal and then what its own bounded queue receives.               *)
(*                                                                         *)
(* An event is its sequence number and its kind; every event has size one. *)
(***************************************************************************)
EXTENDS Integers, Sequences, FiniteSets, Functions

CONSTANTS
  Subscribers,    \* iterators over the hub's events
  MaxJournal,     \* maxJournalBytes, in events
  MaxQueue,       \* maxSubscriberBytes, in events
  MaxSequence,    \* the end of the sequence range reserved for this hub
  MaxPublished    \* bound: events a run publishes

ASSUME HubAssumption ==
  /\ MaxJournal \in Nat \ {0}
  /\ MaxQueue \in Nat \ {0}
  /\ MaxSequence \in Nat
  /\ MaxPublished \in Nat

VARIABLES
  sequence,     \* the last number given to an event
  journal,      \* the events retained
  diagnostics,  \* numbers of the truncation diagnostics, all of them (history)
  published,    \* history: events published
  completed,
  expired,
  subscriber    \* the iterators: their position, snapshot, queue and past

hub == <<sequence, journal, diagnostics, published, completed, expired>>
hubVars == <<hub, subscriber>>

Kinds == {"delta", "essential", "diagnostic"}
Event(n, kind) == [sequence |-> n, kind |-> kind]

\* An iterator that was not asked for its first event.
Fresh == [status |-> "new", after |-> 0, snapshot |-> <<>>, queue |-> <<>>,
          overflow |-> FALSE, got |-> <<>>]

HubInit ==
  /\ sequence = 0
  /\ journal = <<>>
  /\ diagnostics = {}
  /\ published = 0
  /\ completed = FALSE
  /\ expired = FALSE
  /\ subscriber = [s \in Subscribers |-> Fresh]

-----------------------------------------------------------------------------
(* Sequences as the code filters and splices them: by positions.             *)

\* How many of the positions P come up to i.
Rank(P, i) == Cardinality({m \in P : m <= i})

FirstOf(P, n) == {i \in P : Rank(P, i) <= n}

\* The elements of j at the positions P, in their order.
At(j, P) == [k \in 1..Cardinality(P) |-> j[CHOOSE i \in P : Rank(P, i) = k]]

-----------------------------------------------------------------------------
(* publish() and the compaction behind it work on a value: the last number,  *)
(* the journal, the diagnostics made so far and the subscribers.             *)

Current == [last |-> sequence, journal |-> journal, diagnostics |-> diagnostics,
            subscriber |-> subscriber]

Listens(q) == q.status \in {"replaying", "reading", "waiting"}

\* Variant: an event that does not fit is left out of the queue.
PushDropping(q, event) ==
  IF Len(q.queue) + 1 > MaxQueue
  THEN q
  ELSE [q EXCEPT !.queue = Append(@, event), !.status = IF @ = "waiting" THEN "reading" ELSE @]

\* pushToSubscribers() for one subscriber: a full queue fails.
Push(q, event) ==
  IF q.overflow THEN q
  ELSE IF Len(q.queue) + 1 > MaxQueue
  THEN [q EXCEPT !.overflow = TRUE, !.status = IF @ = "waiting" THEN "reading" ELSE @]
  ELSE [q EXCEPT !.queue = Append(@, event), !.status = IF @ = "waiting" THEN "reading" ELSE @]

\* An event gets the next number, and is kept and pushed to who listens.
Emit(c, kind) ==
  LET event == Event(c.last + 1, kind)
  IN [last |-> event.sequence,
      journal |-> Append(c.journal, event),
      diagnostics |-> c.diagnostics \cup IF kind = "diagnostic" THEN {event.sequence} ELSE {},
      subscriber |-> [s \in Subscribers |->
        IF Listens(c.subscriber[s]) THEN Push(c.subscriber[s], event) ELSE c.subscriber[s]]]

OfKind(j, kinds) == {i \in DOMAIN j : j[i].kind \in kinds}

\* The positions trimToBudget() drops while the journal is too long: the first
\* incremental events, then the first of the others, never the diagnostic.
Dropped(j) ==
  LET excess == Len(j) - MaxJournal
      deltas == OfKind(j, {"delta"})
  IN FirstOf(deltas, excess)
       \cup FirstOf(OfKind(j, {"essential"}), excess - Cardinality(deltas))

Trim(j) == At(j, DOMAIN j \ Dropped(j))

\* Variant: the diagnostic is not given a number of its own.
ReplaceUnnumbered(c) ==
  Emit([c EXCEPT !.journal = At(@, OfKind(@, {"delta", "essential"})), !.last = @ - 1],
       "diagnostic")

\* The old diagnostic leaves the journal, a new one is made.
ReplaceDiagnostic(c) ==
  Emit([c EXCEPT !.journal = At(@, OfKind(@, {"delta", "essential"}))], "diagnostic")

\* A round of compactJournal().
Round(c) ==
  IF Dropped(c.journal) = {} THEN c
  ELSE ReplaceDiagnostic([c EXCEPT !.journal = Trim(@)])

\* compactJournal().  Only the first diagnostic makes the journal longer, so
\* with events of one size its loop has nothing to do in a third round.
Compact(c) == Round(Round(c))

-----------------------------------------------------------------------------
(* publish(), complete(), expire().                                          *)

Listening(s) == Listens(subscriber[s])

Publish(kind) ==
  /\ ~completed
  /\ sequence < MaxSequence
  /\ published < MaxPublished
  /\ LET c == Compact(Emit(Current, kind))
     IN /\ sequence' = c.last
        /\ journal' = c.journal
        /\ diagnostics' = c.diagnostics
        /\ subscriber' = c.subscriber
  /\ published' = published + 1
  /\ UNCHANGED <<completed, expired>>

\* Variant: complete() wakes nobody.
CompleteQuietly ==
  /\ ~completed
  /\ completed' = TRUE
  /\ UNCHANGED <<sequence, journal, diagnostics, published, expired, subscriber>>

Woken(q) == [q EXCEPT !.status = IF @ = "waiting" THEN "reading" ELSE @]

Complete ==
  /\ ~completed
  /\ completed' = TRUE
  /\ subscriber' = [s \in Subscribers |-> Woken(subscriber[s])]
  /\ UNCHANGED <<sequence, journal, diagnostics, published, expired>>

\* The session makes room for newer journals, or is destroyed.
Expire ==
  /\ completed /\ ~expired
  /\ expired' = TRUE
  /\ journal' = <<>>
  /\ UNCHANGED <<sequence, diagnostics, published, completed, subscriber>>

-----------------------------------------------------------------------------
(* subscribe(): the iterator's first step takes a snapshot, then it yields.  *)

\* after = 0 stands for no afterSequence, which is never too old.
Subscribe(s, after) ==
  /\ subscriber[s].status = "new"
  /\ after <= sequence
  /\ LET tooOld == after > 0 /\ journal # <<>> /\ after + 1 < journal[1].sequence
         snapshot == At(journal, {i \in DOMAIN journal : journal[i].sequence > after})
     IN subscriber' = [subscriber EXCEPT ![s] =
          IF expired \/ tooOld
          THEN [Fresh EXCEPT !.status = "expired"]
          ELSE [Fresh EXCEPT !.status = "replaying", !.after = after, !.snapshot = snapshot]]
  /\ UNCHANGED hub

Yield(s, event, rest) ==
  subscriber' = [subscriber EXCEPT ![s] = [rest EXCEPT !.got = Append(@, event.sequence)]]

Replay(s) ==
  /\ subscriber[s].status = "replaying"
  /\ LET q == subscriber[s]
     IN IF q.snapshot = <<>>
        THEN subscriber' = [subscriber EXCEPT ![s].status = "reading"]
        ELSE Yield(s, Head(q.snapshot), [q EXCEPT !.snapshot = Tail(@)])
  /\ UNCHANGED hub

\* The queue first, then its error, then the end of the run; otherwise it waits.
Read(s) ==
  /\ subscriber[s].status = "reading"
  /\ LET q == subscriber[s]
     IN IF q.queue # <<>>
        THEN Yield(s, Head(q.queue), [q EXCEPT !.queue = Tail(@)])
        ELSE subscriber' = [subscriber EXCEPT ![s].status =
               IF q.overflow THEN "overflown"
               ELSE IF completed THEN "done" ELSE "waiting"]
  /\ UNCHANGED hub

\* The consumer leaves its loop.
Leave(s) ==
  /\ subscriber[s].status \in {"replaying", "reading", "waiting"}
  /\ subscriber' = [subscriber EXCEPT ![s].status = "left"]
  /\ UNCHANGED hub

Consume(s) == Replay(s) \/ Read(s)

HubNext ==
  \/ \E kind \in {"delta", "essential"} : Publish(kind)
  \/ Complete \/ Expire
  \/ \E s \in Subscribers :
       \/ \E after \in 0..sequence : Subscribe(s, after)
       \/ Consume(s) \/ Leave(s)

HubSpec == HubInit /\ [][HubNext]_hubVars

\* A consumer that does not leave keeps asking for the next event.
HubFairSpec == HubSpec /\ \A s \in Subscribers : WF_hubVars(Consume(s))

-----------------------------------------------------------------------------
Events == [sequence : Nat, kind : Kinds]

Iterators ==
  [status : {"new", "expired", "replaying", "reading", "waiting", "overflown", "done", "left"},
   after : Nat, snapshot : Seq(Events), queue : Seq(Events), overflow : BOOLEAN, got : Seq(Nat)]

(* Every variable has its type. *)
HubTypeOK ==
  /\ sequence \in Nat
  /\ journal \in Seq(Events)
  /\ diagnostics \subseteq 1..sequence
  /\ published \in 0..MaxPublished
  /\ completed \in BOOLEAN /\ expired \in BOOLEAN
  /\ subscriber \in [Subscribers -> Iterators]

Numbers(events) == [i \in DOMAIN events |-> events[i].sequence]

\* What a subscriber was given and still will be, unless its queue overflows.
Coming(q) == q.got \o Numbers(q.snapshot) \o Numbers(q.queue)

InView(s) == Range(Coming(subscriber[s]))

(* After every compaction the journal is within its budget, the diagnostic   *)
(* included, and no queue is longer than its own (AsyncEventHub.ts:138, 149).*)
WithinBudgets ==
  /\ Len(journal) <= MaxJournal
  /\ \A s \in Subscribers : Len(subscriber[s].queue) <= MaxQueue

(* An event a subscriber does not get is announced to it: by a truncation    *)
(* diagnostic numbered after the event, or by an error; none is lost in      *)
(* silence between snapshot and queue (AsyncEventHub.ts:84-93, 180-203).     *)
NoSilentLoss ==
  \A s \in Subscribers :
    (Listening(s) /\ ~subscriber[s].overflow) =>
      \A n \in (subscriber[s].after + 1)..sequence :
        n \notin InView(s) => \E d \in diagnostics \cap InView(s) : d > n

(* A subscriber gets events in the order of their numbers, none of them      *)
(* twice, although the snapshot and the queue come from different places.    *)
InOrder ==
  \A s \in Subscribers :
    LET coming == Coming(subscriber[s])
    IN \A i, k \in DOMAIN coming : i < k => coming[i] < coming[k]

(* A consumer never waits for a run that is over.                            *)
EndIsSeen ==
  \A s \in Subscribers :
    (Listening(s) /\ completed) ~> subscriber[s].status \in {"done", "overflown", "left"}
=============================================================================
