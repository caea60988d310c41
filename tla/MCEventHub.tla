------------------------------ MODULE MCEventHub ------------------------------
(***************************************************************************)
(* EventHub for TLC, with the loops of the journal's compaction as the     *)
(* code has them.                                                          *)
(***************************************************************************)
EXTENDS EventHub, SequencesExt

\* What one turn of trimToBudget() may drop: incremental events before others,
\* and never the diagnostic.
Droppable(j) ==
  IF OfKind(j, {"delta"}) # {} THEN OfKind(j, {"delta"}) ELSE OfKind(j, {"essential"})

First(positions) == CHOOSE i \in positions : \A k \in positions : i <= k

RECURSIVE TrimToBudget(_)
TrimToBudget(j) ==
  IF Len(j) <= MaxJournal \/ Droppable(j) = {} THEN j
  ELSE TrimToBudget(RemoveAt(j, First(Droppable(j))))

RECURSIVE CompactJournal(_)
CompactJournal(c) ==
  LET trimmed == TrimToBudget(c.journal)
  IN IF Len(trimmed) = Len(c.journal) THEN c
     ELSE CompactJournal(ReplaceDiagnostic([c EXCEPT !.journal = trimmed]))

-----------------------------------------------------------------------------
(* The values compaction may be asked for: a journal of any events, one too  *)
(* many at most and one diagnostic at most, beside iterators of any status.  *)
Journals ==
  {j \in UNION {[1..n -> Kinds] : n \in 0..(MaxJournal + 1)} :
     Cardinality({i \in DOMAIN j : j[i] = "diagnostic"}) <= 1}

Journal(kinds) == [i \in DOMAIN kinds |-> Event(i, kinds[i])]

IteratorsBeside(event) ==
  {[Fresh EXCEPT !.status = status, !.queue = [i \in 1..n |-> event], !.overflow = failed] :
     status \in {"new", "replaying", "reading", "waiting", "done", "left"},
     n \in 0..MaxQueue, failed \in BOOLEAN}

\* A journal at the positions of some kinds is the journal filtered.
ASSUME AtIsTheFilter ==
  \A kinds \in Journals, some \in SUBSET Kinds :
    At(Journal(kinds), OfKind(Journal(kinds), some))
      = SelectSeq(Journal(kinds), LAMBDA e : e.kind \in some)

\* What compaction leaves is what the loops of compactJournal() and trimToBudget()
\* leave, turn by turn (AsyncEventHub.ts:149-178).
ASSUME CompactIsTheLoop ==
  \A kinds \in Journals : \A iterator \in IteratorsBeside(Event(1, "essential")) :
    LET c == [last |-> Len(kinds),
              journal |-> Journal(kinds),
              diagnostics |-> {},
              subscriber |-> [s \in Subscribers |-> iterator]]
    IN Compact(c) = CompactJournal(c)
=============================================================================
