---------------------------- MODULE TimeIterator ----------------------------
(***************************************************************************)
(* cesium's timeIterator (cesium/internal/index/iter_time.go): a          *)
(* core.TimeIterator built from a core.PositionIterator (internal) and an *)
(* index Searcher (idx).  Every call translates timestamps to positions   *)
(* with idx.SearchP, moves the internal iterator, and translates the      *)
(* internal view back to timestamps with idx.SearchTS (updateView).  A     *)
(* failed search is stored in err, which nothing clears.                  *)
(*                                                                         *)
(* Neither collaborator is in this repository.  The index is a strictly   *)
(* increasing sequence of timestamps, one per position; SearchP of a      *)
(* stamp inside it yields the position of the last stamp at or before it *)
(* and fails outside it; SearchTS of an indexed position yields its stamp *)
(* and fails otherwise; with Faults, any search may fail.  The internal   *)
(* iterator is free: a move may fail, or land on any view inside its      *)
(* bounds.                                                                *)
(***************************************************************************)
EXTENDS Integers, Sequences, FiniteSets

CONSTANTS
    Stamps,         \* the index: the timestamp of position p is Stamps[p + 1]
    Times,          \* timestamps a caller passes
    Spans,          \* spans a caller passes to Next and Prev
    Faults          \* TRUE: a search may fail whatever its argument

VARIABLES
    bounds,         \* i.bounds: time range
    view,           \* i.view: time range
    err,            \* i.err # nil
    pbounds,        \* the internal iterator's position bounds
    pview,          \* the internal iterator's position view
    pvalid,         \* the internal iterator's Valid()
    last,           \* the last call and what it returned: [op, ok]
    closed          \* Close has been called

vars == <<bounds, view, err, pbounds, pview, pvalid, last, closed>>

Positions == 0..(Len(Stamps) - 1)
Rng(s, e) == [start |-> s, end |-> e]
\* The ranges, start no later than end, with both ends in set S.
Ordered(S) == {x \in {Rng(s, e) : s, e \in S} : x.start <= x.end}
RangesIn(r) == Ordered(r.start..r.end)
TimeRanges == Ordered(Times)
Fail == [ok |-> FALSE, val |-> 0]
Moves == {"SeekLE", "SeekGE", "SeekFirst", "SeekLast", "Next", "Prev"}

----------------------------------------------------------------------------
(* idx.SearchP(stamp, guess).Value(): the guess only narrows the search.  *)
SearchP(t) ==
    (IF Stamps[1] <= t /\ t <= Stamps[Len(Stamps)]
     THEN {[ok |-> TRUE, val |-> CHOOSE p \in Positions :
                Stamps[p + 1] <= t /\ \A q \in Positions : Stamps[q + 1] <= t => q <= p]}
     ELSE {Fail})
    \cup (IF Faults THEN {Fail} ELSE {})

\* idx.SearchTS(pos, guess).Value().
SearchTS(p) ==
    (IF p \in Positions THEN {[ok |-> TRUE, val |-> Stamps[p + 1]]} ELSE {Fail})
    \cup (IF Faults THEN {Fail} ELSE {})

\* The time range the index gives a position range.
ImageOf(pv) == Rng(Stamps[pv.start + 1], Stamps[pv.end + 1])

(* updateView on internal view pv: search its start, then its end; on a   *)
(* failure return false with view unchanged and the error stored.         *)
UpdateView(pv) ==
    {[ok |-> FALSE, view |-> view, failed |-> TRUE] :
        r \in {r1 \in SearchTS(pv.start) : ~r1.ok}}
    \cup
    {IF r2.ok THEN [ok |-> TRUE, view |-> Rng(r1.val, r2.val), failed |-> FALSE]
     ELSE [ok |-> FALSE, view |-> view, failed |-> TRUE] :
        r1 \in {r \in SearchTS(pv.start) : r.ok}, r2 \in SearchTS(pv.end)}

\* A move of the internal iterator: it fails, or lands inside its bounds.
InternalMoves ==
    {[ok |-> FALSE, view |-> pview]} \cup {[ok |-> TRUE, view |-> v] : v \in RangesIn(pbounds)}

\* The step ends: op returned ok, err gains a failure if failed.
Ret(op, ok, failed) ==
    /\ last' = [op |-> op, ok |-> ok]
    /\ err' = (err \/ failed)
    /\ UNCHANGED closed

\* A call returns false at a failed search, changing nothing else.
SearchFailed(op) ==
    /\ Ret(op, FALSE, TRUE)
    /\ UNCHANGED <<bounds, view, pbounds, pview, pvalid>>

\* The internal iterator moves as mv, then updateView runs on its view.
MoveThenUpdate(op, mv) ==
    /\ pview' = mv.view
    /\ pvalid' = mv.ok
    /\ IF ~mv.ok
       THEN Ret(op, FALSE, FALSE) /\ UNCHANGED view
       ELSE \E u \in UpdateView(mv.view) :
              /\ view' = u.view
              /\ Ret(op, u.ok, u.failed)
    /\ UNCHANGED <<bounds, pbounds>>

----------------------------------------------------------------------------
Init ==
    /\ bounds = Rng(0, 0)
    /\ view = Rng(0, 0)
    /\ err = FALSE
    /\ pbounds \in RangesIn(Rng(0, Len(Stamps) - 1))
    /\ pview \in RangesIn(pbounds)
    /\ pvalid = FALSE
    /\ last = [op |-> "none", ok |-> FALSE]
    /\ closed = FALSE

\* Mutant: the positions of start and end are swapped.
SetBoundsSwapped(b) ==
    \E r1 \in SearchP(b.start), r2 \in SearchP(b.end) :
        IF ~r1.ok \/ ~r2.ok THEN SearchFailed("SetBounds")
        ELSE /\ pbounds' = Rng(r2.val, r1.val)
             /\ bounds' = b
             /\ Ret("SetBounds", TRUE, FALSE)
             /\ UNCHANGED <<view, pview, pvalid>>

\* Mutant: the internal bounds are set as soon as the start is found.
SetBoundsEarly(b) ==
    \E r1 \in SearchP(b.start) :
        IF ~r1.ok THEN SearchFailed("SetBounds")
        ELSE \E r2 \in SearchP(b.end) :
               IF ~r2.ok
               THEN /\ pbounds' = Rng(r1.val, pbounds.end)
                    /\ Ret("SetBounds", FALSE, TRUE)
                    /\ UNCHANGED <<bounds, view, pview, pvalid>>
               ELSE /\ pbounds' = Rng(r1.val, r2.val)
                    /\ bounds' = b
                    /\ Ret("SetBounds", TRUE, FALSE)
                    /\ UNCHANGED <<view, pview, pvalid>>

(* SetBounds: search both ends (with an uncertain guess); only when both  *)
(* are found are the internal bounds and i.bounds replaced.               *)
SetBounds(b) ==
    \E r1 \in SearchP(b.start) :
        IF ~r1.ok THEN SearchFailed("SetBounds")
        ELSE \E r2 \in SearchP(b.end) :
               IF ~r2.ok THEN SearchFailed("SetBounds")
               ELSE /\ pbounds' = Rng(r1.val, r2.val)
                    /\ bounds' = b
                    /\ Ret("SetBounds", TRUE, FALSE)
                    /\ UNCHANGED <<view, pview, pvalid>>

(* SeekLE: search the stamp within the internal bounds, call updateView   *)
(* (on the internal view as it is before the seek) and ignore its result, *)
(* then return internal.SeekLE(pos.Start).                                *)
SeekLE(t) ==
    \E r \in SearchP(t) :
        IF ~r.ok THEN SearchFailed("SeekLE")
        ELSE \E u \in UpdateView(pview), mv \in InternalMoves :
               /\ view' = u.view
               /\ pview' = mv.view
               /\ pvalid' = mv.ok
               /\ Ret("SeekLE", mv.ok, u.failed)
               /\ UNCHANGED <<bounds, pbounds>>

\* Mutant: SeekGE returns the internal result and leaves the view alone.
SeekGEIgnoresView(t) ==
    \E r \in SearchP(t) :
        IF ~r.ok THEN SearchFailed("SeekGE")
        ELSE \E mv \in InternalMoves :
               /\ pview' = mv.view
               /\ pvalid' = mv.ok
               /\ Ret("SeekGE", mv.ok, FALSE)
               /\ UNCHANGED <<bounds, pbounds, view>>

(* SeekGE: search the stamp, internal.SeekLE(pos.End), then updateView.   *)
SeekGE(t) ==
    \E r \in SearchP(t) :
        IF ~r.ok THEN SearchFailed("SeekGE")
        ELSE \E mv \in InternalMoves : MoveThenUpdate("SeekGE", mv)

\* SeekFirst and SeekLast: move the internal iterator, then updateView.
SeekEnd(op) ==
    \E mv \in InternalMoves : MoveThenUpdate(op, mv)

(* seekSpan: the positions of view.Start and view.Start + span, in order; *)
(* the first failed search ends it.  Its value is the position span.      *)
SeekSpan(span) ==
    {IF rs.ok /\ re.ok THEN [ok |-> TRUE, val |-> re.val - rs.val] ELSE Fail :
        rs \in SearchP(view.start), re \in SearchP(view.start + span)}

(* Next and Prev: seekSpan, then the internal iterator moves by the       *)
(* position span, then updateView.                                        *)
Step(op, span) ==
    \E s \in SeekSpan(span) :
        IF ~s.ok THEN SearchFailed(op)
        ELSE \E mv \in InternalMoves : MoveThenUpdate(op, mv)

\* Close releases the index and closes the internal iterator.
Close ==
    /\ closed' = TRUE
    /\ UNCHANGED <<bounds, view, err, pbounds, pview, pvalid, last>>

Next ==
    /\ ~closed
    /\ \/ \E b \in TimeRanges : SetBounds(b)
       \/ \E t \in Times : SeekLE(t) \/ SeekGE(t)
       \/ \E op \in {"SeekFirst", "SeekLast"} : SeekEnd(op)
       \/ \E op \in {"Next", "Prev"}, span \in Spans : Step(op, span)
       \/ Close

Spec == Init /\ [][Next]_vars

----------------------------------------------------------------------------
\* Valid(): no search has failed and the internal iterator is valid.
Valid == ~err /\ pvalid

TypeOK ==
    /\ pbounds \in RangesIn(Rng(0, Len(Stamps) - 1))
    /\ pview \in RangesIn(Rng(0, Len(Stamps) - 1))
    /\ bounds \in TimeRanges \cup {Rng(0, 0)}
    /\ err \in BOOLEAN /\ pvalid \in BOOLEAN /\ closed \in BOOLEAN

(* SetBounds is all or nothing: when a search fails it returns false and  *)
(* leaves both Bounds() and the internal bounds as they were; when it     *)
(* returns true the internal bounds are the positions of the new bounds.  *)
SetBoundsAllOrNothing ==
    [][last'.op = "SetBounds" =>
         IF last'.ok THEN pbounds' = Rng(CHOOSE p \in Positions : [ok |-> TRUE, val |-> p] \in SearchP(bounds'.start),
                                         CHOOSE p \in Positions : [ok |-> TRUE, val |-> p] \in SearchP(bounds'.end))
         ELSE UNCHANGED <<bounds, pbounds>>]_vars

(* A move that reports success leaves View() at the time range of the     *)
(* position the internal iterator now views.                              *)
MovesRefreshView ==
    (last.ok /\ last.op \in Moves \ {"SeekLE"}) => view = ImageOf(pview)

(* The same of SeekLE. *)
SeekLERefreshesView ==
    (last.ok /\ last.op = "SeekLE") => view = ImageOf(pview)

=============================================================================
