------------------------- MODULE HungarianDeadPixels -------------------------
(***************************************************************************)
(* The choice of a replacement for every dead pixel                        *)
(* (hungariandeadpixels.cpp): a minimum cost matching of dead pixels       *)
(* ("jobs") with the uses of live pixels ("workers"; a live pixel may be   *)
(* used twice), found with the Hungarian method over a growing             *)
(* neighbourhood instead of the whole cost matrix.                         *)
(*                                                                         *)
(* A worker is named by its point: pixel p is the first use of p, p +      *)
(* NumPixels the second.  The code numbers the workers in the same order,  *)
(* and only the order of the numbers matters.  A job is its dead pixel.    *)
(***************************************************************************)
EXTENDS Integers, FiniteSets, FiniteSetsExt

CONSTANTS Rows, Columns

ASSUME GridAssumption == Rows \in Nat \ {0, 1} /\ Columns \in Nat \ {0, 1}

NumPixels == Rows * Columns
Pixel == 0 .. NumPixels - 1
Point == 0 .. 2 * NumPixels - 1

Imaginary == 2 * NumPixels   \* the worker beyond the last
Nobody == -1

BaseCost == 10
PreviousImagePenalty == 20
ReuseDemotivation == 1

RowOf(point) == (point % NumPixels) \div Columns
ColumnOf(point) == (point % NumPixels) % Columns

CostLambda(job, point) ==
    LET rowDifference == RowOf(point) - RowOf(job)
        columnDifference == ColumnOf(point) - ColumnOf(job)
        later == rowDifference > 0 \/ (rowDifference = 0 /\ columnDifference > 0)
    IN  BaseCost * (rowDifference * rowDifference + columnDifference * columnDifference)
          + (IF later THEN PreviousImagePenalty ELSE 0)
          + (IF point >= NumPixels THEN ReuseDemotivation ELSE 0)

\* Both uses of a pixel and of the pixels around it.
PointNeighborhood(point) ==
    {q \in Point : /\ RowOf(q) - RowOf(point) \in -1 .. 1
                   /\ ColumnOf(q) - ColumnOf(point) \in -1 .. 1}

-----------------------------------------------------------------------------
(* The state of the search is a record: the matching and the potentials,   *)
(* which live through all jobs, and what is set up for each job anew: the  *)
(* tree Z of the alternating paths, the perimeter of the search, the best  *)
(* candidate edge of every worker seen and the way back.                   *)

ReducedCost(h, job, worker) ==
    CostLambda(job, worker) - h.jobPotential[job] - h.workerPotential[worker]

\* What the deltas added so far would have taken off the entries of the two heaps.
Adjustment(h) == -h.workerPotential[Imaginary]

UpdateSearchPerimeter(h, job, point) ==
    IF <<job, point>> \in h.visits
    THEN h
    ELSE [h EXCEPT !.visits = @ \cup {<<job, point>>},
                   !.perimeter = @ \cup
                        {[bound |-> CostLambda(job, point) - h.jobPotential[job] + Adjustment(h),
                          job |-> job, point |-> point]}]

\* Fault: a candidate is not improved by a later job of the tree.
OfferFirstCandidate(h, job, worker) ==
    IF worker \in h.inZ \/ worker \in DOMAIN h.candidates
    THEN h
    ELSE [h EXCEPT !.candidates =
                        [w \in DOMAIN @ \cup {worker} |->
                            IF w = worker
                            THEN [delta |-> ReducedCost(h, job, worker) + Adjustment(h), job |-> job]
                            ELSE @[w]],
                   !.previous[worker] = h.workerOf[job]]

\* A worker met on the way becomes a candidate, or a better one than it was.
OfferCandidate(h, job, worker) ==
    LET adjusted == ReducedCost(h, job, worker) + Adjustment(h)
    IN  IF worker \in h.inZ \/ (worker \in DOMAIN h.candidates
                                    /\ adjusted >= h.candidates[worker].delta)
        THEN h
        ELSE [h EXCEPT !.candidates =
                            [w \in DOMAIN @ \cup {worker} |->
                                IF w = worker THEN [delta |-> adjusted, job |-> job] ELSE @[w]],
                       !.previous[worker] = h.workerOf[job]]

NeighborhoodHeapsAdder(h, live, top) ==
    FoldSet(LAMBDA q, g : LET seen == UpdateSearchPerimeter(g, top.job, q)
                          IN  IF q % NumPixels \in live
                              THEN OfferCandidate(seen, top.job, q)
                              ELSE seen,
            h, PointNeighborhood(top.point))

\* The first candidate of the heap: the smallest delta, then the smallest worker.
FirstCandidate(h) ==
    CHOOSE w \in DOMAIN h.candidates :
        \A v \in DOMAIN h.candidates \ {w} :
            \/ h.candidates[w].delta < h.candidates[v].delta
            \/ h.candidates[w].delta = h.candidates[v].delta /\ w < v

\* The perimeter may still hold an edge as good as the best candidate.
MustSearchOn(h, nearest) ==
    \/ DOMAIN h.candidates = {}
    \/ h.candidates[FirstCandidate(h)].delta >= nearest.bound

Nearest(perimeter) == CHOOSE e \in perimeter : \A f \in perimeter : e.bound <= f.bound

\* The entry is still in the heap while its neighbourhood is added: what is popped then is
\* the top of the heap, another entry if one of the new ones is nearer.
PopTop(perimeter, entry) ==
    LET nearer == {e \in perimeter : e.bound < entry.bound}
    IN  perimeter \ {IF nearer = {} THEN entry ELSE Nearest(nearer)}

RECURSIVE SearchNeighborhoods(_, _)
SearchNeighborhoods(h, live) ==
    IF h.perimeter = {}
    THEN h
    ELSE LET nearest == Nearest(h.perimeter)
         IN  IF MustSearchOn(h, nearest)
             THEN LET added == NeighborhoodHeapsAdder(h, live, nearest)
                  IN  SearchNeighborhoods([added EXCEPT !.perimeter = PopTop(@, nearest)], live)
             ELSE h

DeltaAdjustZSet(h, delta) ==
    LET zJobs == {h.jobOf[w] : w \in h.inZ}
    IN  [h EXCEPT !.jobPotential = [j \in DOMAIN @ |-> IF j \in zJobs THEN @[j] + delta ELSE @[j]],
                  !.workerPotential = [w \in DOMAIN @ |-> IF w \in h.inZ THEN @[w] - delta ELSE @[w]]]

\* Z grows by one worker at a time until it holds a free one.
RECURSIVE GrowZ(_, _, _)
GrowZ(h, live, current) ==
    IF h.jobOf[current] = Nobody
    THEN [h EXCEPT !.end = current]
    ELSE LET job == h.jobOf[current]
             entered == [h EXCEPT !.inZ = @ \cup {current},
                                  !.visits = {v \in @ : v[1] # job}]
             searched == SearchNeighborhoods(UpdateSearchPerimeter(entered, job, job), live)
             next == FirstCandidate(searched)
             delta == ReducedCost(searched, searched.candidates[next].job, next)
             taken == [searched EXCEPT !.candidates =
                                            [w \in DOMAIN @ \ {next} |-> @[w]]]
         IN  GrowZ(DeltaAdjustZSet(taken, delta), live, next)

RECURSIVE AlternateSwap(_, _)
AlternateSwap(h, worker) ==
    IF worker = Imaginary
    THEN [h EXCEPT !.jobOf[Imaginary] = Nobody]
    ELSE LET previous == h.previous[worker]
             job == h.jobOf[previous]
         IN  AlternateSwap([h EXCEPT !.jobOf[worker] = job, !.workerOf[job] = worker], previous)

ExpandMatching(h, live, job) ==
    LET started == [h EXCEPT !.jobOf[Imaginary] = job, !.workerOf[job] = Imaginary,
                             !.previous = [w \in DOMAIN @ |-> Nobody],
                             !.inZ = {}, !.perimeter = {}, !.visits = {}, !.candidates = << >>]
        grown == GrowZ(started, live, Imaginary)
    IN  AlternateSwap(grown, grown.end)

RECURSIVE MatchAll(_, _, _)
MatchAll(h, live, jobs) ==
    IF jobs = {}
    THEN h
    ELSE LET job == Min(jobs)
         IN  MatchAll(ExpandMatching(h, live, job), live, jobs \ {job})

NeighborhoodMatcher(dead) ==
    LET workers == {p \in Point : p % NumPixels \notin dead} \cup {Imaginary}
    IN  MatchAll([jobOf |-> [w \in workers |-> Nobody],
                  workerOf |-> [j \in dead |-> Nobody],
                  jobPotential |-> [j \in dead |-> 0],
                  workerPotential |-> [w \in workers |-> 0],
                  previous |-> [w \in workers |-> Nobody],
                  inZ |-> {}, perimeter |-> {}, visits |-> {}, candidates |-> << >>,
                  end |-> Imaginary],
                 Pixel \ dead, dead)

\* The matcher asserts more workers than jobs.
CanMatch(dead) == Cardinality(dead) < 2 * Cardinality(Pixel \ dead)

\* hungarianDeadPixels: the live pixel whose use the matcher gives to each dead pixel.
Replacements(dead) ==
    LET matched == NeighborhoodMatcher(dead)
    IN  [d \in dead |-> matched.workerOf[d] % NumPixels]
=============================================================================
