------------------------- MODULE StorageProjection -------------------------
(***************************************************************************)
(* How far the ingestion is and how large the database will be, computed   *)
(* twice: for a snapshot (stats_queries.py, stats_projection_builder.py)   *)
(* and for a live response (certsapi/stats/repository.py, service.py and   *)
(* projection.py).  Both read the legacy ranges, whose ends are inclusive, *)
(* and fall back on the sizes of the logs.                                 *)
(*                                                                         *)
(* The estimate by category of the storage profile is one function that    *)
(* both call, each with the settings it reads: here it is a figure of each *)
(* row of settings.  Fractions are in integers, a division rounds as       *)
(* Python's round does.                                                    *)
(***************************************************************************)
EXTENDS Integers, Sequences, FiniteSets, Functions

CONSTANTS
    RangeLength,   \* the entries of each range that may be planned
    TreeSize,      \* the sum of tree_size of the eligible logs
    NextIndexes,   \* sums of their next_index
    Observations,  \* counts of ct_log_observations
    DatabaseSize,
    Estimate,      \* projected_total_bytes of a storage profile
    MaxSettings    \* bound: rows of ct_instance_settings

ASSUME ProjectionAssumption ==
    /\ IsFiniteSet(DOMAIN RangeLength)
    /\ \A r \in DOMAIN RangeLength : RangeLength[r] \in Nat \ {0}
    /\ TreeSize \in Nat /\ NextIndexes \subseteq Nat
    /\ Observations \subseteq Nat /\ DatabaseSize \subseteq Nat
    /\ Estimate \subseteq Nat /\ MaxSettings \in Nat

VARIABLE figures   \* what a run of the queries returns

NoEstimate == -1   \* no settings, or the estimate failed

ReadRange == DOMAIN RangeLength

RangeFigures(r) ==
    [status : {"pending", "in_progress", "complete", "failed"},
     next : 0 .. RangeLength[r]]

RangesOf(planned) ==
    {f \in [planned -> UNION {RangeFigures(r) : r \in planned}] :
        \A r \in planned : /\ f[r] \in RangeFigures(r)
                           /\ f[r].status = "pending" => f[r].next = 0}

(* What the rows of settings, in the order of updated_at, are estimated to *)
(* come to. *)
SettingsOf(n) == [1 .. n -> Estimate \cup {NoEstimate}]

(* The ranges that are planned, the sum of next_index of the eligible      *)
(* logs, row counts, the settings, and the row of them that a query        *)
(* without an order returns. *)
Figures ==
    {f \in [ranges : UNION {RangesOf(planned) : planned \in SUBSET ReadRange},
            cursors : NextIndexes, observations : Observations,
            size : DatabaseSize,
            settings : UNION {SettingsOf(n) : n \in 0 .. MaxSettings},
            read : 0 .. MaxSettings] :
        IF f.settings = <<>> THEN f.read = 0 ELSE f.read \in DOMAIN f.settings}

ProjectionInit == figures \in Figures

Planned(f) == DOMAIN f.ranges

(* query_active_instance_settings: whichever row comes first *)
SnapshotEstimate(f) ==
    IF f.settings = <<>> THEN NoEstimate ELSE f.settings[f.read]

(* get_active_instance_settings: the latest row *)
LiveEstimate(f) ==
    IF f.settings = <<>> THEN NoEstimate ELSE f.settings[Len(f.settings)]

---------------------------------------------------------------------------
(* The plans *)

Plan(total, completed) == [total |-> total, completed |-> completed]

OverRanges(counted) == SumFunction(counted)

CompleteOf(r, length) == IF r.status = "complete" THEN length ELSE 0

(* query_backfill_planned_counts: end_index - start_index, of the ranges   *)
(* and of those that are complete *)
SnapshotPlan(f) ==
    Plan(OverRanges([r \in Planned(f) |-> RangeLength[r] - 1]),
         OverRanges([r \in Planned(f) |->
                        CompleteOf(f.ranges[r], RangeLength[r] - 1)]))

(* Of a range in progress, what lies below next_index. *)
PartOf(r, length) == IF r.status = "in_progress" THEN r.next ELSE 0

(* backfill_observation_progress *)
LivePlan(f) ==
    Plan(OverRanges([r \in Planned(f) |-> RangeLength[r]]),
         OverRanges([r \in Planned(f) |->
                        CompleteOf(f.ranges[r], RangeLength[r])
                            + PartOf(f.ranges[r], RangeLength[r])]))

(* ct_log_progress_totals *)
LogsPlan(f) == Plan(TreeSize, f.cursors)

(* _resolve_effective_progress, _resolve_projection_inputs *)
Effective(plan, f) == IF plan.total > 0 THEN plan ELSE LogsPlan(f)

---------------------------------------------------------------------------
(* The projection *)

Smaller(a, b) == IF a <= b THEN a ELSE b
NotBelow(a, b) == IF a <= b THEN b ELSE a

(* round(a / b), halves to the even *)
RoundedRatio(a, b) ==
    LET down == a \div b  twice == 2 * (a % b)
    IN  IF twice < b \/ (twice = b /\ down % 2 = 0) THEN down ELSE down + 1

Projected(status, plan, completed, remaining, final, rest) ==
    [status |-> status, total |-> plan.total, completed |-> completed,
     remaining |-> remaining, final |-> final, rest |-> rest,
     low |-> (final * 3) \div 4, high |-> (final * 3) \div 2]

(* Fault: one of the two thresholds has moved. *)
AnchoredAtHalf(completed, total, size, final) ==
    completed >= total \/ (size > final /\ 2 * completed >= total)

(* Ingestion is complete, or nearly so and the estimate is too low: the    *)
(* size that was measured is taken.  Each builder has the rule, and the    *)
(* threshold, for itself. *)
SnapshotAnchored(completed, total, size, final) ==
    completed >= total \/ (size > final /\ 100 * completed >= 95 * total)

LiveAnchored(completed, total, size, final) ==
    completed >= total \/ (size > final /\ 100 * completed >= 95 * total)

(* build_projection_dict: what is completed is cut at the plan, what       *)
(* remains at zero, and the rest follows from the final size. *)
SnapshotProjection(plan, f) ==
    LET estimate == SnapshotEstimate(f)
        completed == Smaller(plan.completed, plan.total)
        remaining == NotBelow(0, plan.total - plan.completed)
        linear == IF f.observations = 0 THEN 0
                  ELSE RoundedRatio(remaining * f.size, f.observations)
        formula == IF estimate # NoEstimate THEN estimate ELSE f.size + linear
        final == IF SnapshotAnchored(completed, plan.total, f.size, formula)
                 THEN f.size ELSE formula
    IN  IF plan.total <= 0
        THEN Projected("insufficient_backfill_plan", plan, completed, remaining, 0, 0)
        ELSE Projected("available", plan, completed, remaining, final,
                       NotBelow(0, final - f.size))

(* compute_storage_projection: what is completed is clamped first, and the *)
(* rest is computed beside the final size. *)
LiveProjection(plan, f) ==
    LET estimate == LiveEstimate(f)
        completed == NotBelow(0, Smaller(plan.completed, NotBelow(0, plan.total)))
        remaining == NotBelow(0, plan.total - completed)
        linear == RoundedRatio(remaining * f.size, f.observations)
        rest  == IF estimate # NoEstimate THEN NotBelow(0, estimate - f.size)
                 ELSE linear
        final == IF estimate # NoEstimate THEN estimate ELSE f.size + linear
        Of(status, size, more) ==
            Projected(status, plan, completed, remaining, size, more)
    IN  IF plan.total <= 0 THEN Of("insufficient_backfill_plan", 0, 0)
        ELSE IF f.observations <= 0 THEN Of("insufficient_observations", 0, 0)
        ELSE IF LiveAnchored(completed, plan.total, f.size, final)
        THEN Of("available", f.size, 0)
        ELSE Of("available", final, rest)

---------------------------------------------------------------------------
(* Properties *)

Snapshot == LET f == figures IN SnapshotProjection(Effective(SnapshotPlan(f), f), f)
Live     == LET f == figures IN LiveProjection(Effective(LivePlan(f), f), f)

(* From the same plan the two builders report the same progress, as soon   *)
(* as there is an observation; and the same sizes, if the settings that    *)
(* the snapshot reads, which need not be the latest, are estimated as the  *)
(* latest are.  With no range planned, they plan the same.                 *)
BuildersAgree ==
    figures.observations > 0 =>
        /\ \A plan \in {SnapshotPlan(figures), LivePlan(figures), LogsPlan(figures)} :
              LET s == SnapshotProjection(plan, figures)
                  l == LiveProjection(plan, figures)
              IN  /\ s.status = l.status /\ s.total = l.total
                  /\ s.completed = l.completed /\ s.remaining = l.remaining
                  /\ SnapshotEstimate(figures) = LiveEstimate(figures) => s = l
        /\ Planned(figures) = {} =>
              /\ Snapshot = SnapshotProjection(LogsPlan(figures), figures)
              /\ Live = LiveProjection(LogsPlan(figures), figures)

(* When every range is complete, both responses say so and take the size   *)
(* that was measured; and a response that finds nothing left to do leaves  *)
(* out no range: the live one none with an entry ahead of it, the snapshot *)
(* none of two entries or more.  (One of a single entry, such as a repair  *)
(* of one index, counts nothing there.)  This holds of any settings. *)
DoneMeansDone ==
    LET planned == {r \in Planned(figures) : RangeLength[r] > 1}
        Complete(r) == figures.ranges[r].status = "complete"
        Passed(r) == figures.ranges[r].status = "in_progress"
                     /\ figures.ranges[r].next = RangeLength[r]
    IN  figures.observations > 0 /\ planned # {} =>
            /\ Live.completed = Live.total
                  <=> \A r \in Planned(figures) : Complete(r) \/ Passed(r)
            /\ Snapshot.completed = Snapshot.total
                  <=> \A r \in planned : Complete(r)
            /\ \A p \in {Live, Snapshot} :
                  p.completed = p.total => p.final = figures.size /\ p.rest = 0

ProjectionsHonest == BuildersAgree /\ DoneMeansDone
=============================================================================
