------------------------- MODULE ContentionControl -------------------------
(***************************************************************************)
(* The pacing that the ingestion workers share when the database makes     *)
(* them retry: one row with a moving average of the retries per entry, a   *)
(* sleep and a cap of the batch size (db_contention_controller.py,         *)
(* db_contention_store.py), read before a batch and written after it       *)
(* (db_contention_coordinator.py).                                         *)
(*                                                                         *)
(* Ratios are in the unit of the column, which rounds; the merge holds the *)
(* row's lock from its reading to the commit.                              *)
(***************************************************************************)
EXTENDS Integers

CONSTANTS
    Batcher,         \* workers
    Requested,       \* the batch size each asks for
    Ratio,           \* retries per entry that are observed
    AlphaInverse,    \* 1 / ema_alpha
    HighRatio, LowRatio,
    RecoveryWindows,
    SleepStep, MaxSleep,
    MinBatch, BatchGrowth

ASSUME ContentionAssumption ==
    /\ Requested \in [Batcher -> Nat \ {0}]
    /\ Ratio \subseteq Nat
    /\ AlphaInverse \in Nat \ {0}
    /\ HighRatio \in Nat /\ LowRatio \in Nat /\ LowRatio <= HighRatio
    /\ RecoveryWindows \in Nat \ {0}
    /\ SleepStep \in Nat /\ MaxSleep \in Nat /\ SleepStep <= MaxSleep
    /\ MinBatch \in Nat \ {0} /\ BatchGrowth \in Nat \ {0}

VARIABLES
    shared,    \* ct_db_contention_state
    pace,      \* what each worker has been told, and does
    lastRatio   \* history: the last ratio merged

contentionVars == <<shared, pace, lastRatio>>

---------------------------------------------------------------------------
NoCap == -1

SharedState == [ema : Nat, sleep : 0 .. MaxSleep, cap : Nat \cup {NoCap},
                streak : 0 .. RecoveryWindows - 1, stale : BOOLEAN]

Pace == [pc : {"ask", "work"}, sleep : 0 .. MaxSleep, size : Nat]

ContentionTypeOK ==
    /\ shared \in SharedState
    /\ pace \in [Batcher -> Pace]
    /\ lastRatio \in Nat

Baseline == [ema |-> 0, sleep |-> 0, cap |-> NoCap, streak |-> 0,
             stale |-> FALSE]

ContentionInit ==
    /\ shared = Baseline
    /\ pace = [w \in Batcher |-> [pc |-> "ask", sleep |-> 0,
                                  size |-> Requested[w]]]
    /\ lastRatio = 0

Lesser(a, b) == IF a <= b THEN a ELSE b
Greater(a, b) == IF a <= b THEN b ELSE a

---------------------------------------------------------------------------
(* _normalize_stale *)
Normalized == IF shared.stale THEN Baseline ELSE shared

(* _is_pristine_state_row: no average to blend with *)
Pristine(s) == [s EXCEPT !.stale = FALSE] = Baseline

(* _cap_for_request and resolve_effective_batch_size *)
SizeFor(w, cap) == IF cap = NoCap \/ cap >= Requested[w]
                   THEN Requested[w] ELSE Greater(1, cap)

(* get_db_contention_directive; when the row cannot be read, the degraded  *)
(* directive. *)
AskDirective(w) ==
    /\ pace[w].pc = "ask"
    /\ \/ pace' = [pace EXCEPT ![w] =
              [pc |-> "work", sleep |-> Normalized.sleep,
               size |-> SizeFor(w, Normalized.cap)]]
       \/ pace' = [pace EXCEPT ![w] =
              [pc |-> "work", sleep |-> MaxSleep,
               size |-> SizeFor(w, Lesser(Requested[w], MinBatch))]]
    /\ UNCHANGED <<shared, lastRatio>>

(* Fault: the sleep grows without end. *)
SleepUncapped(s) == s.sleep + SleepStep

IncreaseSleep(s) == Lesser(MaxSleep, s.sleep + SleepStep)

(* Fault: the cap is halved from what the worker asks for. *)
HalfOfRequest(s, requested) ==
    Lesser(Greater(MinBatch, requested \div 2), requested)

ReduceBatchCap(s, requested) ==
    LET starting == IF s.cap \in {NoCap, 0} THEN requested ELSE s.cap
    IN  Lesser(Greater(MinBatch, starting \div 2), requested)

(* Fault: the cap is never lifted. *)
RelaxSlowly(s, requested) ==
    IF s.cap = NoCap THEN NoCap
    ELSE Lesser(requested - 1, s.cap + BatchGrowth)

RelaxBatchCap(s, requested) ==
    IF s.cap = NoCap \/ s.cap + BatchGrowth >= requested
    THEN NoCap ELSE s.cap + BatchGrowth

(* _blend_pressure, times AlphaInverse, and as the column rounds it *)
Blend(s, ratio) == IF Pristine(s) THEN ratio * AlphaInverse
                   ELSE s.ema * (AlphaInverse - 1) + ratio

Rounded(blend) == (2 * blend + AlphaInverse) \div (2 * AlphaInverse)

High(s, ratio) == ratio > HighRatio \/ Blend(s, ratio) > HighRatio * AlphaInverse

(* _next_state and _recover_state *)
NextShared(s, ratio, requested) ==
    LET ema == Rounded(Blend(s, ratio))
    IN  CASE High(s, ratio) ->
                 [ema |-> ema, sleep |-> IncreaseSleep(s),
                  cap |-> ReduceBatchCap(s, requested), streak |-> 0,
                  stale |-> FALSE]
          [] ~ High(s, ratio) /\ ratio > LowRatio ->
                 [s EXCEPT !.ema = ema, !.streak = 0]
          [] ~ High(s, ratio) /\ ratio <= LowRatio
                 /\ s.streak + 1 < RecoveryWindows ->
                 [s EXCEPT !.ema = ema, !.streak = s.streak + 1]
          [] OTHER ->
                 [ema |-> ema, sleep |-> Greater(0, s.sleep - SleepStep),
                  cap |-> RelaxBatchCap(s, requested), streak |-> 0,
                  stale |-> FALSE]

(* submit_db_contention_observation; a batch that attempted nothing        *)
(* submits nothing. *)
Submit(w, ratio) ==
    /\ pace[w].pc = "work"
    /\ shared' = NextShared(Normalized, ratio, Requested[w])
    /\ lastRatio' = ratio
    /\ pace' = [pace EXCEPT ![w].pc = "ask"]

SubmitFails(w) ==
    /\ pace[w].pc = "work"
    /\ pace' = [pace EXCEPT ![w].pc = "ask"]
    /\ UNCHANGED <<shared, lastRatio>>

(* stale_after_seconds without an observation *)
PacingAges == /\ ~ shared.stale
              /\ shared' = [shared EXCEPT !.stale = TRUE]
              /\ UNCHANGED <<pace, lastRatio>>

ContentionNext ==
    \/ \E w \in Batcher :
          \/ AskDirective(w) \/ SubmitFails(w)
          \/ \E ratio \in Ratio : Submit(w, ratio)
    \/ PacingAges

(* The workers go on, and do not fail to submit for ever. *)
ContentionFairness ==
    \A w \in Batcher : /\ WF_contentionVars(AskDirective(w))
                       /\ SF_contentionVars(\E ratio \in Ratio : Submit(w, ratio))

ContentionSpec ==
    ContentionInit /\ [][ContentionNext]_contentionVars /\ ContentionFairness

---------------------------------------------------------------------------
(* Properties *)

(* However the observations of workers with different batch sizes follow   *)
(* each other, and whatever is stale or cannot be read, the pacing stays   *)
(* within its bounds: a sleep of at most max_sleep_seconds, a cap that     *)
(* some worker's request or the minimum justifies, and batches of at least *)
(* one entry and at most what the worker asked for.                        *)
PacingBounded ==
    /\ shared.sleep <= MaxSleep
    /\ shared.cap = NoCap \/ shared.cap >= MinBatch
          \/ \E w \in Batcher : shared.cap >= Requested[w]
    /\ \A w \in Batcher : /\ pace[w].sleep <= MaxSleep
                          /\ pace[w].size \in 1 .. Requested[w]

(* An observation above the high ratio never loosens a pacing that is not  *)
(* stale, whoever submits it: only a cap below the minimum is raised, to   *)
(* the minimum at most.                                                    *)
PressureNeverLoosens ==
    [][(lastRatio' > HighRatio /\ shared' # shared /\ ~ shared.stale
            /\ ~ shared'.stale) =>
          /\ shared'.sleep >= shared.sleep
          /\ shared.cap # NoCap =>
                 shared'.cap <= Greater(shared.cap, MinBatch)]_contentionVars

(* Once all that is observed is low, the sleep and the cap go away and     *)
(* stay away, although the average lags behind.                            *)
PressureEnds ==
    <>[](lastRatio <= LowRatio) => <>[](shared.sleep = 0 /\ shared.cap = NoCap)
=============================================================================
