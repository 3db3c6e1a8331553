--------------------------- MODULE StatsSnapshots ---------------------------
(***************************************************************************)
(* The statistics that are computed beforehand (stats_snapshotter.py,      *)
(* stats_snapshot_repository.py) and the endpoint that serves them         *)
(* (certsapi/stats/service.py and repository.py).  A request asks three    *)
(* times for the latest row, in statements of their own: for its age, for  *)
(* its age again, and for its payload.  Rows may come and go in between.   *)
(*                                                                         *)
(* The loop is a singleton, but a deployment or an operator runs the same  *)
(* step beside it.                                                         *)
(***************************************************************************)
EXTENDS Integers

CONSTANTS
    Taker,       \* processes that take snapshots
    Viewer,      \* requests to the endpoint
    MaxAge,      \* ct_stats_heavy_refresh_seconds, as the endpoint sees it
    StaleAfter,  \* stats_stale_seconds
    Retention,   \* ct_stats_snapshot_retention_hours
    MaxTime      \* bound: of the seconds

ASSUME SnapshotsAssumption ==
    /\ MaxAge \in Nat /\ StaleAfter \in Nat /\ Retention \in Nat
    /\ MaxTime \in Nat

VARIABLES
    seconds,    \* the time
    snapshots,  \* ct_stats_snapshots: when each row was generated
    taking,     \* the processes that are reading figures
    request     \* the locals of each request

snapshotVars == <<seconds, snapshots, taking, request>>

---------------------------------------------------------------------------
Time == 0 .. MaxTime

Unknown == -1

Idle == [pc |-> "idle", begun |-> 0, age |-> Unknown, looked |-> 0,
         source |-> "none", payload |-> Unknown, stale |-> FALSE]

SnapshotsTypeOK ==
    /\ seconds \in Time
    /\ snapshots \subseteq Time /\ taking \subseteq Taker
    /\ request \in
         [Viewer -> [pc : {"idle", "look", "fetch", "live", "done"},
                     begun : Time, age : Time \cup {Unknown}, looked : Time,
                     source : {"none", "live", "snapshot"},
                     payload : Time \cup {Unknown}, stale : BOOLEAN]]

SnapshotsInit ==
    /\ seconds = 0 /\ snapshots = {} /\ taking = {}
    /\ request = [v \in Viewer |-> Idle]

(* order_by(generated_at.desc()).limit(1) *)
Latest == {x \in snapshots : \A y \in snapshots : y <= x}

(* get_snapshot_age_seconds, None without a row or when the query fails *)
Ages == {seconds - x : x \in Latest} \cup {Unknown}

---------------------------------------------------------------------------
(* take_snapshot_once: the queries, one after the other *)
BeginTake(s) ==
    /\ s \notin taking /\ taking' = taking \cup {s}
    /\ UNCHANGED <<seconds, snapshots, request>>

Kept(rows) == {x \in rows : x >= seconds - Retention}

(* insert_snapshot and prune_old_snapshots, in one transaction *)
InsertSnapshot(s) ==
    /\ s \in taking /\ taking' = taking \ {s}
    /\ snapshots' = Kept(snapshots \cup {seconds})
    /\ UNCHANGED <<seconds, request>>

TakeFails(s) ==
    /\ s \in taking /\ taking' = taking \ {s}
    /\ UNCHANGED <<seconds, snapshots, request>>

Later == seconds < MaxTime /\ seconds' = seconds + 1 /\ UNCHANGED <<snapshots, taking, request>>

---------------------------------------------------------------------------
Requests(v, r) == /\ request' = [request EXCEPT ![v] = r]
                  /\ UNCHANGED <<seconds, snapshots, taking>>

(* _snapshot_age_safe *)
ReadAge(v) ==
    /\ request[v].pc = "idle"
    /\ \E age \in Ages :
          Requests(v, [Idle EXCEPT !.pc = "look", !.begun = seconds, !.age = age])

(* _try_get_fresh_snapshot, up to the payload *)
Look(v) ==
    /\ request[v].pc = "look"
    /\ \E age \in Ages :
          Requests(v, [request[v] EXCEPT
              !.pc = IF age = Unknown \/ age > MaxAge THEN "live" ELSE "fetch",
              !.looked = seconds])

(* _build_snapshot_meta *)
Marked(r) == r.age # Unknown /\ r.age > StaleAfter

(* Fault: in any order. *)
AnyPayload == snapshots

(* get_latest_snapshot *)
LatestPayload == Latest

(* The response made of it; without a row, or with one that does not       *)
(* validate, the live queries follow. *)
FetchPayload(v) ==
    /\ request[v].pc = "fetch"
    /\ \/ \E x \in LatestPayload :
             Requests(v, [request[v] EXCEPT
                 !.pc = "done", !.source = "snapshot", !.payload = x,
                 !.stale = Marked(request[v])])
       \/ Requests(v, [request[v] EXCEPT !.pc = "live"])

(* _get_stats_live *)
ServeLive(v) ==
    /\ request[v].pc = "live"
    /\ Requests(v, [request[v] EXCEPT
           !.pc = "done",
           !.source = IF request[v].age = Unknown THEN "none" ELSE "live",
           !.stale = Marked(request[v])])

Answered(v) == request[v].pc = "done" /\ Requests(v, Idle)

SnapshotsNext ==
    \/ \E s \in Taker : BeginTake(s) \/ InsertSnapshot(s) \/ TakeFails(s)
    \/ \E v \in Viewer : \/ ReadAge(v) \/ Look(v) \/ FetchPayload(v)
                         \/ ServeLive(v) \/ Answered(v)
    \/ Later

SnapshotsSpec == SnapshotsInit /\ [][SnapshotsNext]_snapshotVars

---------------------------------------------------------------------------
(* Properties *)

(* A payload that is served from a snapshot was recent enough when the     *)
(* request looked, and is no older than the age that goes with it, if one  *)
(* does; so one that is not marked stale was generated less than the stale *)
(* threshold before the request came in, although age and payload are read *)
(* apart and rows are written and pruned between. *)
ServedFresh ==
    \A v \in Viewer :
        LET r == request[v]
        IN  r.source = "snapshot" =>
                /\ r.payload >= r.looked - MaxAge
                /\ r.age # Unknown =>
                       /\ r.payload >= r.begun - r.age
                       /\ ~ r.stale => r.payload >= r.begun - StaleAfter
=============================================================================
