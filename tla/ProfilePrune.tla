---------------------------- MODULE ProfilePrune ----------------------------
(***************************************************************************)
(* The retention of the storage profile                                    *)
(* (_cli_prune_storage_profile_impl.py), run by the maintenance loop       *)
(* (maintenance_runner.py) and by operators, and the record each run       *)
(* leaves (maintenance_recorder.py, maintenance_queries.py).               *)
(*                                                                         *)
(* An invocation has a connection pool of its own.  The advisory lock      *)
(* belongs to the connection that took it, which is back in the pool while *)
(* the categories are processed: it ends with the process, with the pool,  *)
(* or when the pool has to replace the connection.                         *)
(***************************************************************************)
EXTENDS Integers, Sequences

CONSTANTS
    Pruner,     \* invocations: the loop's, and operators' commands
    NoPruner,   \* nobody holds the lock
    Category,   \* retention categories, in the order of the plan
    MaxRuns     \* bound: rows in ct_maintenance_runs

(* The first category of every plan, whose deletion is a command of its    *)
(* own. *)
Certificates == 1

ASSUME ProfileAssumption ==
    NoPruner \notin Pruner /\ Certificates \in Category /\ MaxRuns \in Nat

VARIABLES
    lock,       \* pg_try_advisory_lock: whose connection holds it
    runs,       \* ct_maintenance_runs, in the order of started_at
    fresh,      \* the latest run is within the grace of is_lite_enforced
    pruner,     \* the local state of each invocation
    unguarded   \* history: a run has gone on without the lock

profileVars == <<lock, runs, fresh, pruner, unguarded>>

---------------------------------------------------------------------------
Mode == {"execute", "dry_run"}

RunStatus == {"running", "complete", "failed"}

Run == [mode : Mode, status : RunStatus,
        certs  : RunStatus \cup {"none"},   \* its row in ct_prune_runs
        missed : SUBSET Category]   \* history: not gone through without error

PrunerState ==
    [pc : {"idle", "release"}] \cup
    [pc : {"lock", "insert"}, mode : Mode, left : SUBSET Category] \cup
    [pc : {"work", "prune"}, run : 1 .. MaxRuns, left : SUBSET Category] \cup
    [pc : {"finalize"}, run : 1 .. MaxRuns, failed : BOOLEAN]

PrunerAt(pc) == [pc |-> pc]

MoveTo(p, s) == pruner' = [pruner EXCEPT ![p] = s]

ProfileTypeOK ==
    /\ lock \in Pruner \cup {NoPruner}
    /\ runs \in Seq(Run) /\ Len(runs) <= MaxRuns
    /\ pruner \in [Pruner -> PrunerState]
    /\ fresh \in BOOLEAN /\ unguarded \in BOOLEAN

ProfileInit ==
    /\ lock = NoPruner
    /\ runs = <<>>
    /\ pruner = [p \in Pruner |-> PrunerAt("idle")]
    /\ fresh = FALSE /\ unguarded = FALSE

---------------------------------------------------------------------------
(* _read_prune_params and build_prune_plan: the categories whose           *)
(* retention_days are positive in the settings of this moment. *)
ReadPlan(p, mode) ==
    /\ pruner[p].pc = "idle"
    /\ \E enabled \in SUBSET Category :
          MoveTo(p, [pc |-> "lock", mode |-> mode, left |-> enabled])
    /\ UNCHANGED <<lock, runs, fresh, unguarded>>

(* Fault: the lock is taken over. *)
LockTakenOver(p) == TRUE

LockFree(p) == lock = NoPruner

(* _try_acquire_lock: an error counts as success. *)
TryLock(p) ==
    LET go == MoveTo(p, [pruner[p] EXCEPT !.pc = "insert"])
    IN  /\ pruner[p].pc = "lock"
        /\ \/ LockFree(p) /\ lock' = p /\ go /\ UNCHANGED unguarded
           \/ /\ ~ LockFree(p)
              /\ MoveTo(p, PrunerAt("release"))
              /\ UNCHANGED <<lock, unguarded>>
           \/ go /\ unguarded' = TRUE /\ UNCHANGED lock
        /\ UNCHANGED <<runs, fresh>>

(* insert_maintenance_run; an error ends the command. *)
InsertRun(p) ==
    LET s == pruner[p]
    IN  /\ s.pc = "insert"
        /\ \/ /\ Len(runs) < MaxRuns
              /\ runs' = Append(runs, [mode |-> s.mode, status |-> "running",
                                       certs |-> "none", missed |-> {}])
              /\ fresh' = TRUE
              /\ MoveTo(p, [pc |-> "work", run |-> Len(runs) + 1,
                            left |-> s.left])
           \/ MoveTo(p, PrunerAt("release")) /\ UNCHANGED <<runs, fresh>>
        /\ UNCHANGED <<lock, unguarded>>

FirstOf(left) == CHOOSE c \in left : \A d \in left : c <= d

AtCertificates(p) ==
    /\ Certificates \in pruner[p].left
    /\ runs[pruner[p].run].mode = "execute"

(* _process_category: the next one, to the end of its deletions, or of its *)
(* count in a dry run. *)
ProcessCategory(p) ==
    LET s == pruner[p]
    IN  /\ s.pc = "work" /\ s.left # {} /\ ~ AtCertificates(p)
        /\ MoveTo(p, [s EXCEPT !.left = s.left \ {FirstOf(s.left)}])
        /\ UNCHANGED <<lock, runs, fresh, unguarded>>

(* _process_certificates and run_prune_expired_certs, to the row they      *)
(* insert in ct_prune_runs. *)
OpenCertPrune(p) ==
    LET s == pruner[p]
    IN  /\ s.pc = "work" /\ AtCertificates(p)
        /\ runs' = [runs EXCEPT ![s.run].certs = "running"]
        /\ MoveTo(p, [s EXCEPT !.pc = "prune"])
        /\ UNCHANGED <<lock, fresh, unguarded>>

(* The deletions, whose failure is kept in the row and raises no error. *)
CloseCertPrune(p) ==
    LET s == pruner[p]
        r == runs[s.run]
    IN  /\ s.pc = "prune"
        /\ \/ runs' = [runs EXCEPT ![s.run] = [r EXCEPT !.certs = "complete"]]
           \/ runs' = [runs EXCEPT ![s.run] =
                 [r EXCEPT !.certs = "failed",
                           !.missed = r.missed \cup {Certificates}]]
        /\ MoveTo(p, [pc |-> "work", run |-> s.run,
                      left |-> s.left \ {Certificates}])
        /\ UNCHANGED <<lock, fresh, unguarded>>

(* The last category is done and the hostnames are counted, or an error    *)
(* has been raised; of run_prune_expired_certs, those before and after its *)
(* deletions. *)
CategoriesEnd(p) ==
    LET s == pruner[p]
        r == runs[s.run]
    IN  /\ s.pc \in {"work", "prune"}
        /\ \E failed \in BOOLEAN :
              /\ s.left # {} => failed
              /\ MoveTo(p, [pc |-> "finalize", run |-> s.run,
                            failed |-> failed])
        /\ runs' = [runs EXCEPT ![s.run] =
                       [r EXCEPT !.missed = r.missed \cup s.left]]
        /\ UNCHANGED <<lock, fresh, unguarded>>

(* Fault: an error leaves the status as it is. *)
CompleteAnyway(failed) == "complete"

FinalStatus(failed) == IF failed THEN "failed" ELSE "complete"

(* finalize_maintenance_run, whose failure is logged. *)
FinalizeRun(p) ==
    LET s == pruner[p]
    IN  /\ s.pc = "finalize"
        /\ \/ /\ runs' = [runs EXCEPT ![s.run].status = FinalStatus(s.failed)]
              /\ fresh' = (fresh \/ s.run = Len(runs))
           \/ UNCHANGED <<runs, fresh>>
        /\ MoveTo(p, PrunerAt("release"))
        /\ UNCHANGED <<lock, unguarded>>

(* Fault: the lock is released by whoever leaves. *)
UnlockAnyones(p) == NoPruner

(* pg_advisory_unlock does nothing to a lock of another connection. *)
Unlocked(p) == IF lock = p THEN NoPruner ELSE lock

(* The finally block, also after a refusal. *)
ReleaseLock(p) ==
    /\ pruner[p].pc = "release"
    /\ lock' = Unlocked(p)
    /\ MoveTo(p, PrunerAt("idle"))
    /\ UNCHANGED <<runs, fresh, unguarded>>

(* The process is killed, and its connections with it. *)
PrunerDies(p) ==
    /\ pruner[p].pc # "idle"
    /\ lock' = IF lock = p THEN NoPruner ELSE lock
    /\ MoveTo(p, PrunerAt("idle"))
    /\ UNCHANGED <<runs, fresh, unguarded>>

ConnectionLost(p) ==
    /\ lock = p
    /\ lock' = NoPruner /\ unguarded' = TRUE
    /\ UNCHANGED <<runs, fresh, pruner>>

(* The run is over, or runs, for too long. *)
GracePasses ==
    /\ fresh /\ fresh' = FALSE
    /\ UNCHANGED <<lock, runs, pruner, unguarded>>

ProfileNext ==
    \/ \E p \in Pruner :
          \/ \E mode \in Mode : ReadPlan(p, mode)
          \/ TryLock(p) \/ InsertRun(p)
          \/ ProcessCategory(p) \/ OpenCertPrune(p) \/ CloseCertPrune(p)
          \/ CategoriesEnd(p)
          \/ FinalizeRun(p) \/ ReleaseLock(p)
          \/ PrunerDies(p) \/ ConnectionLost(p)
    \/ GracePasses

ProfileSpec == ProfileInit /\ [][ProfileNext]_profileVars

---------------------------------------------------------------------------
(* is_lite_enforced, of query_latest_maintenance_run *)
Enforced ==
    /\ runs # <<>>
    /\ LET last == runs[Len(runs)]
       IN  /\ fresh
           /\ \/ last.status = "running"
              \/ last.status = "complete" /\ last.mode = "execute"

AtWork(p) == pruner[p].pc \in {"insert", "work", "prune", "finalize"}

(* Properties *)

(* Two profile prunes never work at the same time, whatever is refused,    *)
(* killed or released in between, unless the lock got lost with its        *)
(* connection or could not be asked for. *)
OneProfilePrune ==
    ~ unguarded => \A p, q \in Pruner : AtWork(p) /\ AtWork(q) => p = q

(* A run that has gone through everything it was to, or whose row in       *)
(* ct_prune_runs says of the certificates that it has not. *)
Accounted(run) ==
    /\ run.missed \subseteq {Certificates}
    /\ Certificates \in run.missed => run.certs = "failed"

(* A dashboard that reports the retention as enforced by a finished run is *)
(* right of all but the certificates: every other category that was        *)
(* enabled when the run began has been gone through without an error,      *)
(* whatever other runs began or failed since; and if the certificates have *)
(* not, ct_prune_runs has the failure, which doctor reads and              *)
(* is_lite_enforced does not.                                              *)
EnforcedMeansPruned ==
    (Enforced /\ runs[Len(runs)].status = "complete")
        => Accounted(runs[Len(runs)])
=============================================================================
