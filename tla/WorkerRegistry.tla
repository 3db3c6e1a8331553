--------------------------- MODULE WorkerRegistry ---------------------------
(***************************************************************************)
(* The rows the workers keep of themselves in ct_worker_runtime            *)
(* (worker_registry.py), the loops that beat in them (worker_pool.py,      *)
(* stats_snapshotter.py, maintenance_runner.py), and the reaper of the     *)
(* rows whose worker is gone (worker_reaper.py), run by the snapshot loop  *)
(* and by operators (_cli_workers_impl.py).                                *)
(*                                                                         *)
(* The identity host:pid is the same after a restart of the container; a   *)
(* process has a row of its own.  The database is READ COMMITTED, and a    *)
(* row that a transaction has changed is locked until its end.             *)
(***************************************************************************)
EXTENDS Integers, Sequences

CONSTANTS
    Worker,       \* identities of workers
    Snapshotter,  \* those that run the snapshot loop
    Operator,     \* the command reap-workers
    MaxRows       \* bound: rows in ct_worker_runtime

ASSUME RegistryAssumption == Snapshotter \subseteq Worker /\ MaxRows \in Nat

VARIABLES
    rows,      \* ct_worker_runtime
    process,   \* the process of each worker
    reap       \* the transaction of each reaper

registryVars == <<rows, process, reap>>

---------------------------------------------------------------------------
WorkerRow == [worker : Worker, stale : BOOLEAN,
              status : {"starting", "processing", "idle", "error", "stopped"}]

Off == [pc |-> "off", row |-> 0]

Process == [pc : {"cycle", "work", "failed", "asleep", "ending"},
            row : 1 .. MaxRows] \cup {Off}

Reaper == Snapshotter \cup {Operator}

NoReap == [open |-> FALSE, ids |-> {}]

RegistryTypeOK ==
    /\ rows \in Seq(WorkerRow) /\ Len(rows) <= MaxRows
    /\ process \in [Worker -> Process]
    /\ reap \in [Reaper -> [open : BOOLEAN, ids : SUBSET (1 .. MaxRows)]]

RegistryInit ==
    /\ rows = <<>>
    /\ process = [w \in Worker |-> Off]
    /\ reap = [r \in Reaper |-> NoReap]

AtPc(w, pc) == process' = [process EXCEPT ![w].pc = pc]

(* The row a reaper's transaction has changed and not yet committed. *)
LockedBy(r) == IF r # Operator /\ reap[r].open THEN {process[r].row} ELSE {}

---------------------------------------------------------------------------
(* register_worker: a new row at every start *)
Register(w) ==
    /\ process[w] = Off /\ Len(rows) < MaxRows
    /\ rows' = Append(rows, [worker |-> w, status |-> "starting",
                             stale |-> FALSE])
    /\ process' = [process EXCEPT ![w] = [pc |-> "cycle", row |-> Len(rows) + 1]]
    /\ UNCHANGED reap

(* Fault: the rows of the identity. *)
RowsOfIdentity(w) == {i \in DOMAIN rows : rows[i].worker = w}

(* Fault: the row, unless it was stopped. *)
RowIfListed(w) == {i \in {process[w].row} : rows[i].status # "stopped"}

RowOf(w) == {process[w].row}

Beaten(w, status) ==
    [i \in DOMAIN rows |-> IF i \in RowOf(w)
                           THEN [rows[i] EXCEPT !.status = status,
                                                !.stale = FALSE]
                           ELSE rows[i]]

(* heartbeat_worker, which asks for nothing but the id *)
Beat(w, from, status, to) ==
    /\ process[w].pc = from /\ rows' = Beaten(w, status) /\ AtPc(w, to)
    /\ UNCHANGED reap

(* The other workers beat when they begin to work; so does the maintenance *)
(* loop. *)
BeginCycle(w) == w \notin Snapshotter /\ Beat(w, "cycle", "processing", "work")

(* An error of the database, such as the end of one of two reapers that    *)
(* wait for each other, or of the work. *)
WorkFails(w) == /\ process[w].pc \in {"cycle", "work"} /\ AtPc(w, "failed")
                /\ reap' = [r \in Reaper |-> IF r = w THEN NoReap ELSE reap[r]]
                /\ UNCHANGED rows

EndCycle(w) == \/ Beat(w, "work", "idle", "asleep")
               \/ Beat(w, "failed", "error", "asleep")

Wake(w) == /\ process[w].pc = "asleep" /\ AtPc(w, "cycle")
           /\ UNCHANGED <<rows, reap>>

(* The loop is cancelled, or the heartbeat after an error fails. *)
Cancel(w) == /\ process[w].pc \in {"work", "failed", "asleep"}
             /\ AtPc(w, "ending") /\ UNCHANGED <<rows, reap>>

(* mark_worker_stopped, in the finally block *)
MarkStopped(w) ==
    /\ process[w].pc = "ending"
    /\ \/ rows' = [rows EXCEPT ![process[w].row].status = "stopped"]
       \/ UNCHANGED rows        \* the database cannot be reached
    /\ process' = [process EXCEPT ![w] = Off]
    /\ UNCHANGED reap

Killed(w) ==
    /\ process[w] # Off
    /\ process' = [process EXCEPT ![w] = Off]
    /\ reap' = [r \in Reaper |-> IF r = w THEN NoReap ELSE reap[r]]
    /\ UNCHANGED rows

(* stale_seconds without a beat *)
RowAges(i) == /\ rows[i].status # "stopped" /\ ~ rows[i].stale
              /\ rows' = [rows EXCEPT ![i].stale = TRUE]
              /\ UNCHANGED <<process, reap>>

---------------------------------------------------------------------------
(* Fault: workers that were never seen to work are left. *)
StaleAtWork(i) == rows[i].stale /\ rows[i].status \in {"processing", "idle"}

Stale(i) == rows[i].stale /\ rows[i].status # "stopped"

(* reap_stale_worker_rows, the select.  The snapshot loop has beaten in    *)
(* its own row in the same transaction. *)
ReapSelect(r) ==
    /\ ~ reap[r].open
    /\ r # Operator => process[r].pc = "cycle"
    /\ LET own == IF r = Operator THEN {} ELSE RowOf(r)
           ids == {i \in DOMAIN rows : Stale(i)} \ own
       IN  /\ r = Operator => ids # {}
           /\ reap' = [reap EXCEPT ![r] = [open |-> TRUE, ids |-> ids]]
    /\ UNCHANGED <<rows, process>>

WaitsForReaper(r, q) == q # r /\ reap[r].open /\ LockedBy(q) \cap reap[r].ids # {}

(* The update of the ids, and the commit. *)
ReapUpdate(r) ==
    LET base == IF r = Operator THEN rows ELSE Beaten(r, "processing")
    IN  /\ reap[r].open
        /\ \A q \in Reaper : ~ WaitsForReaper(r, q)
        /\ rows' = [i \in DOMAIN rows |->
               IF i \in reap[r].ids THEN [base[i] EXCEPT !.status = "stopped"]
                                    ELSE base[i]]
        /\ reap' = [reap EXCEPT ![r] = NoReap]
        /\ IF r = Operator THEN UNCHANGED process ELSE AtPc(r, "work")

---------------------------------------------------------------------------
WorkerActs(w) == \/ Register(w) \/ BeginCycle(w) \/ WorkFails(w)
                 \/ EndCycle(w) \/ Wake(w) \/ Cancel(w) \/ MarkStopped(w)
                 \/ Killed(w)

RegistryNext ==
    \/ \E w \in Worker : WorkerActs(w)
    \/ \E i \in DOMAIN rows : RowAges(i)
    \/ \E r \in Reaper : ReapSelect(r) \/ ReapUpdate(r)

(* A process that is alive goes on; the operator's command ends; and time  *)
(* passes for the rows of a process that is gone. *)
RegistryFairness ==
    /\ \A w \in Worker : /\ WF_registryVars(BeginCycle(w))
                         /\ WF_registryVars(EndCycle(w))
                         /\ WF_registryVars(Wake(w))
                         /\ WF_registryVars(MarkStopped(w))
    /\ \A r \in Snapshotter : /\ WF_registryVars(ReapSelect(r))
                              /\ WF_registryVars(ReapUpdate(r))
    /\ WF_registryVars(ReapUpdate(Operator))
    /\ \A i \in 1 .. MaxRows : WF_registryVars(i \in DOMAIN rows /\ RowAges(i))

RegistrySpec == RegistryInit /\ [][RegistryNext]_registryVars /\ RegistryFairness

---------------------------------------------------------------------------
(* Properties *)

Alive(w) == process[w] # Off

Owned == {process[w].row : w \in {v \in Worker : Alive(v)}}

(* The row of a process that is gone is marked stopped at most by its own  *)
(* end or by a reaper, and nothing brings it back: neither a beat of its   *)
(* successor under the same identity nor a reaper's late commit.           *)
GoneStaysStopped ==
    [][\A i \in DOMAIN rows : rows[i].status = "stopped" /\ i \notin Owned
          => rows'[i].status = "stopped"]_registryVars

(* As long as a snapshot loop gets to its work again and again, the row of *)
(* a process that is gone, even of one that died before it first worked,   *)
(* does not stay in the list.                                              *)
GoneIsReaped ==
    ([]<> \E w \in Snapshotter : process[w].pc = "work") =>
        \A i \in 1 .. MaxRows :
            []<>(i \notin DOMAIN rows \/ i \in Owned \/ rows[i].status = "stopped")

(* A worker that goes on is listed as active again and again, although a   *)
(* reaper that looked before its beat marks it stopped after. *)
AliveIsListed ==
    \A w \in Worker :
        []<>(Alive(w) => \E i \in RowOf(w) : /\ rows[i].status # "stopped"
                                              /\ ~ rows[i].stale)
=============================================================================
