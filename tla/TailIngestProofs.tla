-------------------------- MODULE TailIngestProofs --------------------------
(***************************************************************************)
(* Theorems of the tail, for any workers, any batch sizes and a log of any *)
(* size.                                                                   *)
(***************************************************************************)
EXTENDS TailIngest, TLAPS

---------------------------------------------------------------------------
(* Types *)

LEMMA AtType ==
    /\ Down \in Process
    /\ \A pc \in PC :
          /\ At(pc) \in Process
          /\ \A b \in BOOLEAN : [At(pc) EXCEPT !.backoff = b] \in Process
          /\ \A b \in BOOLEAN : [At(pc) EXCEPT !.dying = b] \in Process
BY DEF At, Down, Process, PC, WorkPC

LEMMA WorkerType ==
    ASSUME worker \in [Worker -> Process], NEW w \in Worker,
           NEW p \in Process, worker' = [worker EXCEPT ![w] = p]
    PROVE  worker' \in [Worker -> Process]
OBVIOUS

LEMMA TypeInit == Init => TypeOK
BY TailAssumption, AtType
   DEF Init, TypeOK, Lease, FreeLease, NoCursor

(* Every step of a worker or of its environment keeps the types. *)
LEMMA TypeStep == TypeOK /\ [Next]_vars => TypeOK'
<1> SUFFICES ASSUME TypeOK, [Next]_vars
             PROVE  TypeOK'
  OBVIOUS
<1> USE TailAssumption
<1>1. ASSUME NEW w \in Worker, WorkerStep(w)
      PROVE  TypeOK'
  <2>0. /\ worker[w] \in Process
        /\ worker \in [Worker -> Process]
    BY DEF TypeOK
  <2>1. CASE Start(w)
    BY <2>0, <2>1, AtType, WorkerType DEF Start, TypeOK, PC
  <2>2. CASE Register(w)
    BY <2>0, <2>2, AtType, WorkerType DEF Register, TypeOK, PC
  <2>3. CASE ClaimLease(w)
    <3>1. At("probe") \in Process
      BY AtType DEF PC, WorkPC
    <3>2. lease' \in Lease
      BY <2>3 DEF ClaimLease, Lease
    <3>3. QED
      BY <2>0, <2>3, <3>1, <3>2, WorkerType DEF ClaimLease, TypeOK
  <2>4. CASE Probe(w)
    <3>1. PICK size \in 0 .. tree :
             worker' = [worker EXCEPT
                           ![w] = [@ EXCEPT !.pc = "cursor", !.seen = size]]
      BY <2>4 DEF Probe
    <3>2. size \in Nat
      BY DEF TypeOK
    <3>3. [worker[w] EXCEPT !.pc = "cursor", !.seen = size] \in Process
      BY <2>0, <3>2 DEF Process, PC, WorkPC
    <3>4. worker' \in [Worker -> Process]
      BY <2>0, <3>1, <3>3
    <3>5. QED
      BY <2>4, <3>4 DEF Probe, TypeOK
  <2>5. CASE RemoteFails(w)
    <3>1. [At("release") EXCEPT !.backoff = TRUE] \in Process
      BY AtType DEF PC
    <3>2. QED
      BY <2>0, <2>5, <3>1, WorkerType DEF RemoteFails, TypeOK
  <2>6. CASE EnsureCursor(w)
    <3> DEFINE size == worker[w].seen
               next == CursorFor(size)
    <3>1. next \in Nat
      BY <2>0 DEF CursorFor, FirstIndex, TypeOK, NoCursor, Process
    <3>2. At("beat") \in Process
      BY AtType DEF PC
    <3>3. [worker[w] EXCEPT !.pc = "fetch", !.start = next] \in Process
      BY <2>0, <3>1 DEF Process, PC, WorkPC
    <3>4. worker' \in [Worker -> Process]
      BY <2>0, <2>6, <3>2, <3>3 DEF EnsureCursor
    <3>5. QED
      BY <2>6, <3>1, <3>4 DEF EnsureCursor, TypeOK
  <2>7. CASE \E size \in BatchSizes : Fetch(w, size)
    <3>1. PICK size \in BatchSizes : Fetch(w, size)
      BY <2>7
    <3>2. BatchEnd(worker[w], size) \in Nat
      BY <2>0 DEF BatchEnd, Process
    <3>3. PICK got \in worker[w].start .. BatchEnd(worker[w], size) :
             worker' = [worker EXCEPT
                 ![w] = IF got = worker[w].start
                        THEN At("empty")
                        ELSE [@ EXCEPT !.pc = "persist", !.got = got,
                                       !.pos = worker[w].start]]
      BY <3>1 DEF Fetch
    <3>4. got \in Nat /\ worker[w].start \in Nat
      BY <2>0, <3>2, <3>3 DEF Process
    <3>5. [worker[w] EXCEPT !.pc = "persist", !.got = got,
                            !.pos = worker[w].start] \in Process
      BY <2>0, <3>4 DEF Process, PC, WorkPC
    <3>6. At("empty") \in Process
      BY AtType DEF PC
    <3>7. worker' \in [Worker -> Process]
      BY <2>0, <3>3, <3>5, <3>6
    <3>8. QED
      BY <3>1, <3>7 DEF Fetch, TypeOK
  <2>8. CASE PersistEntry(w)
    <3>1. /\ worker[w].pos \in Nat
          /\ worker[w].pos + 1 \in Nat
      BY <2>0 DEF Process
    <3>2. [worker[w] EXCEPT !.pos = worker[w].pos + 1] \in Process
      BY <2>0, <3>1 DEF Process
    <3>3. worker' \in [Worker -> Process]
      BY <2>0, <2>8, <3>2 DEF PersistEntry
    <3>4. QED
      BY <2>8, <3>1, <3>3 DEF PersistEntry, TypeOK
  <2>9. CASE Advance(w)
    <3>1. At("beat") \in Process /\ NextIndex(worker[w]) \in Nat
      BY <2>0, AtType DEF PC, NextIndex, Process
    <3>2. QED
      BY <2>0, <2>9, <3>1, WorkerType DEF Advance, TypeOK
  <2>10. CASE Heartbeat(w)
    <3>1. At("release") \in Process
      BY AtType DEF PC
    <3>2. lease' \in Lease
      BY <2>10 DEF Heartbeat, TypeOK, Lease
    <3>3. QED
      BY <2>0, <2>10, <3>1, <3>2, WorkerType DEF Heartbeat, TypeOK
  <2>11. CASE Die(w)
    <3>1. [At("release") EXCEPT !.dying = TRUE] \in Process
      BY AtType DEF PC
    <3>2. QED
      BY <2>0, <2>11, <3>1, WorkerType DEF Die, TypeOK
  <2>12. CASE Release(w)
    <3>1. /\ Down \in Process
          /\ [At("idle") EXCEPT !.backoff = worker[w].backoff] \in Process
      BY <2>0, AtType DEF PC, Process
    <3>2. lease' \in Lease
      BY <2>12 DEF Release, Released, FreeLease, TypeOK, Lease
    <3>3. worker' \in [Worker -> Process]
      BY <2>0, <2>12, <3>1 DEF Release
    <3>4. QED
      BY <2>12, <3>2, <3>3 DEF Release, TypeOK
  <2>13. QED
    BY <1>1, <2>1, <2>2, <2>3, <2>4, <2>5, <2>6, <2>7, <2>8, <2>9, <2>10,
       <2>11, <2>12 DEF WorkerStep
<1>2. CASE ResetProbe
  BY <1>2 DEF ResetProbe, TypeOK
<1>3. CASE ResetWrite
  <2>1. cursor \in Nat \cup {NoCursor} /\ resetTo \in Nat
    BY <1>3 DEF ResetWrite, TypeOK
  <2>2. disturbed' \in SUBSET {"slow", "reset"}
    BY <1>3 DEF ResetWrite, TypeOK, Disturb
  <2>3. CASE cursor = NoCursor
    BY <1>3, <2>2, <2>3 DEF ResetWrite, TypeOK
  <2>4. CASE cursor # NoCursor
    <3>1. cursor .. resetTo - 1 \in SUBSET Nat
      BY <2>1, <2>4
    <3>2. skipped' \in SUBSET Nat
      BY <1>3, <2>4, <3>1 DEF ResetWrite, TypeOK
    <3>3. QED
      BY <1>3, <2>1, <2>2, <2>4, <3>2 DEF ResetWrite, TypeOK
  <2>5. QED
    BY <2>3, <2>4
<1>4. CASE TreeGrows
  BY <1>4 DEF TreeGrows, TypeOK
<1>5. CASE LeaseExpires
  BY <1>5 DEF LeaseExpires, TypeOK, Lease, Disturb
<1>6. ASSUME NEW w \in Worker, Crash(w) \/ BackoffExpires(w)
      PROVE  TypeOK'
  BY <1>6, AtType, WorkerType DEF Crash, BackoffExpires, TypeOK, PC
<1>7. CASE UNCHANGED vars
  BY <1>7 DEF vars, TypeOK
<1>8. QED
  BY <1>1, <1>2, <1>3, <1>4, <1>5, <1>6, <1>7 DEF Next, Environment

(* The types hold in every state the tail can reach. *)
THEOREM TailTypeCorrect == Spec => []TypeOK
BY TypeInit, TypeStep, PTL DEF Spec

---------------------------------------------------------------------------
(* The lease *)

(* A step that leaves the lease alone and puts nobody to work. *)
LEMMA LeaseQuiet ==
    ASSUME WorkerHoldsLease, lease' = lease, disturbed \subseteq disturbed',
           \A w \in Worker : AtWork(w)' => AtWork(w)
    PROVE  WorkerHoldsLease'
BY DEF WorkerHoldsLease

(* A step of a worker, as seen by the others. *)
LEMMA OthersUntouched ==
    ASSUME TypeOK, NEW w \in Worker, WorkerStep(w)
    PROVE  \A v \in Worker \ {w} : worker'[v] = worker[v]
BY DEF TypeOK, WorkerStep, Start, Register, ClaimLease, Probe, RemoteFails,
       EnsureCursor, Fetch, PersistEntry, Advance, Heartbeat, Die, Release

LEMMA LeaseStep ==
    TypeOK /\ WorkerHoldsLease /\ [Next]_vars => WorkerHoldsLease'
<1> SUFFICES ASSUME TypeOK, WorkerHoldsLease, [Next]_vars
             PROVE  WorkerHoldsLease'
  OBVIOUS
<1> USE TailAssumption
<1>1. ASSUME NEW w \in Worker, WorkerStep(w)
      PROVE  WorkerHoldsLease'
  <2>0. /\ worker \in [Worker -> Process]
        /\ lease \in Lease
        /\ \A v \in Worker \ {w} : worker'[v] = worker[v]
        /\ disturbed' = disturbed
    BY <1>1, OthersUntouched
       DEF TypeOK, WorkerStep, Start, Register, ClaimLease, Probe, RemoteFails,
           EnsureCursor, Fetch, PersistEntry, Advance, Heartbeat, Die, Release
  <2>1. CASE ClaimLease(w)
    <3> SUFFICES ASSUME "slow" \notin disturbed, NEW v \in Worker, AtWork(v)'
                 PROVE  lease'.by = v /\ lease'.beat = "fresh"
      BY <2>0 DEF WorkerHoldsLease
    <3>1. lease' = [by |-> w, beat |-> "fresh"]
      BY <2>1 DEF ClaimLease
    <3>2. CASE v = w
      BY <3>1, <3>2
    <3>3. CASE v # w
      <4>1. AtWork(v)
        BY <2>0, <3>3 DEF AtWork
      <4>2. lease.by = v /\ lease.beat = "fresh"
        BY <4>1 DEF WorkerHoldsLease
      <4>3. QED
        BY <2>1, <3>3, <4>2 DEF ClaimLease, Claimable
    <3>4. QED
      BY <3>2, <3>3
  <2>2. CASE Heartbeat(w)
    <3>1. worker'[w].pc = "release"
      BY <2>0, <2>2 DEF Heartbeat, At
    <3>2. \A v \in Worker : AtWork(v)' => AtWork(v) /\ v # w
      BY <2>0, <3>1 DEF AtWork, WorkPC
    <3>3. \/ lease' = lease
          \/ lease.by = w /\ lease' = [lease EXCEPT !.beat = "fresh"]
      BY <2>2 DEF Heartbeat
    <3>4. QED
      BY <2>0, <3>2, <3>3 DEF WorkerHoldsLease, Lease
  <2>3. CASE Release(w)
    <3>1. worker'[w].pc \in {"down", "idle"}
      BY <2>0, <2>3 DEF Release, At, Down
    <3>2. \A v \in Worker : AtWork(v)' => AtWork(v) /\ v # w
      BY <2>0, <3>1 DEF AtWork, WorkPC
    <3>3. lease' = lease \/ lease.by = w
      BY <2>3 DEF Release, Released
    <3>4. QED
      BY <2>0, <3>2, <3>3 DEF WorkerHoldsLease
  <2>4. CASE /\ Probe(w) \/ EnsureCursor(w) \/ PersistEntry(w)
                \/ \E size \in BatchSizes : Fetch(w, size)
    <3>1. lease' = lease /\ AtWork(w)
      BY <2>4 DEF Probe, EnsureCursor, PersistEntry, Fetch, AtWork, WorkPC
    <3>2. \A v \in Worker : AtWork(v)' => AtWork(v)
      BY <2>0, <3>1 DEF AtWork
    <3>3. QED
      BY <2>0, <3>1, <3>2, LeaseQuiet
  <2>5. CASE \/ Start(w) \/ Register(w) \/ RemoteFails(w) \/ Advance(w)
             \/ Die(w)
    <3>1. lease' = lease
      BY <2>5 DEF Start, Register, RemoteFails, Advance, Die
    <3>2. worker'[w].pc \in {"start", "idle", "release", "beat"}
      BY <2>0, <2>5 DEF Start, Register, RemoteFails, Advance, Die, At, Down
    <3>3. \A v \in Worker : AtWork(v)' => AtWork(v)
      BY <2>0, <3>2 DEF AtWork, WorkPC
    <3>4. QED
      BY <2>0, <3>1, <3>3, LeaseQuiet
  <2>6. QED
    BY <1>1, <2>1, <2>2, <2>3, <2>4, <2>5 DEF WorkerStep
<1>2. CASE ResetProbe \/ ResetWrite \/ TreeGrows
  <2>1. /\ lease' = lease /\ worker' = worker
        /\ disturbed \subseteq disturbed'
    BY <1>2 DEF ResetProbe, ResetWrite, TreeGrows, Disturb
  <2>2. QED
    BY <2>1, LeaseQuiet DEF AtWork
<1>3. CASE LeaseExpires
  <2> SUFFICES ASSUME "slow" \notin disturbed', NEW v \in Worker, AtWork(v)
               PROVE  FALSE
    BY <1>3 DEF LeaseExpires, WorkerHoldsLease, AtWork
  <2>1. "slow" \notin disturbed /\ lease.by # v
    BY <1>3 DEF LeaseExpires, Disturb
  <2>2. QED
    BY <2>1 DEF WorkerHoldsLease
<1>4. ASSUME NEW w \in Worker, Crash(w) \/ BackoffExpires(w)
      PROVE  WorkerHoldsLease'
  <2>1. /\ lease' = lease /\ disturbed' = disturbed
        /\ worker'[w].pc \in {"down", "idle"}
        /\ \A v \in Worker \ {w} : worker'[v] = worker[v]
    BY <1>4 DEF Crash, BackoffExpires, TypeOK, At, Down
  <2>2. \A v \in Worker : AtWork(v)' => AtWork(v)
    BY <2>1 DEF AtWork, WorkPC
  <2>3. QED
    BY <2>1, <2>2, LeaseQuiet
<1>5. CASE UNCHANGED vars
  BY <1>5 DEF vars, WorkerHoldsLease, AtWork
<1>6. QED
  BY <1>1, <1>2, <1>3, <1>4, <1>5 DEF Next, Environment

(* Two workers at work would both hold the lease. *)
LEMMA LeaseExcludes == WorkerHoldsLease => OneAtWork
BY DEF WorkerHoldsLease, OneAtWork

---------------------------------------------------------------------------
(* The cursor *)

(* A step that leaves the cursor alone and starts no batch. *)
LEMMA CursorQuiet ==
    ASSUME BatchAtCursor, cursor' = cursor, disturbed \subseteq disturbed',
           \A w \in Worker : Reading(w)' =>
               Reading(w) /\ worker'[w].start = worker[w].start
    PROVE  BatchAtCursor'
BY DEF BatchAtCursor

LEMMA CursorStep ==
    /\ TypeOK /\ WorkerHoldsLease /\ BatchAtCursor
    /\ [Next]_vars
    => BatchAtCursor'
<1> SUFFICES ASSUME TypeOK, WorkerHoldsLease, BatchAtCursor, [Next]_vars
             PROVE  BatchAtCursor'
  OBVIOUS
<1>1. ASSUME NEW w \in Worker, WorkerStep(w)
      PROVE  BatchAtCursor'
  <2>0. /\ worker \in [Worker -> Process]
        /\ \A v \in Worker \ {w} : worker'[v] = worker[v]
        /\ disturbed' = disturbed
    BY <1>1, OthersUntouched
       DEF TypeOK, WorkerStep, Start, Register, ClaimLease, Probe, RemoteFails,
           EnsureCursor, Fetch, PersistEntry, Advance, Heartbeat, Die, Release
  <2>1. ASSUME AtWork(w), disturbed = {}, NEW v \in Worker \ {w}
        PROVE  ~ Reading(v)
    BY <2>1, LeaseExcludes DEF OneAtWork, Reading, AtWork, WorkPC
  <2>2. CASE EnsureCursor(w)
    <3> SUFFICES ASSUME disturbed = {}, NEW v \in Worker, Reading(v)'
                 PROVE  cursor' = worker'[v].start
      BY <2>0 DEF BatchAtCursor
    <3>1. v = w
      BY <2>0, <2>1, <2>2 DEF EnsureCursor, AtWork, WorkPC, Reading
    <3>2. CASE NothingNew(CursorFor(worker[w].seen), worker[w].seen)
      <4>1. worker'[w] = At("beat")
        BY <2>0, <2>2, <3>2 DEF EnsureCursor
      <4>2. QED
        BY <3>1, <4>1 DEF Reading, At, Down
    <3>3. CASE ~ NothingNew(CursorFor(worker[w].seen), worker[w].seen)
      <4>1. /\ cursor' = CursorFor(worker[w].seen)
            /\ worker'[w] = [worker[w] EXCEPT !.pc = "fetch",
                                              !.start = cursor']
        BY <2>0, <2>2, <3>3 DEF EnsureCursor
      <4>2. QED
        BY <2>0, <3>1, <4>1 DEF Process
    <3>4. QED
      BY <3>2, <3>3
  <2>3. CASE Advance(w)
    <3> SUFFICES ASSUME disturbed = {}, NEW v \in Worker, Reading(v)'
                 PROVE  FALSE
      BY <2>0 DEF BatchAtCursor
    <3>1. worker'[w].pc = "beat" /\ AtWork(w)
      BY <2>0, <2>3 DEF Advance, At, Down, AtWork, WorkPC
    <3>2. QED
      BY <2>0, <2>1, <3>1 DEF Reading
  <2>4. CASE \E size \in BatchSizes : Fetch(w, size)
    <3>1. cursor' = cursor /\ Reading(w)
      BY <2>4 DEF Fetch, Reading
    <3>2. PICK size \in BatchSizes : Fetch(w, size)
      BY <2>4
    <3>3. PICK got \in worker[w].start .. BatchEnd(worker[w], size) :
             worker' = [worker EXCEPT
                 ![w] = IF got = worker[w].start
                        THEN At("empty")
                        ELSE [@ EXCEPT !.pc = "persist", !.got = got,
                                       !.pos = worker[w].start]]
      BY <3>2 DEF Fetch
    <3>4. Reading(w)' => worker'[w].start = worker[w].start
      BY <2>0, <3>3 DEF Reading, At, Down, Process
    <3>5. QED
      BY <2>0, <3>1, <3>4, CursorQuiet DEF Reading
  <2>5. CASE PersistEntry(w)
    <3>1. /\ cursor' = cursor /\ Reading(w)
          /\ worker'[w].start = worker[w].start
      BY <2>0, <2>5 DEF PersistEntry, Reading, Process
    <3>2. QED
      BY <2>0, <3>1, CursorQuiet DEF Reading
  <2>6. CASE \/ Start(w) \/ Register(w) \/ ClaimLease(w) \/ Probe(w)
             \/ RemoteFails(w) \/ Heartbeat(w) \/ Die(w) \/ Release(w)
    <3>1. cursor' = cursor
      BY <2>6 DEF Start, Register, ClaimLease, Probe, RemoteFails, Heartbeat,
                  Die, Release
    <3>2. CASE Probe(w)
      <4>1. worker'[w].pc = "cursor"
        BY <2>0, <3>2 DEF Probe, Process
      <4>2. QED
        BY <2>0, <3>1, <4>1, CursorQuiet DEF Reading
    <3>3. CASE ~ Probe(w)
      <4>1. Start(w) \/ Register(w) \/ ClaimLease(w) \/ Heartbeat(w)
            => worker'[w].pc \in {"start", "idle", "probe", "release"}
        BY <2>0 DEF Start, Register, ClaimLease, Heartbeat, At, Down
      <4>2. RemoteFails(w) \/ Die(w) => worker'[w].pc = "release"
        BY <2>0 DEF RemoteFails, Die, At, Down
      <4>3. Release(w) => worker'[w].pc \in {"down", "idle"}
        BY <2>0 DEF Release, At, Down
      <4>4. QED
        BY <2>0, <2>6, <3>1, <3>3, <4>1, <4>2, <4>3, CursorQuiet DEF Reading
    <3>4. QED
      BY <3>2, <3>3
  <2>7. QED
    BY <1>1, <2>2, <2>3, <2>4, <2>5, <2>6 DEF WorkerStep
<1>2. CASE ResetWrite
  <2> SUFFICES ASSUME disturbed' = {}, NEW v \in Worker, Reading(v)
               PROVE  cursor' = worker[v].start
    BY <1>2 DEF ResetWrite, BatchAtCursor, Reading
  <2>1. disturbed = {} /\ cursor' = cursor
    BY <1>2 DEF ResetWrite, Disturb
  <2>2. QED
    BY <2>1 DEF BatchAtCursor
<1>3. CASE ResetProbe \/ TreeGrows \/ LeaseExpires
  <2>1. /\ cursor' = cursor /\ worker' = worker
        /\ disturbed \subseteq disturbed'
    BY <1>3 DEF ResetProbe, TreeGrows, LeaseExpires, Disturb
  <2>2. QED
    BY <2>1, CursorQuiet DEF Reading
<1>4. ASSUME NEW w \in Worker, Crash(w) \/ BackoffExpires(w)
      PROVE  BatchAtCursor'
  <2>1. /\ cursor' = cursor /\ disturbed' = disturbed
        /\ worker'[w].pc \in {"down", "idle"}
        /\ \A v \in Worker \ {w} : worker'[v] = worker[v]
    BY <1>4 DEF Crash, BackoffExpires, TypeOK, At, Down
  <2>2. QED
    BY <2>1, CursorQuiet DEF Reading
<1>5. CASE UNCHANGED vars
  BY <1>5, CursorQuiet DEF vars, Reading
<1>6. QED
  BY <1>1, <1>2, <1>3, <1>4, <1>5 DEF Next, Environment

---------------------------------------------------------------------------
(* Coverage *)

(* Outcomes and skipped indices stay. *)
LEMMA CoveredStays ==
    ASSUME outcomes \subseteq outcomes', skipped \subseteq skipped',
           NEW lo, NEW past, Covered(lo, past)
    PROVE  lo .. past - 1 \subseteq outcomes' \cup skipped'
BY DEF Covered

LEMMA CoveredJoin ==
    ASSUME NEW lo \in Nat, NEW mid \in Nat, NEW past \in Nat,
           Covered(lo, mid), Covered(mid, past)
    PROVE  Covered(lo, past)
<1> SUFFICES ASSUME NEW i \in lo .. past - 1
             PROVE  i \in outcomes \cup skipped
  BY DEF Covered
<1>1. i \in lo .. mid - 1 \/ i \in mid .. past - 1
  OBVIOUS
<1>2. QED
  BY <1>1 DEF Covered

AllBatchesCovered == \A w \in Worker : BatchCovered(w)

(* A step that leaves the cursor alone and under which a batch in hand is  *)
(* as it was. *)
LEMMA CoverQuiet ==
    ASSUME TailCovered, AllBatchesCovered, cursor' = cursor, base' = base,
           outcomes \subseteq outcomes', skipped \subseteq skipped',
           \A w \in Worker : Reading(w)' => worker'[w] = worker[w]
    PROVE  TailCovered' /\ AllBatchesCovered'
<1>1. TailCovered'
  BY CoveredStays DEF TailCovered, Covered
<1>2. ASSUME NEW w \in Worker, Reading(w)'
      PROVE  BatchCovered(w)'
  <2>1. worker'[w] = worker[w] /\ Reading(w) /\ BatchCovered(w)
    BY <1>2 DEF Reading, AllBatchesCovered
  <2>2. QED
    BY <1>2, <2>1, CoveredStays DEF BatchCovered, Covered, Reading
<1>3. QED
  BY <1>1, <1>2 DEF AllBatchesCovered, BatchCovered

LEMMA CoverStep ==
    /\ TypeOK /\ TailCovered /\ AllBatchesCovered
    /\ [Next]_vars
    => TailCovered' /\ AllBatchesCovered'
<1> SUFFICES ASSUME TypeOK, TailCovered, AllBatchesCovered, [Next]_vars
             PROVE  TailCovered' /\ AllBatchesCovered'
  OBVIOUS
<1> USE TailAssumption
<1>0. /\ worker \in [Worker -> Process]
      /\ cursor \in Nat \cup {NoCursor} /\ base \in Nat
  BY DEF TypeOK
<1>1. ASSUME NEW w \in Worker, WorkerStep(w)
      PROVE  TailCovered' /\ AllBatchesCovered'
  <2>0. \A v \in Worker \ {w} : worker'[v] = worker[v]
    BY <1>1, OthersUntouched
  <2> DEFINE p == worker[w]
  <2>1. CASE EnsureCursor(w)
    <3> DEFINE next == CursorFor(p.seen)
    <3>1. /\ cursor' = next /\ next \in Nat
          /\ base' = IF cursor = NoCursor THEN next ELSE base
          /\ outcomes' = outcomes /\ skipped' = skipped
      BY <1>0, <2>1
         DEF EnsureCursor, CursorFor, FirstIndex, Process, NoCursor
    <3>2. Covered(base, cursor)' /\ cursor' # NoCursor
      <4>1. CASE cursor = NoCursor
        BY <3>1, <4>1 DEF Covered, NoCursor
      <4>2. CASE cursor # NoCursor
        BY <3>1, <4>2 DEF Covered, TailCovered, CursorFor
      <4>3. QED
        BY <3>1, <4>1, <4>2 DEF NoCursor
    <3>3. ASSUME NEW v \in Worker, Reading(v)'
          PROVE  BatchCovered(v)'
      <4>1. CASE v = w
        <5>1. worker'[w] = IF NothingNew(next, p.seen)
                           THEN At("beat")
                           ELSE [p EXCEPT !.pc = "fetch", !.start = next]
          BY <1>0, <2>1 DEF EnsureCursor
        <5>2. worker'[w].pc = "fetch" /\ worker'[w].start = cursor'
          BY <1>0, <3>1, <3>3, <4>1, <5>1 DEF Reading, At, Down, Process
        <5>3. QED
          BY <3>2, <4>1, <5>2 DEF BatchCovered, Covered
      <4>2. CASE v # w
        <5>1. worker'[v] = worker[v] /\ Reading(v) /\ BatchCovered(v)
          BY <2>0, <3>3, <4>2 DEF Reading, AllBatchesCovered
        <5>2. cursor # NoCursor /\ base' = base
          BY <3>1, <5>1 DEF BatchCovered
        <5>3. QED
          BY <3>1, <3>2, <5>1, <5>2 DEF BatchCovered, Covered, Reading
      <4>3. QED
        BY <4>1, <4>2
    <3>4. QED
      BY <3>2, <3>3 DEF TailCovered, AllBatchesCovered, BatchCovered
  <2>2. CASE \E size \in BatchSizes : Fetch(w, size)
    <3>1. /\ cursor' = cursor /\ base' = base
          /\ outcomes' = outcomes /\ skipped' = skipped
          /\ Reading(w)
      BY <2>2 DEF Fetch, Reading
    <3>2. PICK size \in BatchSizes : Fetch(w, size)
      BY <2>2
    <3>3. PICK got \in p.start .. BatchEnd(p, size) :
             worker' = [worker EXCEPT
                 ![w] = IF got = p.start
                        THEN At("empty")
                        ELSE [@ EXCEPT !.pc = "persist", !.got = got,
                                       !.pos = p.start]]
      BY <3>2 DEF Fetch
    <3>4. p.start \in Nat /\ got \in Int /\ p.start <= got
      BY <1>0, <3>3 DEF Process
    <3>5. ASSUME NEW v \in Worker, Reading(v)'
          PROVE  BatchCovered(v)'
      <4>1. CASE v = w
        <5>1. /\ worker'[w].start = p.start /\ worker'[w].pos = p.start
              /\ worker'[w].got = got
          BY <1>0, <3>3, <3>5, <4>1 DEF Reading, At, Down, Process
        <5>2. cursor # NoCursor /\ Covered(base, p.start)
          BY <3>1 DEF AllBatchesCovered, BatchCovered
        <5>3. QED
          BY <3>1, <3>4, <4>1, <5>1, <5>2 DEF BatchCovered, Covered
      <4>2. CASE v # w
        <5>1. worker'[v] = worker[v] /\ Reading(v) /\ BatchCovered(v)
          BY <2>0, <3>5, <4>2 DEF Reading, AllBatchesCovered
        <5>2. QED
          BY <3>1, <5>1 DEF BatchCovered, Covered, Reading
      <4>3. QED
        BY <4>1, <4>2
    <3>6. TailCovered'
      BY <3>1 DEF TailCovered, Covered
    <3>7. QED
      BY <3>5, <3>6 DEF AllBatchesCovered, BatchCovered
  <2>3. CASE PersistEntry(w)
    <3>1. /\ cursor' = cursor /\ base' = base
          /\ outcomes' = outcomes \cup {p.pos} /\ skipped' = skipped
          /\ Reading(w) /\ p.pos < p.got /\ p.pc = "persist"
      BY <2>3 DEF PersistEntry, Reading
    <3>2. worker'[w] = [p EXCEPT !.pos = p.pos + 1]
      BY <1>0, <2>3 DEF PersistEntry
    <3>3. ASSUME NEW v \in Worker, Reading(v)'
          PROVE  BatchCovered(v)'
      <4>1. CASE v = w
        <5>1. /\ worker'[w].start = p.start /\ worker'[w].pos = p.pos + 1
              /\ worker'[w].got = p.got
              /\ p.start \in Nat /\ p.pos \in Nat /\ p.got \in Nat
          BY <1>0, <3>2 DEF Process
        <5>2. /\ cursor # NoCursor /\ Covered(base, p.start)
              /\ p.start <= p.pos /\ Covered(p.start, p.pos)
          BY <3>1 DEF AllBatchesCovered, BatchCovered
        <5>3. Covered(base, p.start)'
              /\ p.start .. p.pos \subseteq outcomes' \cup skipped'
          BY <1>0, <3>1, <3>2, <5>1, <5>2 DEF Covered, Process
        <5>4. QED
          BY <3>1, <4>1, <5>1, <5>2, <5>3 DEF BatchCovered, Covered
      <4>2. CASE v # w
        <5>1. worker'[v] = worker[v] /\ Reading(v) /\ BatchCovered(v)
          BY <2>0, <3>3, <4>2 DEF Reading, AllBatchesCovered
        <5>2. QED
          BY <3>1, <5>1 DEF BatchCovered, Covered, Reading
      <4>3. QED
        BY <4>1, <4>2
    <3>4. TailCovered'
      BY <3>1 DEF TailCovered, Covered
    <3>5. QED
      BY <3>3, <3>4 DEF AllBatchesCovered, BatchCovered
  <2>4. CASE Advance(w)
    <3>1. /\ cursor' = p.got /\ base' = base
          /\ outcomes' = outcomes /\ skipped' = skipped
          /\ Reading(w) /\ p.pc = "persist" /\ p.pos = p.got
          /\ p.start \in Nat /\ p.got \in Nat
      BY <1>0, <2>4 DEF Advance, NextIndex, Reading, Process
    <3>2. worker'[w].pc = "beat"
      BY <1>0, <2>4 DEF Advance, At, Down
    <3>3. Covered(base, p.start) /\ Covered(p.start, p.got)
      BY <3>1 DEF AllBatchesCovered, BatchCovered
    <3>4. Covered(base, p.got)
      BY <1>0, <3>1, <3>3, CoveredJoin
    <3>5. TailCovered'
      BY <3>1, <3>4 DEF TailCovered, Covered
    <3>6. ASSUME NEW v \in Worker, Reading(v)'
          PROVE  BatchCovered(v)'
      <4>1. worker'[v] = worker[v] /\ Reading(v) /\ BatchCovered(v)
        BY <2>0, <3>2, <3>6 DEF Reading, AllBatchesCovered
      <4>2. QED
        BY <3>1, <4>1 DEF BatchCovered, Covered, Reading, NoCursor
    <3>7. QED
      BY <3>5, <3>6 DEF AllBatchesCovered, BatchCovered
  <2>5. CASE \/ Start(w) \/ Register(w) \/ ClaimLease(w) \/ Probe(w)
             \/ RemoteFails(w) \/ Heartbeat(w) \/ Die(w) \/ Release(w)
    <3>1. /\ cursor' = cursor /\ base' = base
          /\ outcomes' = outcomes /\ skipped' = skipped
      BY <2>5 DEF Start, Register, ClaimLease, Probe, RemoteFails, Heartbeat,
                  Die, Release
    <3>2. Start(w) \/ Register(w) \/ ClaimLease(w) \/ Heartbeat(w)
          => worker'[w].pc \in {"start", "idle", "probe", "release"}
      BY <1>0 DEF Start, Register, ClaimLease, Heartbeat, At, Down
    <3>3. RemoteFails(w) \/ Die(w) => worker'[w].pc = "release"
      BY <1>0 DEF RemoteFails, Die, At, Down
    <3>4. Release(w) => worker'[w].pc \in {"down", "idle"}
      BY <1>0 DEF Release, At, Down
    <3>5. Probe(w) => worker'[w].pc = "cursor"
      BY <1>0 DEF Probe, Process
    <3>6. ~ Reading(w)'
      BY <2>5, <3>2, <3>3, <3>4, <3>5 DEF Reading
    <3>7. QED
      BY <2>0, <3>1, <3>6, CoverQuiet
  <2>6. QED
    BY <1>1, <2>1, <2>2, <2>3, <2>4, <2>5 DEF WorkerStep
<1>2. CASE ResetWrite
  <2>1. /\ worker' = worker /\ base' = base /\ outcomes' = outcomes
        /\ skipped \subseteq skipped' /\ resetTo \in Nat
    BY <1>2 DEF ResetWrite, TypeOK
  <2>2. CASE cursor = NoCursor
    <3>1. cursor' = cursor
      BY <1>2, <2>2 DEF ResetWrite
    <3>2. QED
      BY <2>1, <3>1, CoverQuiet DEF Reading
  <2>3. CASE cursor # NoCursor
    <3>1. /\ cursor' = resetTo
          /\ skipped' = skipped \cup (cursor .. resetTo - 1)
      BY <1>2, <2>3 DEF ResetWrite
    <3>2. TailCovered'
      <4> SUFFICES ASSUME NEW i \in base .. resetTo - 1
                   PROVE  i \in outcomes \cup skipped'
        BY <2>1, <3>1 DEF TailCovered, Covered
      <4>1. i \in base .. cursor - 1 \/ i \in cursor .. resetTo - 1
        BY <1>0, <2>1, <2>3
      <4>2. QED
        BY <2>3, <3>1, <4>1 DEF TailCovered, Covered
    <3>3. ASSUME NEW v \in Worker, Reading(v)
          PROVE  BatchCovered(v)'
      <4>1. BatchCovered(v) /\ cursor' # NoCursor
        BY <2>1, <3>1 DEF AllBatchesCovered, NoCursor
      <4>2. QED
        BY <2>1, <3>3, <4>1 DEF BatchCovered, Covered, Reading
    <3>4. QED
      BY <2>1, <3>2, <3>3 DEF AllBatchesCovered, BatchCovered, Reading
  <2>4. QED
    BY <2>2, <2>3
<1>3. CASE ResetProbe \/ TreeGrows \/ LeaseExpires
  <2>1. /\ cursor' = cursor /\ base' = base /\ worker' = worker
        /\ outcomes' = outcomes /\ skipped' = skipped
    BY <1>3 DEF ResetProbe, TreeGrows, LeaseExpires
  <2>2. QED
    BY <2>1, CoverQuiet
<1>4. ASSUME NEW w \in Worker, Crash(w) \/ BackoffExpires(w)
      PROVE  TailCovered' /\ AllBatchesCovered'
  <2>1. /\ cursor' = cursor /\ base' = base
        /\ outcomes' = outcomes /\ skipped' = skipped
        /\ worker'[w].pc \in {"down", "idle"}
        /\ \A v \in Worker \ {w} : worker'[v] = worker[v]
    BY <1>0, <1>4 DEF Crash, BackoffExpires, At, Down
  <2>2. QED
    BY <2>1, CoverQuiet DEF Reading
<1>5. CASE UNCHANGED vars
  BY <1>5, CoverQuiet DEF vars
<1>6. QED
  BY <1>1, <1>2, <1>3, <1>4, <1>5 DEF Next, Environment

---------------------------------------------------------------------------
(* The theorems *)

LEMMA TailInvInit == Init => TailInv
<1> SUFFICES ASSUME Init PROVE TailInv
  OBVIOUS
<1>1. \A w \in Worker : worker[w].pc = "down"
  BY DEF Init, Down
<1>2. TypeOK
  BY TypeInit
<1>3. QED
  BY <1>1, <1>2 DEF Init, TailInv, TailCovered, BatchCovered, WorkerHoldsLease,
                    BatchAtCursor, Reading, AtWork, WorkPC

LEMMA TailInvStep == TailInv /\ [Next]_vars => TailInv'
BY TypeStep, LeaseStep, CursorStep, CoverStep DEF TailInv, AllBatchesCovered

(* What the memory of a worker and its lease are worth in every state. *)
THEOREM TailInvariant == Spec => []TailInv
BY TailInvInit, TailInvStep, PTL DEF Spec

(* Nothing below the cursor is missing, however many workers run and       *)
(* whatever becomes of their leases. *)
THEOREM TailNeverSkips == Spec => []TailCovered
<1>1. TailInv => TailCovered
  BY DEF TailInv
<1>2. QED
  BY <1>1, TailInvariant, PTL

(* The lease keeps workers apart as long as no batch outlives it. *)
THEOREM LeaseSeparates == Spec => []OneAtWork
<1>1. TailInv => OneAtWork
  BY LeaseExcludes DEF TailInv
<1>2. QED
  BY <1>1, TailInvariant, PTL

LEMMA ForwardStep ==
    TailInv /\ [Next]_vars => (disturbed' = {} => cursor' >= cursor)
<1> SUFFICES ASSUME TailInv, [Next]_vars, disturbed' = {}
             PROVE  cursor' >= cursor
  OBVIOUS
<1>0. /\ worker \in [Worker -> Process] /\ cursor \in Nat \cup {NoCursor}
  BY DEF TailInv, TypeOK
<1>1. ASSUME NEW w \in Worker, WorkerStep(w)
      PROVE  cursor' >= cursor
  <2>1. CASE EnsureCursor(w)
    BY <1>0, <2>1, TailAssumption
       DEF EnsureCursor, CursorFor, FirstIndex, NoCursor, Process
  <2>2. CASE Advance(w)
    <3>1. disturbed = {} /\ Reading(w) /\ worker[w].pc = "persist"
      BY <2>2 DEF Advance, Reading
    <3>2. cursor = worker[w].start /\ worker[w].start <= worker[w].pos
      BY <3>1 DEF TailInv, BatchAtCursor, BatchCovered
    <3>3. QED
      BY <1>0, <2>2, <3>2 DEF Advance, NextIndex
  <2>3. CASE ~ EnsureCursor(w) /\ ~ Advance(w)
    <3>1. cursor' = cursor
      BY <1>1, <2>3 DEF WorkerStep, Start, Register, ClaimLease, Probe,
         RemoteFails, Fetch, PersistEntry, Heartbeat, Die, Release
    <3>2. QED
      BY <1>0, <3>1 DEF NoCursor
  <2>4. QED
    BY <2>1, <2>2, <2>3
<1>2. CASE ResetWrite
  <2>1. resetTo \in Nat
    BY <1>2 DEF ResetWrite, TailInv, TypeOK
  <2>2. cursor # NoCursor => ~ (resetTo < cursor)
    BY <1>2 DEF ResetWrite, Disturb
  <2>3. QED
    BY <1>0, <1>2, <2>1, <2>2 DEF ResetWrite, NoCursor
<1>3. CASE ResetProbe \/ TreeGrows \/ LeaseExpires \/ UNCHANGED vars
  <2>1. cursor' = cursor
    BY <1>3 DEF ResetProbe, TreeGrows, LeaseExpires, vars
  <2>2. QED
    BY <1>0, <2>1 DEF NoCursor
<1>4. ASSUME NEW w \in Worker, Crash(w) \/ BackoffExpires(w)
      PROVE  cursor' >= cursor
  BY <1>0, <1>4 DEF Crash, BackoffExpires, NoCursor
<1>5. QED
  BY <1>1, <1>2, <1>3, <1>4 DEF Next, Environment

(* A step that moves the cursor back is a reset, or follows a batch that   *)
(* has outlived its lease or was crossed by a reset. *)
THEOREM CursorMovesForward == Spec => CursorForward
<1>1. TailInv /\ [Next]_vars => [disturbed' = {} => cursor' >= cursor]_vars
  BY ForwardStep
<1>2. QED
  BY <1>1, TailInvariant, PTL DEF Spec, CursorForward
=============================================================================
