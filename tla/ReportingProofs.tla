---------------------------- MODULE ReportingProofs ----------------------------
(***************************************************************************)
(* Theorems of what is reported: a response made of a snapshot is as fresh *)
(* as its age says, a certificate is counted once, the two projections     *)
(* agree and are honest about what is done, and a search that is paged     *)
(* through returns every hostname once.                                    *)
(***************************************************************************)
EXTENDS StatsSnapshots, IngestionMetrics, StorageProjection, HostnamePaging,
        FiniteData, SequenceTheorems

---------------------------------------------------------------------------
(* The snapshots of the statistics *)

(* No row was generated, and no request has begun or looked, after now. *)
NothingAhead ==
    /\ \A x \in snapshots : x <= seconds
    /\ \A v \in Viewer : request[v].begun <= seconds /\ request[v].looked <= seconds

(* The row whose age a request has read, or one that is younger, is there; *)
(* and so is one that was recent enough when it looked. *)
AgesWarranted ==
    \A v \in Viewer :
        /\ request[v].pc \in {"look", "fetch"} /\ request[v].age # Unknown =>
               \E x \in snapshots : x >= request[v].begun - request[v].age
        /\ request[v].pc = "fetch" =>
               \E x \in snapshots : x >= request[v].looked - MaxAge

(* Only a request that is done has a payload, and its mark is that of the  *)
(* age. *)
ResponsesFresh ==
    \A v \in Viewer :
        /\ request[v].pc # "done" => request[v].source = "none"
        /\ request[v].source = "snapshot" =>
              /\ request[v].payload >= request[v].looked - MaxAge
              /\ request[v].age # Unknown =>
                    request[v].payload >= request[v].begun - request[v].age
              /\ request[v].stale = Marked(request[v])

SnapshotsInv == SnapshotsTypeOK /\ NothingAhead /\ AgesWarranted /\ ResponsesFresh

Request == [pc : {"idle", "look", "fetch", "live", "done"},
            begun : Time, age : Time \cup {Unknown}, looked : Time,
            source : {"none", "live", "snapshot"},
            payload : Time \cup {Unknown}, stale : BOOLEAN]

---------------------------------------------------------------------------
LEMMA IdleIsRequest == Idle \in Request
  BY SnapshotsAssumption DEF Idle, Request, Time

(* What a step of one request owes to the invariant. *)
LEMMA OneRequest ==
    ASSUME SnapshotsInv, NEW v \in Viewer, NEW r \in Request, Requests(v, r),
           r.begun <= seconds, r.looked <= seconds,
           r.pc \in {"look", "fetch"} /\ r.age # Unknown =>
               \E x \in snapshots : x >= r.begun - r.age,
           r.pc = "fetch" => \E x \in snapshots : x >= r.looked - MaxAge,
           r.pc # "done" => r.source = "none",
           r.source = "snapshot" =>
               /\ r.payload >= r.looked - MaxAge
               /\ r.age # Unknown => r.payload >= r.begun - r.age
               /\ r.stale = Marked(r)
    PROVE  SnapshotsInv'
<1>1. request \in [Viewer -> Request]
  BY DEF SnapshotsInv, SnapshotsTypeOK, Request
<1>2. /\ request'[v] = r /\ \A u \in Viewer \ {v} : request'[u] = request[u]
      /\ request' \in [Viewer -> Request]
      /\ UNCHANGED <<seconds, snapshots, taking>>
  BY <1>1 DEF Requests
<1>3. SnapshotsTypeOK'
  BY <1>2 DEF SnapshotsInv, SnapshotsTypeOK, Request
<1>4. NothingAhead'
  BY <1>2 DEF SnapshotsInv, NothingAhead
<1>5. AgesWarranted'
  BY <1>2 DEF SnapshotsInv, AgesWarranted
<1>6. ResponsesFresh'
  BY <1>2 DEF SnapshotsInv, ResponsesFresh, Marked
<1>. QED
  BY <1>3, <1>4, <1>5, <1>6 DEF SnapshotsInv

(* Every step of the takers, of the requests and of time keeps it. *)
LEMMA SnapshotsStep ==
    ASSUME SnapshotsInv, [SnapshotsNext]_snapshotVars
    PROVE  SnapshotsInv'
<1>0. /\ request \in [Viewer -> Request]
      /\ seconds \in Nat /\ seconds \in Time
      /\ snapshots \subseteq Time /\ taking \subseteq Taker
      /\ \A x \in snapshots : x <= seconds
  BY SnapshotsAssumption DEF SnapshotsInv, SnapshotsTypeOK, Request, Time, NothingAhead
<1>. USE SnapshotsAssumption DEF Time, Unknown
<1>1. ASSUME NEW s \in Taker, BeginTake(s) \/ TakeFails(s)
      PROVE  SnapshotsInv'
  BY <1>1 DEF BeginTake, TakeFails, SnapshotsInv, SnapshotsTypeOK, NothingAhead,
              AgesWarranted, ResponsesFresh, Marked
<1>2. ASSUME NEW s \in Taker, InsertSnapshot(s)
      PROVE  SnapshotsInv'
  <2>1. /\ snapshots' = Kept(snapshots \cup {seconds})
        /\ taking' = taking \ {s}
        /\ UNCHANGED <<seconds, request>>
    BY <1>2 DEF InsertSnapshot
  <2>2. /\ seconds \in snapshots' /\ snapshots' \subseteq snapshots \cup {seconds}
        /\ UNCHANGED <<seconds, request>>
    BY <1>0, <2>1 DEF Kept
  <2>5. ASSUME NEW n \in Int, \E x \in snapshots : x >= n
        PROVE  \E x \in snapshots' : x >= n
    <3>1. seconds >= n
      BY <1>0, <2>5
    <3>. QED
      BY <2>2, <3>1
  <2>6. ASSUME NEW v \in Viewer
        PROVE  /\ request[v].age # Unknown => request[v].begun - request[v].age \in Int
               /\ request[v].looked - MaxAge \in Int
    <3>1. request[v] \in Request
      BY <1>0
    <3>. QED
      BY <3>1 DEF Request
  <2>7. AgesWarranted'
    BY <2>2, <2>5, <2>6 DEF SnapshotsInv, AgesWarranted
  <2>8. SnapshotsTypeOK'
    BY <1>0, <2>1, <2>2 DEF SnapshotsInv, SnapshotsTypeOK
  <2>10. NothingAhead'
    BY <1>0, <2>2 DEF SnapshotsInv, NothingAhead
  <2>9. ResponsesFresh'
    BY <2>2 DEF SnapshotsInv, ResponsesFresh, Marked
  <2>. QED
    BY <2>7, <2>8, <2>9, <2>10 DEF SnapshotsInv
<1>3. ASSUME NEW v \in Viewer, ReadAge(v)
      PROVE  SnapshotsInv'
  <2>1. PICK age \in Ages :
            Requests(v, [Idle EXCEPT !.pc = "look", !.begun = seconds, !.age = age])
    BY <1>3 DEF ReadAge
  <2>. DEFINE r == [Idle EXCEPT !.pc = "look", !.begun = seconds, !.age = age]
  <2>2. age # Unknown => \E x \in snapshots : x >= seconds - age
    <3>1. CASE age # Unknown
      <4>1. PICK x \in Latest : age = seconds - x
        BY <3>1 DEF Ages
      <4>2. x \in snapshots /\ x >= seconds - age
        BY <1>0, <4>1 DEF Latest
      <4>. QED
        BY <4>2
    <3>. QED
      BY <3>1
  <2>3. age \in Time \cup {Unknown}
    BY <1>0 DEF Ages, Latest
  <2>4. r \in Request
    BY <1>0, <2>3, IdleIsRequest DEF Request, Idle
  <2>5. /\ r.pc = "look" /\ r.begun = seconds /\ r.age = age /\ r.looked = 0
        /\ r.source = "none"
    BY DEF Idle
  <2>6. Requests(v, r)
    BY <2>1
  <2>. HIDE DEF r
  <2>. QED
    BY <1>0, <2>2, <2>4, <2>5, <2>6, OneRequest
<1>4. ASSUME NEW v \in Viewer, Look(v)
      PROVE  SnapshotsInv'
  <2>1. PICK age \in Ages :
            Requests(v, [request[v] EXCEPT
                !.pc = IF age = Unknown \/ age > MaxAge THEN "live" ELSE "fetch",
                !.looked = seconds])
    BY <1>4 DEF Look
  <2>. DEFINE r == [request[v] EXCEPT
                !.pc = IF age = Unknown \/ age > MaxAge THEN "live" ELSE "fetch",
                !.looked = seconds]
  <2>2. request[v] \in Request /\ request[v].pc = "look"
    BY <1>0, <1>4 DEF Look
  <2>3. /\ r \in Request
        /\ r.pc = IF age = Unknown \/ age > MaxAge THEN "live" ELSE "fetch"
        /\ r.looked = seconds /\ r.begun = request[v].begun
        /\ r.age = request[v].age /\ r.source = request[v].source
    BY <1>0, <2>2 DEF Request
  <2>4. r.pc = "fetch" => \E x \in snapshots : x >= r.looked - MaxAge
    BY <1>0, <2>3 DEF Ages, Latest
  <2>5. /\ r.begun <= seconds /\ r.source = "none"
        /\ r.age # Unknown => \E x \in snapshots : x >= r.begun - r.age
    BY <2>2, <2>3 DEF SnapshotsInv, NothingAhead, AgesWarranted, ResponsesFresh
  <2>6. Requests(v, r)
    BY <2>1
  <2>. HIDE DEF r
  <2>. QED
    BY <1>0, <2>3, <2>4, <2>5, <2>6, OneRequest
<1>5. ASSUME NEW v \in Viewer, FetchPayload(v)
      PROVE  SnapshotsInv'
  <2>0. request[v] \in Request /\ request[v].pc = "fetch"
    BY <1>0, <1>5 DEF FetchPayload
  <2>1. ASSUME NEW x \in LatestPayload,
               Requests(v, [request[v] EXCEPT
                   !.pc = "done", !.source = "snapshot", !.payload = x,
                   !.stale = Marked(request[v])])
        PROVE  SnapshotsInv'
    <3>. DEFINE r == [request[v] EXCEPT
                   !.pc = "done", !.source = "snapshot", !.payload = x,
                   !.stale = Marked(request[v])]
    <3>1. /\ r \in Request
          /\ r.pc = "done" /\ r.payload = x /\ r.stale = Marked(request[v])
          /\ r.looked = request[v].looked /\ r.begun = request[v].begun
          /\ r.age = request[v].age
      BY <1>0, <2>0 DEF Request, LatestPayload, Latest, Marked
    <3>2. /\ x >= request[v].looked - MaxAge
          /\ request[v].age # Unknown => x >= request[v].begun - request[v].age
      <4>1. \A y \in snapshots : y <= x
        BY DEF LatestPayload, Latest
      <4>2. PICK y \in snapshots : y >= request[v].looked - MaxAge
        BY <2>0 DEF SnapshotsInv, AgesWarranted
      <4>3. CASE request[v].age # Unknown
        <5>1. PICK z \in snapshots : z >= request[v].begun - request[v].age
          BY <2>0, <4>3 DEF SnapshotsInv, AgesWarranted
        <5>. QED
          BY <1>0, <2>0, <4>1, <4>2, <5>1 DEF Request, LatestPayload, Latest
      <4>4. CASE request[v].age = Unknown
        BY <1>0, <2>0, <4>1, <4>2, <4>4 DEF Request, LatestPayload, Latest
      <4>. QED
        BY <4>3, <4>4
    <3>3. r.begun <= seconds /\ r.looked <= seconds
      BY <3>1 DEF SnapshotsInv, NothingAhead
    <3>4. Marked(r) = Marked(request[v])
      BY <3>1 DEF Marked
    <3>5. Requests(v, r)
      BY <2>1
    <3>. HIDE DEF r
    <3>. QED
      BY <3>1, <3>2, <3>3, <3>4, <3>5, OneRequest
  <2>2. CASE Requests(v, [request[v] EXCEPT !.pc = "live"])
    <3>. DEFINE r == [request[v] EXCEPT !.pc = "live"]
    <3>1. /\ r \in Request
          /\ r.pc = "live" /\ r.source = request[v].source
          /\ r.looked = request[v].looked /\ r.begun = request[v].begun
      BY <2>0 DEF Request
    <3>2. /\ r.begun <= seconds /\ r.looked <= seconds
          /\ r.source = "none"
      BY <2>0, <3>1 DEF SnapshotsInv, NothingAhead, ResponsesFresh
    <3>3. Requests(v, r)
      BY <2>2
    <3>. HIDE DEF r
    <3>. QED
      BY <3>1, <3>2, <3>3, OneRequest
  <2>. QED
    BY <1>5, <2>1, <2>2 DEF FetchPayload
<1>6. ASSUME NEW v \in Viewer, ServeLive(v)
      PROVE  SnapshotsInv'
  <2>. DEFINE r == [request[v] EXCEPT
           !.pc = "done",
           !.source = IF request[v].age = Unknown THEN "none" ELSE "live",
           !.stale = Marked(request[v])]
  <2>1. request[v] \in Request /\ Requests(v, r)
    BY <1>0, <1>6 DEF ServeLive
  <2>2. /\ r \in Request /\ r.pc = "done" /\ r.source # "snapshot"
        /\ r.looked = request[v].looked /\ r.begun = request[v].begun
    BY <2>1 DEF Request, Marked
  <2>3. r.begun <= seconds /\ r.looked <= seconds
    BY <2>2 DEF SnapshotsInv, NothingAhead
  <2>. HIDE DEF r
  <2>. QED
    BY <2>1, <2>2, <2>3, OneRequest
<1>7. ASSUME NEW v \in Viewer, Answered(v)
      PROVE  SnapshotsInv'
  <2>1. /\ Idle.pc = "idle" /\ Idle.begun = 0 /\ Idle.looked = 0
        /\ Idle.source = "none"
    BY DEF Idle
  <2>. QED
    BY <1>0, <1>7, <2>1, IdleIsRequest, OneRequest DEF Answered
<1>8. CASE Later
  <2>1. /\ seconds' = seconds + 1 /\ seconds' \in Time
        /\ UNCHANGED <<snapshots, taking, request>>
    BY <1>0, <1>8 DEF Later
  <2>2. SnapshotsTypeOK'
    BY <2>1 DEF SnapshotsInv, SnapshotsTypeOK
  <2>3. NothingAhead'
    BY <1>0, <2>1 DEF SnapshotsInv, NothingAhead, Request
  <2>4. AgesWarranted' /\ ResponsesFresh'
    BY <2>1 DEF SnapshotsInv, AgesWarranted, ResponsesFresh, Marked
  <2>. QED
    BY <2>2, <2>3, <2>4 DEF SnapshotsInv
<1>9. CASE UNCHANGED snapshotVars
  BY <1>9 DEF snapshotVars, SnapshotsInv, SnapshotsTypeOK, NothingAhead,
              AgesWarranted, ResponsesFresh, Marked
<1>. QED
  BY <1>1, <1>2, <1>3, <1>4, <1>5, <1>6, <1>7, <1>8, <1>9 DEF SnapshotsNext

LEMMA SnapshotsInvariant == SnapshotsSpec => []SnapshotsInv
<1>1. SnapshotsInit => SnapshotsInv
  <2>. SUFFICES ASSUME SnapshotsInit PROVE SnapshotsInv
    OBVIOUS
  <2>1. SnapshotsTypeOK
    BY SnapshotsAssumption, IdleIsRequest DEF SnapshotsInit, SnapshotsTypeOK, Request, Time
  <2>. QED
    BY <2>1 DEF SnapshotsInit, SnapshotsInv, NothingAhead, AgesWarranted,
                ResponsesFresh, Idle
<1> QED
  BY <1>1, SnapshotsStep, PTL DEF SnapshotsSpec

(* A payload that is served is as fresh as the response says, for any      *)
(* number of takers and requests, any limits and any order of their        *)
(* statements. *)
THEOREM ServedIsFresh == SnapshotsSpec => []ServedFresh
<1>1. SnapshotsInv => ServedFresh
  <2>. SUFFICES ASSUME SnapshotsInv, NEW v \in Viewer, request[v].source = "snapshot"
                PROVE  /\ request[v].payload >= request[v].looked - MaxAge
                       /\ request[v].age # Unknown =>
                            /\ request[v].payload >= request[v].begun - request[v].age
                            /\ ~ request[v].stale =>
                                  request[v].payload >= request[v].begun - StaleAfter
    BY DEF ServedFresh
  <2>1. /\ request[v].begun \in Int /\ request[v].age \in Int
        /\ request[v].payload \in Int
    BY SnapshotsAssumption DEF SnapshotsInv, SnapshotsTypeOK, Time, Unknown
  <2>2. /\ request[v].payload >= request[v].looked - MaxAge
        /\ request[v].age # Unknown =>
               request[v].payload >= request[v].begun - request[v].age
        /\ request[v].stale = Marked(request[v])
    BY DEF SnapshotsInv, ResponsesFresh
  <2>3. request[v].age # Unknown /\ ~ request[v].stale => request[v].age <= StaleAfter
    <3>1. request[v].age # Unknown /\ ~ request[v].stale =>
              ~ (request[v].age > StaleAfter)
      BY <2>2, Zenon DEF Marked
    <3>. QED
      BY <2>1, <3>1, SnapshotsAssumption
  <2>. QED
    BY <2>1, <2>2, <2>3, SnapshotsAssumption
<1>. QED
  BY <1>1, SnapshotsInvariant, PTL

---------------------------------------------------------------------------
(* The metrics of the ingestion *)

BatchRecord ==
    [pc : {"idle", "entries", "persist", "progress", "failed"},
     size : 0 .. BatchLimit, left : 0 .. BatchLimit, counts : Counters]

(* A worker without a batch holds no count, and neither does one whose     *)
(* counters are written before its progress is saved. *)
HoldsNothing(w, b) ==
    b.pc = "idle" \/ (b.pc = "progress" /\ w \notin TailIngester)

NothingKept ==
    \A w \in Ingester :
        HoldsNothing(w, batch[w]) => batch[w].counts.stored = 0

(* The step of one worker, which leaves those of the others alone. *)
LEMMA HeldChange ==
    ASSUME MetricsTypeOK, NEW w \in Ingester, NEW b \in BatchRecord,
           batch' = [batch EXCEPT ![w] = b]
    PROVE  /\ Held \in Int
           /\ Held' = Held + b.counts.stored - batch[w].counts.stored
           /\ \A v \in Ingester \ {w} : batch'[v] = batch[v]
           /\ batch'[w] = b /\ batch' \in [Ingester -> BatchRecord]
<1> DEFINE f == [v \in Ingester |-> batch[v].counts.stored]
           g == [v \in Ingester |-> batch'[v].counts.stored]
<1>1. batch \in [Ingester -> BatchRecord]
  BY DEF MetricsTypeOK, BatchRecord
<1>2. /\ \A v \in Ingester \ {w} : batch'[v] = batch[v]
      /\ batch'[w] = b /\ batch' \in [Ingester -> BatchRecord]
  BY <1>1
<1>3. \A v \in Ingester : batch[v].counts.stored \in Int
  BY <1>1 DEF BatchRecord, Counters
<1>4. b.counts.stored \in Int
  BY DEF BatchRecord, Counters
<1>5. /\ \A v \in Ingester : f[v] \in Int
      /\ g[w] \in Int /\ g[w] = b.counts.stored /\ f[w] = batch[w].counts.stored
      /\ \A v \in Ingester \ {w} : g[v] = f[v]
      /\ DOMAIN f = Ingester /\ DOMAIN g = Ingester
  BY <1>2, <1>3, <1>4
<1>6. Held = SumFunctionOnSet(f, Ingester) /\ Held' = SumFunctionOnSet(g, Ingester)
  BY <1>5 DEF Held, SumFunction
<1> HIDE DEF f, g
<1>7. IsFiniteSet(Ingester)
  BY MetricsAssumption
<1>8. SumFunctionOnSet(f, Ingester) \in Int
  BY <1>5, <1>7, SumInt
<1>9. SumFunctionOnSet(g, Ingester) = SumFunctionOnSet(f, Ingester) + g[w] - f[w]
  BY <1>5, <1>7, SumExcept
<1>10. QED
  BY <1>2, <1>5, <1>6, <1>8, <1>9

MetricsInv == MetricsTypeOK /\ NothingKept /\ CountedOnce

(* It suffices to look at the worker that moves. *)
LEMMA MetricsInvBy ==
    ASSUME MetricsInv, NEW w \in Ingester, NEW b \in BatchRecord,
           batch' = [batch EXCEPT ![w] = b],
           HoldsNothing(w, b) => b.counts.stored = 0,
           metricTotal' \in Nat, storedTotal' \in Nat, lost' \in BOOLEAN,
           lost => lost',
           metricTotal' + b.counts.stored - (metricTotal + batch[w].counts.stored)
             <= storedTotal' - storedTotal,
           lost' \/ metricTotal' + b.counts.stored
                      - (metricTotal + batch[w].counts.stored)
                    = storedTotal' - storedTotal
    PROVE  MetricsInv'
<1>1. /\ Held \in Int /\ Held' = Held + b.counts.stored - batch[w].counts.stored
      /\ \A v \in Ingester \ {w} : batch'[v] = batch[v]
      /\ batch'[w] = b /\ batch' \in [Ingester -> BatchRecord]
  BY HeldChange DEF MetricsInv
<1>2. MetricsTypeOK'
  BY <1>1 DEF MetricsTypeOK, BatchRecord
<1>3. NothingKept'
  BY <1>1 DEF MetricsInv, NothingKept, HoldsNothing
<1>4. b.counts.stored \in Nat /\ batch[w].counts.stored \in Nat
  BY DEF MetricsInv, MetricsTypeOK, BatchRecord, Counters
<1>5. metricTotal \in Nat /\ storedTotal \in Nat
  BY DEF MetricsInv, MetricsTypeOK
<1>6. /\ metricTotal + Held <= storedTotal
      /\ lost \/ metricTotal + Held = storedTotal
  BY DEF MetricsInv, CountedOnce
<1> HIDE DEF Held
<1>7. metricTotal' + Held' <= storedTotal'
  BY <1>1, <1>4, <1>5, <1>6
<1>8. ~ lost' => metricTotal' + Held' = storedTotal'
  <2>1. ~ lost' => metricTotal + Held = storedTotal
    BY <1>6, Zenon
  <2>2. ~ lost' => metricTotal' + b.counts.stored
                     - (metricTotal + batch[w].counts.stored)
                   = storedTotal' - storedTotal
    BY Zenon
  <2>3. QED
    BY <1>1, <1>4, <1>5, <2>1, <2>2
<1>9. CountedOnce'
  BY <1>7, <1>8 DEF CountedOnce
<1>10. QED
  BY <1>2, <1>3, <1>9 DEF MetricsInv

LEMMA NoBatchType == NoBatch \in BatchRecord /\ NoBatch.counts.stored = 0
BY MetricsAssumption DEF NoBatch, NoCounts, BatchRecord, Counters

(* The steps that store nothing and save nothing. *)
LEMMA OnlyBatchStep ==
    ASSUME MetricsInv, NEW w \in Ingester, NEW b \in BatchRecord,
           OnlyBatch(w, b), b.counts.stored = batch[w].counts.stored,
           HoldsNothing(w, b) => b.counts.stored = 0
    PROVE  MetricsInv'
<1>1. b.counts.stored \in Nat /\ metricTotal \in Nat /\ storedTotal \in Nat
  BY DEF MetricsInv, MetricsTypeOK, BatchRecord, Counters
<1>2. /\ metricTotal' = metricTotal /\ storedTotal' = storedTotal
      /\ lost' = lost /\ lost \in BOOLEAN
      /\ batch' = [batch EXCEPT ![w] = b]
  BY DEF OnlyBatch, MetricsInv, MetricsTypeOK
<1>3. /\ metricTotal' + b.counts.stored - (metricTotal + batch[w].counts.stored)
           <= storedTotal' - storedTotal
      /\ metricTotal' + b.counts.stored - (metricTotal + batch[w].counts.stored)
           = storedTotal' - storedTotal
  BY <1>1, <1>2
<1>4. QED
  BY <1>1, <1>2, <1>3, MetricsInvBy

(* The steps that save the counters, or lose them. *)
LEMMA ResetStep ==
    ASSUME MetricsInv, NEW w \in Ingester, NEW b \in BatchRecord,
           batch' = [batch EXCEPT ![w] = b], b.counts.stored = 0,
           storedTotal' = storedTotal,
           \/ lost' = lost /\ metricTotal' = metricTotal + batch[w].counts.stored
           \/ lost' = TRUE /\ metricTotal' = metricTotal
    PROVE  MetricsInv'
<1>1. /\ batch[w].counts.stored \in Nat /\ metricTotal \in Nat
      /\ storedTotal \in Nat
  BY DEF MetricsInv, MetricsTypeOK, BatchRecord, Counters
<1>2. lost' \in BOOLEAN /\ (lost => lost')
  BY DEF MetricsInv, MetricsTypeOK
<1>3. metricTotal' \in Nat /\ storedTotal' \in Nat
  BY <1>1
<1>4. metricTotal' + b.counts.stored - (metricTotal + batch[w].counts.stored)
        <= storedTotal' - storedTotal
  BY <1>1
<1>5. lost' \/ metricTotal' + b.counts.stored
                 - (metricTotal + batch[w].counts.stored)
               = storedTotal' - storedTotal
  <2>1. CASE metricTotal' = metricTotal + batch[w].counts.stored
    BY <1>1, <2>1
  <2>2. CASE lost' = TRUE
    BY <2>2
  <2>3. QED
    BY <2>1, <2>2
<1>6. QED
  BY <1>2, <1>3, <1>4, <1>5, MetricsInvBy

LEMMA MetricsStep ==
    ASSUME MetricsInv, [MetricsNext]_metricsVars
    PROVE  MetricsInv'
<1> USE DEF MetricsInv, MetricsTypeOK
<1>1. ASSUME NEW w \in Ingester
      PROVE  batch[w] \in BatchRecord /\ batch[w].counts.stored \in Nat
  BY DEF BatchRecord, Counters
<1>2. ASSUME NEW w \in Ingester, BeginBatch(w)
      PROVE  MetricsInv'
  <2>1. PICK n \in 1 .. BatchLimit :
          OnlyBatch(w, [pc |-> "entries", size |-> n, left |-> n,
                        counts |-> NoCounts])
    BY <1>2 DEF BeginBatch
  <2> DEFINE b == [pc |-> "entries", size |-> n, left |-> n, counts |-> NoCounts]
  <2>2. /\ b \in BatchRecord /\ b.counts.stored = 0 /\ b.pc = "entries"
    <3>1. n \in 0 .. BatchLimit
      BY MetricsAssumption
    <3>2. QED
      BY <3>1 DEF NoCounts, BatchRecord, Counters
  <2>3. batch[w].counts.stored = 0
    BY <1>2 DEF BeginBatch, NothingKept, HoldsNothing
  <2> HIDE DEF b
  <2>4. ~ HoldsNothing(w, b) /\ OnlyBatch(w, b)
    BY <2>1, <2>2 DEF HoldsNothing, b
  <2>5. QED
    BY <2>2, <2>3, <2>4, OnlyBatchStep
<1>3. ASSUME NEW w \in Ingester, StoreAndRecord(w)
      PROVE  MetricsInv'
  <2> DEFINE b == [batch[w] EXCEPT !.left = batch[w].left - 1,
                                !.counts.stored = batch[w].counts.stored + 1]
  <2>1. /\ b \in BatchRecord /\ b.pc = "entries"
        /\ b.counts.stored = batch[w].counts.stored + 1
    <3>1. batch[w].left \in 0 .. BatchLimit /\ batch[w].left > 0
      BY <1>1, <1>3 DEF StoreAndRecord, BatchRecord
    <3>2. batch[w].left - 1 \in 0 .. BatchLimit
      BY <3>1, MetricsAssumption
    <3>3. batch[w].pc = "entries" /\ batch[w].counts \in Counters
      BY <1>1, <1>3 DEF StoreAndRecord, BatchRecord
    <3>4. /\ b.pc = batch[w].pc /\ b.size = batch[w].size
          /\ b.left = batch[w].left - 1
      BY <1>1 DEF BatchRecord
    <3>5. b.counts = [batch[w].counts EXCEPT !.stored = batch[w].counts.stored + 1]
      BY <1>1 DEF BatchRecord
    <3>6. b.counts \in Counters
      BY <3>3, <3>5 DEF Counters
    <3>7. b \in BatchRecord
      BY <1>1, <3>2, <3>6 DEF BatchRecord
    <3>8. QED
      BY <3>3, <3>4, <3>5, <3>7 DEF Counters
  <2>2. /\ batch' = [batch EXCEPT ![w] = b]
        /\ storedTotal' = storedTotal + 1 /\ metricTotal' = metricTotal
        /\ lost' = lost
    BY <1>3 DEF StoreAndRecord
  <2> HIDE DEF b
  <2>3. ~ HoldsNothing(w, b)
    BY <2>1 DEF HoldsNothing
  <2>4. metricTotal' \in Nat /\ storedTotal' \in Nat /\ lost' \in BOOLEAN
    BY <2>2
  <2>5. metricTotal' + b.counts.stored - (metricTotal + batch[w].counts.stored)
          = storedTotal' - storedTotal
    BY <1>1, <2>1, <2>2
  <2>6. metricTotal' + b.counts.stored - (metricTotal + batch[w].counts.stored)
          <= storedTotal' - storedTotal
    BY <1>1, <2>1, <2>2
  <2>7. lost => lost'
    BY <2>2
  <2> QED
    BY <2>1, <2>2, <2>3, <2>4, <2>5, <2>6, <2>7, MetricsInvBy
<1>4. ASSUME NEW w \in Ingester, RecordError(w)
      PROVE  MetricsInv'
  <2> DEFINE b == [batch[w] EXCEPT !.left = batch[w].left - 1,
                                !.counts.other = TRUE]
  <2>1. /\ b \in BatchRecord /\ b.pc = "entries"
        /\ b.counts.stored = batch[w].counts.stored
    <3>1. batch[w].left \in 0 .. BatchLimit /\ batch[w].left > 0
      BY <1>1, <1>4 DEF RecordError, BatchRecord
    <3>2. batch[w].left - 1 \in 0 .. BatchLimit
      BY <3>1, MetricsAssumption
    <3>3. batch[w].pc = "entries" /\ batch[w].counts \in Counters
      BY <1>1, <1>4 DEF RecordError, BatchRecord
    <3>4. /\ b.pc = batch[w].pc /\ b.size = batch[w].size
          /\ b.left = batch[w].left - 1
      BY <1>1 DEF BatchRecord
    <3>5. b.counts = [batch[w].counts EXCEPT !.other = TRUE]
      BY <1>1 DEF BatchRecord
    <3>6. b.counts \in Counters
      BY <3>3, <3>5 DEF Counters
    <3>7. b \in BatchRecord
      BY <1>1, <3>2, <3>6 DEF BatchRecord
    <3>8. QED
      BY <3>3, <3>4, <3>5, <3>7 DEF Counters
  <2>2. OnlyBatch(w, b)
    BY <1>4 DEF RecordError
  <2> HIDE DEF b
  <2>3. QED
    BY <2>1, <2>2, OnlyBatchStep DEF HoldsNothing
<1>5. ASSUME NEW w \in Ingester, EndEntries(w)
      PROVE  MetricsInv'
  <2> DEFINE b == [batch[w] EXCEPT
                     !.pc = IF w \in TailIngester THEN "progress" ELSE "persist",
                     !.counts.other = TRUE]
  <2>1. /\ b \in BatchRecord /\ b.counts.stored = batch[w].counts.stored
        /\ b.pc = IF w \in TailIngester THEN "progress" ELSE "persist"
    BY <1>1, <1>5 DEF EndEntries, BatchRecord, Counters
  <2>2. OnlyBatch(w, b)
    BY <1>5 DEF EndEntries
  <2> HIDE DEF b
  <2>3. QED
    BY <2>1, <2>2, OnlyBatchStep DEF HoldsNothing
<1>6. ASSUME NEW w \in Ingester, BatchRaises(w)
      PROVE  MetricsInv'
  <2> DEFINE a == [batch[w] EXCEPT !.pc = "failed", !.counts.other = TRUE]
             b == [batch[w] EXCEPT !.pc = "failed"]
  <2>1. /\ a \in BatchRecord /\ a.counts.stored = batch[w].counts.stored
        /\ a.pc = "failed"
    BY <1>1 DEF BatchRecord, Counters
  <2>2. /\ b \in BatchRecord /\ b.counts.stored = batch[w].counts.stored
        /\ b.pc = "failed"
    BY <1>1 DEF BatchRecord, Counters
  <2>3. OnlyBatch(w, a) \/ OnlyBatch(w, b)
    BY <1>6 DEF BatchRaises
  <2> HIDE DEF a, b
  <2>4. QED
    BY <2>1, <2>2, <2>3, OnlyBatchStep DEF HoldsNothing
<1>7. ASSUME NEW w \in Ingester, SaveProgress(w)
      PROVE  MetricsInv'
  <2>1. CASE w \in TailIngester
    <3> DEFINE b == [batch[w] EXCEPT !.pc = "persist"]
    <3>1. /\ b \in BatchRecord /\ b.counts.stored = batch[w].counts.stored
          /\ b.pc = "persist"
      BY <1>1 DEF BatchRecord, Counters
    <3>2. OnlyBatch(w, b)
      BY <1>7, <2>1 DEF SaveProgress
    <3> HIDE DEF b
    <3>3. QED
      BY <3>1, <3>2, OnlyBatchStep DEF HoldsNothing
  <2>2. CASE w \notin TailIngester
    <3>1. batch[w].counts.stored = 0
      BY <1>7, <2>2 DEF SaveProgress, NothingKept, HoldsNothing
    <3>2. OnlyBatch(w, NoBatch)
      BY <1>7, <2>2 DEF SaveProgress
    <3>3. QED
      BY <3>1, <3>2, NoBatchType, OnlyBatchStep
  <2>3. QED
    BY <2>1, <2>2
<1>8. ASSUME NEW w \in Ingester, NEW to \in {"idle", "progress"}, NEW from,
             PersistRow(w, from, to)
      PROVE  MetricsInv'
  <2> DEFINE b == IF to = "idle" THEN NoBatch
                  ELSE [batch[w] EXCEPT !.pc = to, !.counts = AfterPersist(batch[w])]
  <2>1. b \in BatchRecord /\ b.counts.stored = 0
    BY <1>1, NoBatchType DEF AfterPersist, NoCounts, BatchRecord, Counters
  <2>2. /\ batch' = [batch EXCEPT ![w] = b] /\ storedTotal' = storedTotal
        /\ lost' = lost /\ metricTotal' = metricTotal + batch[w].counts.stored
    BY <1>8 DEF PersistRow
  <2> HIDE DEF b
  <2>3. QED
    BY <2>1, <2>2, ResetStep
<1>9. ASSUME NEW w \in Ingester, PersistLost(w) \/ IngesterDies(w)
      PROVE  MetricsInv'
  <2> DEFINE a == [batch[w] EXCEPT !.pc = "failed", !.counts = AfterPersist(batch[w])]
  <2>1. a \in BatchRecord /\ a.counts.stored = 0
    BY <1>1 DEF AfterPersist, NoCounts, BatchRecord, Counters
  <2>2. /\ batch' = [batch EXCEPT ![w] = a] \/ batch' = [batch EXCEPT ![w] = NoBatch]
        /\ storedTotal' = storedTotal /\ lost' = TRUE /\ metricTotal' = metricTotal
    BY <1>9 DEF PersistLost, IngesterDies
  <2> HIDE DEF a
  <2>3. QED
    BY <2>1, <2>2, NoBatchType, ResetStep
<1>10. ASSUME UNCHANGED metricsVars
       PROVE  MetricsInv'
  BY <1>10 DEF metricsVars, NothingKept, CountedOnce, Held
<1>11. QED
  BY <1>2, <1>3, <1>4, <1>5, <1>6, <1>7, <1>8, <1>9, <1>10
     DEF MetricsNext, PersistBatch, PersistFailure

LEMMA MetricsInvariant == MetricsSpec => []MetricsInv
<1>1. MetricsInit => MetricsInv
  <2> SUFFICES ASSUME MetricsInit
               PROVE  MetricsInv
    OBVIOUS
  <2> DEFINE f == [w \in Ingester |-> batch[w].counts.stored]
             none == [w \in Ingester |-> 0]
  <2>1. MetricsTypeOK /\ NothingKept
    BY NoBatchType DEF MetricsInit, MetricsTypeOK, NothingKept, BatchRecord
  <2>2. \A w \in Ingester : batch[w].counts.stored = 0
    BY NoBatchType DEF MetricsInit
  <2>3. Held = SumFunctionOnSet(f, Ingester)
    BY DEF Held, SumFunction
  <2>4. \A w \in Ingester : f[w] = 0
    BY <2>2
  <2> HIDE DEF f
  <2>5. SumFunctionOnSet(f, Ingester) = 0
    BY <2>4, MetricsAssumption, SumZero
  <2> HIDE DEF Held
  <2>6. CountedOnce
    BY <2>3, <2>5 DEF MetricsInit, CountedOnce
  <2>7. QED
    BY <2>1, <2>6 DEF MetricsInv
<1> QED
  BY <1>1, MetricsStep, PTL DEF MetricsSpec

(* Through failures, the second row of a failed batch and restarts, a      *)
(* certificate that is stored is counted in one row at most, and in        *)
(* exactly one unless a process or the transaction of a row was lost. *)
THEOREM CertificatesCountedOnce == MetricsSpec => []CountedOnce
<1>1. MetricsInv => CountedOnce
  BY DEF MetricsInv
<1> QED
  BY <1>1, MetricsInvariant, PTL

---------------------------------------------------------------------------
(* The projections *)

LEMMA FiguresAre ==
    ASSUME ProjectionInit
    PROVE  /\ \A r \in Planned(figures) :
                 /\ figures.ranges[r].next \in 0 .. RangeLength[r]
                 /\ figures.ranges[r].status \in
                       {"pending", "in_progress", "complete", "failed"}
           /\ figures.cursors \in Nat /\ figures.observations \in Nat
           /\ figures.size \in Nat
           /\ \A r \in Planned(figures) : RangeLength[r] \in Nat \ {0}
           /\ IsFiniteSet(Planned(figures)) /\ TreeSize \in Nat
<1>1. PICK planned \in SUBSET ReadRange : figures.ranges \in RangesOf(planned)
  BY DEF ProjectionInit, Figures
<1>2. /\ Planned(figures) = planned
      /\ \A r \in planned : figures.ranges[r] \in RangeFigures(r)
  BY <1>1 DEF RangesOf, Planned
<1>3. /\ figures.cursors \in NextIndexes /\ figures.observations \in Observations
      /\ figures.size \in DatabaseSize
  BY DEF ProjectionInit, Figures
<1>4. IsFiniteSet(planned)
  BY ProjectionAssumption, FS_Subset DEF ReadRange
<1>5. QED
  BY <1>2, <1>3, <1>4, ProjectionAssumption DEF RangeFigures, ReadRange

(* Whichever row a query returns, what it is estimated to come to. *)
LEMMA EstimatesAre ==
    ASSUME ProjectionInit
    PROVE  /\ SnapshotEstimate(figures) \in Nat \cup {NoEstimate}
           /\ LiveEstimate(figures) \in Nat \cup {NoEstimate}
<1> DEFINE row == figures.settings
<1>1. PICK n \in 0 .. MaxSettings : row \in SettingsOf(n)
  BY DEF ProjectionInit, Figures
<1>2. IF row = <<>> THEN figures.read = 0 ELSE figures.read \in DOMAIN row
  BY DEF ProjectionInit, Figures
<1> HIDE DEF row
<1>3. DOMAIN row = 1 .. n /\ \A i \in 1 .. n : row[i] \in Nat \cup {NoEstimate}
  BY <1>1, ProjectionAssumption DEF SettingsOf
<1>4. n \in Nat
  BY <1>1, ProjectionAssumption
<1>5. row \in Seq(Nat \cup {NoEstimate})
  BY <1>1, <1>3, <1>4, IsASeq DEF SettingsOf
<1>6. Len(row) = n
  BY <1>3, <1>4, <1>5
<1>7. CASE row = <<>>
  BY <1>7 DEF SnapshotEstimate, LiveEstimate, row
<1>8. CASE row # <<>>
  <2>1. n > 0
    BY <1>4, <1>5, <1>6, <1>8
  <2>2. row[figures.read] \in Nat \cup {NoEstimate}
    BY <1>2, <1>3, <1>8
  <2>3. row[Len(row)] \in Nat \cup {NoEstimate}
    BY <1>3, <1>4, <1>6, <2>1
  <2>4. QED
    BY <1>8, <2>2, <2>3 DEF SnapshotEstimate, LiveEstimate, row
<1>9. QED
  BY <1>7, <1>8

(* A sum over the ranges counts no more than a bound for each; and all of  *)
(* it only if it does for each. *)
LEMMA CountedWithin ==
    ASSUME NEW R, IsFiniteSet(R),
           NEW counted, counted = [r \in R |-> counted[r]],
           \A r \in R : counted[r] \in Nat,
           NEW bound, bound = [r \in R |-> bound[r]],
           \A r \in R : bound[r] \in Nat,
           \A r \in R : counted[r] <= bound[r]
    PROVE  /\ OverRanges(counted) \in Nat /\ OverRanges(bound) \in Nat
           /\ OverRanges(counted) <= OverRanges(bound)
           /\ OverRanges(counted) = OverRanges(bound) <=>
                 \A r \in R : counted[r] = bound[r]
           /\ (\E r \in R : bound[r] > 0) => OverRanges(bound) > 0
           /\ R = {} => OverRanges(bound) = 0
<1>1. DOMAIN counted = R /\ DOMAIN bound = R
  OBVIOUS
<1>2. /\ OverRanges(counted) = SumFunctionOnSet(counted, R)
      /\ OverRanges(bound) = SumFunctionOnSet(bound, R)
  BY <1>1 DEF OverRanges, SumFunction
<1>3. /\ SumFunctionOnSet(counted, R) \in Nat
      /\ SumFunctionOnSet(bound, R) \in Nat
  BY SumNat
<1>4. /\ \A r \in R : counted[r] \in Int
      /\ \A r \in R : bound[r] \in Int
  OBVIOUS
<1>5. /\ SumFunctionOnSet(counted, R) <= SumFunctionOnSet(bound, R)
      /\ SumFunctionOnSet(counted, R) = SumFunctionOnSet(bound, R)
            => \A r \in R : counted[r] = bound[r]
  BY <1>4, SumMonotone
<1>6. (\A r \in R : counted[r] = bound[r]) =>
         SumFunctionOnSet(counted, R) = SumFunctionOnSet(bound, R)
  BY <1>4, SumSame
<1>7. ASSUME NEW r \in R, bound[r] > 0
      PROVE  SumFunctionOnSet(bound, R) > 0
  <2>1. SumFunctionOnSet(bound, R)
          = bound[r] + SumFunctionOnSet(bound, R \ {r})
    BY <1>4, SumRemove
  <2>2. IsFiniteSet(R \ {r})
    BY FS_Subset
  <2>3. SumFunctionOnSet(bound, R \ {r}) \in Nat
    BY <2>2, SumNat
  <2>4. QED
    BY <1>7, <2>1, <2>3
<1>8. R = {} => SumFunctionOnSet(bound, R) = 0
  BY SumEmpty
<1>9. QED
  BY <1>2, <1>3, <1>5, <1>6, <1>7, <1>8

(* The plan of the snapshot, and when it is done. *)
LEMMA SnapshotPlanIs ==
    ASSUME ProjectionInit
    PROVE  LET plan == SnapshotPlan(figures)
           IN  /\ plan.total \in Nat /\ plan.completed \in Nat
               /\ plan.completed <= plan.total
               /\ (\E r \in Planned(figures) : RangeLength[r] > 1) => plan.total > 0
               /\ Planned(figures) = {} => plan.total = 0
               /\ plan.completed = plan.total <=>
                     \A r \in Planned(figures) : RangeLength[r] > 1 =>
                         figures.ranges[r].status = "complete"
<1> DEFINE R == Planned(figures)
           bound == [r \in R |-> RangeLength[r] - 1]
           counted == [r \in R |->
                          CompleteOf(figures.ranges[r], RangeLength[r] - 1)]
<1>1. \A r \in R : RangeLength[r] \in Nat \ {0} /\ IsFiniteSet(R)
  BY FiguresAre
<1>2. ASSUME NEW r \in R
      PROVE  /\ bound[r] = RangeLength[r] - 1 /\ bound[r] \in Nat
             /\ counted[r] \in Nat /\ counted[r] <= bound[r]
             /\ (counted[r] = bound[r]) <=>
                   (RangeLength[r] > 1 => figures.ranges[r].status = "complete")
             /\ RangeLength[r] > 1 => bound[r] > 0
  BY <1>1 DEF CompleteOf
<1>3. IsFiniteSet(R)
  BY FiguresAre
<1>4. /\ counted = [r \in R |-> counted[r]]
      /\ bound = [r \in R |-> bound[r]]
  OBVIOUS
<1>5. /\ SnapshotPlan(figures).total = OverRanges(bound)
      /\ SnapshotPlan(figures).completed = OverRanges(counted)
  BY DEF SnapshotPlan, Plan
<1> HIDE DEF bound, counted
<1>6. /\ OverRanges(counted) \in Nat /\ OverRanges(bound) \in Nat
      /\ OverRanges(counted) <= OverRanges(bound)
      /\ OverRanges(counted) = OverRanges(bound) <=>
            \A r \in R : counted[r] = bound[r]
      /\ (\E r \in R : bound[r] > 0) => OverRanges(bound) > 0
      /\ R = {} => OverRanges(bound) = 0
  <2>1. /\ \A r \in R : counted[r] \in Nat
        /\ \A r \in R : bound[r] \in Nat
        /\ \A r \in R : counted[r] <= bound[r]
    BY <1>2
  <2>2. QED
    BY <1>3, <1>4, <2>1, CountedWithin
<1>7. QED
  BY <1>2, <1>5, <1>6

(* That of a live response. *)
LEMMA LivePlanIs ==
    ASSUME ProjectionInit
    PROVE  LET plan == LivePlan(figures)
           IN  /\ plan.total \in Nat /\ plan.completed \in Nat
               /\ plan.completed <= plan.total
               /\ Planned(figures) # {} => plan.total > 0
               /\ Planned(figures) = {} => plan.total = 0
               /\ plan.completed = plan.total <=>
                     \A r \in Planned(figures) :
                        \/ figures.ranges[r].status = "complete"
                        \/ /\ figures.ranges[r].status = "in_progress"
                           /\ figures.ranges[r].next = RangeLength[r]
<1> DEFINE R == Planned(figures)
           bound == [r \in R |-> RangeLength[r]]
           counted == [r \in R |->
                          CompleteOf(figures.ranges[r], RangeLength[r])
                            + PartOf(figures.ranges[r], RangeLength[r])]
<1>1. \A r \in R : /\ RangeLength[r] \in Nat \ {0}
                          /\ figures.ranges[r].next \in 0 .. RangeLength[r]
  BY FiguresAre
<1>2. ASSUME NEW r \in R
      PROVE  /\ bound[r] \in Nat /\ bound[r] > 0
             /\ counted[r] \in Nat /\ counted[r] <= bound[r]
             /\ (counted[r] = bound[r]) <=>
                   \/ figures.ranges[r].status = "complete"
                   \/ /\ figures.ranges[r].status = "in_progress"
                      /\ figures.ranges[r].next = RangeLength[r]
  BY <1>1 DEF CompleteOf, PartOf
<1>3. IsFiniteSet(R)
  BY FiguresAre
<1>4. /\ counted = [r \in R |-> counted[r]]
      /\ bound = [r \in R |-> bound[r]]
  OBVIOUS
<1>5. /\ LivePlan(figures).total = OverRanges(bound)
      /\ LivePlan(figures).completed = OverRanges(counted)
  BY DEF LivePlan, Plan
<1> HIDE DEF bound, counted
<1>6. /\ OverRanges(counted) \in Nat /\ OverRanges(bound) \in Nat
      /\ OverRanges(counted) <= OverRanges(bound)
      /\ OverRanges(counted) = OverRanges(bound) <=>
            \A r \in R : counted[r] = bound[r]
      /\ (\E r \in R : bound[r] > 0) => OverRanges(bound) > 0
      /\ R = {} => OverRanges(bound) = 0
  <2>1. /\ \A r \in R : counted[r] \in Nat
        /\ \A r \in R : bound[r] \in Nat
        /\ \A r \in R : counted[r] <= bound[r]
    BY <1>2
  <2>2. QED
    BY <1>3, <1>4, <2>1, CountedWithin
<1>7. QED
  BY <1>2, <1>5, <1>6

LEMMA RoundedIsNatural ==
    ASSUME NEW a \in Nat, NEW b \in Nat \ {0}
    PROVE  RoundedRatio(a, b) \in Nat
<1>1. a \div b \in Nat
  BY SMT
<1>2. QED
  BY <1>1 DEF RoundedRatio

(* From any plan the two builders report the same progress, and project    *)
(* the same from the same estimate. *)
LEMMA SameProjection ==
    ASSUME NEW plan, plan.total \in Nat, plan.completed \in Nat,
           ProjectionInit, figures.observations > 0
    PROVE  LET s == SnapshotProjection(plan, figures)
               l == LiveProjection(plan, figures)
           IN  /\ s.status = l.status /\ s.total = l.total
               /\ s.completed = l.completed /\ s.remaining = l.remaining
               /\ SnapshotEstimate(figures) = LiveEstimate(figures) => s = l
<1> DEFINE f == figures
           completed == Smaller(plan.completed, plan.total)
           remaining == NotBelow(0, plan.total - plan.completed)
           linear == RoundedRatio(remaining * f.size, f.observations)
           Final(estimate) == IF estimate # NoEstimate THEN estimate
                              ELSE f.size + linear
           made == Final(SnapshotEstimate(f))
           final == Final(LiveEstimate(f))
           rest == IF LiveEstimate(f) # NoEstimate
                   THEN NotBelow(0, LiveEstimate(f) - f.size) ELSE linear
           Of(status, size, more) ==
               Projected(status, plan, completed, remaining, size, more)
           s == SnapshotProjection(plan, f)
           l == LiveProjection(plan, f)
<1>1. /\ f.observations \in Nat \ {0} /\ f.size \in Nat
      /\ LiveEstimate(f) \in Nat \cup {NoEstimate}
  BY FiguresAre, EstimatesAre
<1>2. /\ completed \in Nat /\ remaining \in Nat
      /\ completed = NotBelow(0, Smaller(plan.completed, NotBelow(0, plan.total)))
      /\ remaining = NotBelow(0, plan.total - completed)
  BY DEF NotBelow, Smaller
<1> HIDE DEF completed, remaining
<1>3. remaining * f.size \in Nat
  BY <1>1, <1>2
<1>4. linear \in Nat
  BY <1>1, <1>3, RoundedIsNatural
<1> HIDE DEF linear
<1>5. rest = NotBelow(0, final - f.size) /\ NotBelow(0, f.size - f.size) = 0
  BY <1>1, <1>4 DEF NotBelow
<1>6. linear = RoundedRatio(remaining * f.size, f.observations)
  BY DEF linear
<1>7. s = IF plan.total <= 0 THEN Of("insufficient_backfill_plan", 0, 0)
          ELSE IF SnapshotAnchored(completed, plan.total, f.size, made)
          THEN Of("available", f.size, 0)
          ELSE Of("available", made, NotBelow(0, made - f.size))
  BY <1>1, <1>5, <1>6 DEF SnapshotProjection, completed, remaining
<1>8. l = IF plan.total <= 0 THEN Of("insufficient_backfill_plan", 0, 0)
          ELSE IF LiveAnchored(completed, plan.total, f.size, final)
          THEN Of("available", f.size, 0)
          ELSE Of("available", final, rest)
  BY <1>1, <1>2, <1>6 DEF LiveProjection
<1>9. ASSUME NEW status, NEW size, NEW more
      PROVE  /\ Of(status, size, more).status = status
             /\ Of(status, size, more).total = plan.total
             /\ Of(status, size, more).completed = completed
             /\ Of(status, size, more).remaining = remaining
  BY DEF Projected
<1>10. /\ s.total = plan.total /\ s.completed = completed
       /\ s.remaining = remaining
       /\ s.status = IF plan.total <= 0 THEN "insufficient_backfill_plan"
                     ELSE "available"
  <2> HIDE DEF s, made, Of
  <2>1. QED
    BY <1>7, <1>9
<1>11. /\ l.total = plan.total /\ l.completed = completed
       /\ l.remaining = remaining
       /\ l.status = IF plan.total <= 0 THEN "insufficient_backfill_plan"
                     ELSE "available"
  <2> HIDE DEF l, final, rest, Of
  <2>1. QED
    BY <1>8, <1>9
<1>12. ASSUME SnapshotEstimate(f) = LiveEstimate(f) PROVE s = l
  <2>1. made = final
    BY <1>12
  <2> HIDE DEF s, l, made, final, rest, Of
  <2>2. SnapshotAnchored(completed, plan.total, f.size, made)
          <=> LiveAnchored(completed, plan.total, f.size, final)
    BY <2>1 DEF SnapshotAnchored, LiveAnchored
  <2>3. QED
    BY <1>5, <1>7, <1>8, <2>1, <2>2
<1>13. QED
  BY <1>10, <1>11, <1>12

LEMMA TheBuildersAgree == ProjectionInit => BuildersAgree
<1> SUFFICES ASSUME ProjectionInit, figures.observations > 0
             PROVE  BuildersAgree
  BY DEF BuildersAgree
<1>1. LogsPlan(figures).total \in Nat /\ LogsPlan(figures).completed \in Nat
  BY FiguresAre DEF LogsPlan, Plan
<1>2. ASSUME NEW plan \in {SnapshotPlan(figures), LivePlan(figures),
                           LogsPlan(figures)}
      PROVE  LET s == SnapshotProjection(plan, figures)
                 l == LiveProjection(plan, figures)
             IN  /\ s.status = l.status /\ s.total = l.total
                 /\ s.completed = l.completed /\ s.remaining = l.remaining
                 /\ SnapshotEstimate(figures) = LiveEstimate(figures) => s = l
  <2>1. plan.total \in Nat /\ plan.completed \in Nat
    BY <1>1, SnapshotPlanIs, LivePlanIs
  <2>2. QED
    BY <2>1, SameProjection
<1>3. ASSUME Planned(figures) = {}
      PROVE  /\ Snapshot = SnapshotProjection(LogsPlan(figures), figures)
             /\ Live = LiveProjection(LogsPlan(figures), figures)
  <2>1. SnapshotPlan(figures).total = 0 /\ LivePlan(figures).total = 0
    BY <1>3, SnapshotPlanIs, LivePlanIs
  <2>2. QED
    BY <2>1 DEF Snapshot, Live, Effective
<1>4. QED
  BY <1>2, <1>3 DEF BuildersAgree

(* What a projection says of a plan that has entries. *)
LEMMA ProjectionSays ==
    ASSUME NEW plan, plan.total \in Nat, plan.completed \in Nat,
           plan.total > 0, plan.completed <= plan.total,
           ProjectionInit, figures.observations > 0
    PROVE  \A p \in {SnapshotProjection(plan, figures),
                     LiveProjection(plan, figures)} :
               /\ p.total = plan.total /\ p.completed = plan.completed
               /\ p.completed = p.total => p.final = figures.size /\ p.rest = 0
<1> DEFINE remaining == NotBelow(0, plan.total - plan.completed)
           linear == RoundedRatio(remaining * figures.size, figures.observations)
           Final(estimate) == IF estimate # NoEstimate THEN estimate
                              ELSE figures.size + linear
           Of(size, more) ==
               Projected("available", plan, plan.completed, remaining, size, more)
<1>1. figures.size \in Nat /\ figures.observations \in Nat \ {0}
  BY FiguresAre
<1>2. /\ Smaller(plan.completed, plan.total) = plan.completed
      /\ NotBelow(0, Smaller(plan.completed, NotBelow(0, plan.total)))
           = plan.completed
      /\ ~ (plan.total <= 0) /\ NotBelow(0, figures.size - figures.size) = 0
  BY <1>1 DEF Smaller, NotBelow
<1> HIDE DEF linear, remaining
<1>3. ASSUME plan.completed = plan.total
      PROVE  /\ SnapshotProjection(plan, figures) = Of(figures.size, 0)
             /\ LiveProjection(plan, figures) = Of(figures.size, 0)
  <2>1. ASSUME NEW final
        PROVE  /\ SnapshotAnchored(plan.completed, plan.total, figures.size, final)
               /\ LiveAnchored(plan.completed, plan.total, figures.size, final)
    BY <1>3 DEF SnapshotAnchored, LiveAnchored
  <2>2. SnapshotProjection(plan, figures) = Of(figures.size, 0)
    BY <1>2, <2>1 DEF SnapshotProjection, remaining
  <2>3. LiveProjection(plan, figures) = Of(figures.size, 0)
    BY <1>1, <1>2, <2>1 DEF LiveProjection, remaining
  <2>4. QED
    BY <2>2, <2>3
<1>4. ASSUME NEW size, NEW more
      PROVE  /\ Of(size, more).final = size /\ Of(size, more).rest = more
  BY DEF Projected
<1> HIDE DEF Of
<1>5. /\ SnapshotProjection(plan, figures).total = plan.total
      /\ SnapshotProjection(plan, figures).completed = plan.completed
  BY <1>2 DEF SnapshotProjection, Projected
<1>6. /\ LiveProjection(plan, figures).total = plan.total
      /\ LiveProjection(plan, figures).completed = plan.completed
  BY <1>5, SameProjection
<1>7. QED
  BY <1>3, <1>4, <1>5, <1>6

LEMMA DoneIsDone == ProjectionInit => DoneMeansDone
<1> SUFFICES ASSUME ProjectionInit, figures.observations > 0,
                    NEW r \in Planned(figures), RangeLength[r] > 1
             PROVE  DoneMeansDone
  BY DEF DoneMeansDone
<1> DEFINE made == SnapshotPlan(figures)
           plan == LivePlan(figures)
<1>1. /\ made.total \in Nat /\ made.completed \in Nat
      /\ made.completed <= made.total /\ made.total > 0
      /\ (made.completed = made.total) <=>
            \A x \in Planned(figures) : RangeLength[x] > 1 =>
                figures.ranges[x].status = "complete"
  BY SnapshotPlanIs
<1>2. /\ plan.total \in Nat /\ plan.completed \in Nat
      /\ plan.completed <= plan.total /\ plan.total > 0
      /\ (plan.completed = plan.total) <=>
            \A x \in Planned(figures) :
               \/ figures.ranges[x].status = "complete"
               \/ /\ figures.ranges[x].status = "in_progress"
                  /\ figures.ranges[x].next = RangeLength[x]
  BY LivePlanIs
<1>3. Snapshot = SnapshotProjection(made, figures)
  BY <1>1 DEF Snapshot, Effective
<1>4. Live = LiveProjection(plan, figures)
  BY <1>2 DEF Live, Effective
<1> HIDE DEF made, plan
<1>5. /\ Snapshot.total = made.total /\ Snapshot.completed = made.completed
      /\ Snapshot.completed = Snapshot.total =>
            Snapshot.final = figures.size /\ Snapshot.rest = 0
  BY <1>1, <1>3, ProjectionSays
<1>6. /\ Live.total = plan.total /\ Live.completed = plan.completed
      /\ Live.completed = Live.total =>
            Live.final = figures.size /\ Live.rest = 0
  BY <1>2, <1>4, ProjectionSays
<1>7. QED
  BY <1>1, <1>2, <1>5, <1>6 DEF DoneMeansDone

(* Whatever the ranges, the sizes, the progress and the settings, the      *)
(* snapshot and the live response report the same progress from one plan,  *)
(* and the same sizes from settings that are estimated alike; they fall    *)
(* back on the same plan; and each says that the ingestion is done exactly *)
(* when its ranges are, and then which size it has. *)
THEOREM ProjectionsAgree == ProjectionInit => ProjectionsHonest
BY TheBuildersAgree, DoneIsDone DEF ProjectionsHonest
---------------------------------------------------------------------------
(* The pages of a search *)

(* The order of a search is one of all rows, in both directions. *)
LEMMA BeforeIsOrder ==
    ASSUME dated \in [HostId -> Int], NEW asc \in BOOLEAN
    PROVE  /\ \A g, h \in HostId : g = h \/ Before(g, h, asc) \/ Before(h, g, asc)
           /\ \A g, h \in HostId : Before(g, h, asc) => ~ Before(h, g, asc) /\ g # h
           /\ \A f, g, h \in HostId :
                 Before(f, g, asc) /\ Before(g, h, asc) => Before(f, h, asc)
<1>1. \A h \in HostId : h \in Int /\ dated[h] \in Int
  BY PagingAssumption
<1>2. CASE asc = TRUE
  BY <1>1, <1>2 DEF Before
<1>3. CASE asc = FALSE
  BY <1>1, <1>3 DEF Before
<1> QED
  BY <1>2, <1>3

(* What is past the cursor of a row is what comes after the row. *)
LEMMA PastIsAfter ==
    ASSUME dated \in [HostId -> Int], NEW asc \in BOOLEAN,
           NEW g \in HostId, NEW h \in HostId,
           NEW c, c.date = dated[g], c.id = g
    PROVE  Past(h, c, asc) = Before(g, h, asc)
<1>1. g \in Int /\ h \in Int /\ dated[g] \in Int /\ dated[h] \in Int
  BY PagingAssumption
<1>2. CASE asc = TRUE
  BY <1>1, <1>2 DEF Past, Before
<1>3. CASE asc = FALSE
  BY <1>1, <1>3 DEF Past, Before
<1> QED
  BY <1>2, <1>3

(* Of some rows, one comes last, and one comes first. *)
LEMMA SomeRowIsLast ==
    ASSUME dated \in [HostId -> Int], NEW asc \in BOOLEAN,
           NEW rows \in SUBSET HostId, rows # {}
    PROVE  /\ \E h \in rows : \A g \in rows \ {h} : Before(g, h, asc)
           /\ \E h \in rows : \A g \in rows \ {h} : Before(h, g, asc)
<1> DEFINE after  == {x \in HostId \X HostId : Before(x[2], x[1], asc)}
           ahead  == {x \in HostId \X HostId : Before(x[1], x[2], asc)}
<1>1. IsFiniteSet(rows)
  BY FS_Subset, PagingAssumption
<1>2. \A x, y \in rows : <<x, y>> \in after <=> Before(y, x, asc)
  OBVIOUS
<1>3. \A x, y \in rows : <<x, y>> \in ahead <=> Before(x, y, asc)
  OBVIOUS
<1>4. /\ \A x, y \in rows : x = y \/ <<x, y>> \in after \/ <<y, x>> \in after
      /\ \A x, y, z \in rows :
            <<x, y>> \in after /\ <<y, z>> \in after => <<x, z>> \in after
  BY <1>2, BeforeIsOrder
<1>5. /\ \A x, y \in rows : x = y \/ <<x, y>> \in ahead \/ <<y, x>> \in ahead
      /\ \A x, y, z \in rows :
            <<x, y>> \in ahead /\ <<y, z>> \in ahead => <<x, z>> \in ahead
  BY <1>3, BeforeIsOrder
<1> HIDE DEF after, ahead
<1>6. \E x \in rows : \A y \in rows \ {x} : <<x, y>> \in after
  BY <1>1, <1>4, GreatestElement
<1>7. \E x \in rows : \A y \in rows \ {x} : <<x, y>> \in ahead
  BY <1>1, <1>5, GreatestElement
<1> QED
  BY <1>2, <1>3, <1>6, <1>7

(* A page is a first part of what is found, all of it if there is no next  *)
(* page, and has a last row if there is one. *)
LEMMA PageIsPrefix ==
    ASSUME dated \in [HostId -> Int], NEW w, w.asc \in BOOLEAN,
           w.limit \in Nat \ {0}
    PROVE  /\ Page(w) \subseteq Found(w) /\ Found(w) \subseteq HostId
           /\ \A h \in Page(w), g \in Found(w) :
                 Before(g, h, w.asc) => g \in Page(w)
           /\ ~ HasNext(w) => Page(w) = Found(w)
           /\ HasNext(w) =>
                 /\ LastRow(Page(w), w.asc) \in Page(w)
                 /\ \A g \in Page(w) \ {LastRow(Page(w), w.asc)} :
                       Before(g, LastRow(Page(w), w.asc), w.asc)
<1> DEFINE F == Found(w)
           Ahead(h) == {g \in F : Before(g, h, w.asc)}
<1>1. F \subseteq HostId /\ IsFiniteSet(F)
  BY FS_Subset, PagingAssumption DEF Found
<1>2. \A h \in F : h \in Page(w) <=> Cardinality(Ahead(h)) < w.limit
  BY DEF Page
<1>3. Page(w) \subseteq F
  BY DEF Page
<1>4. HasNext(w) <=> Cardinality(F) > w.limit
  BY DEF HasNext
<1>5. \A h : Ahead(h) \in SUBSET F
  OBVIOUS
<1>6. \A h, g : g \in Ahead(h) <=> g \in F /\ Before(g, h, w.asc)
  OBVIOUS
<1> HIDE DEF F, Ahead
<1>7. \A h : IsFiniteSet(Ahead(h)) /\ Cardinality(Ahead(h)) \in Nat
  BY <1>1, <1>5, FS_Subset, FS_CardinalityType
<1>8. Cardinality(F) \in Nat
  BY <1>1, FS_CardinalityType
<1>9. ASSUME NEW h \in Page(w), NEW g \in F, Before(g, h, w.asc)
      PROVE  g \in Page(w)
  <2>1. h \in HostId /\ g \in HostId /\ h \in F
    BY <1>1, <1>3
  <2>2. Ahead(g) \in SUBSET Ahead(h)
    BY <1>1, <1>6, <1>9, <2>1, BeforeIsOrder
  <2>3. Cardinality(Ahead(g)) <= Cardinality(Ahead(h))
    BY <1>7, <2>2, FS_Subset
  <2> QED
    BY <1>2, <1>7, <2>1, <2>3
<1>10. ASSUME Cardinality(F) <= w.limit, NEW h \in F
       PROVE  h \in Page(w)
  <2>1. Ahead(h) \in SUBSET (F \ {h})
    BY <1>1, <1>6, BeforeIsOrder
  <2>2. IsFiniteSet(F \ {h}) /\ Cardinality(F \ {h}) = Cardinality(F) - 1
    BY <1>1, FS_RemoveElement
  <2>3. Cardinality(Ahead(h)) <= Cardinality(F \ {h})
    BY <2>1, <2>2, FS_Subset
  <2> QED
    BY <1>2, <1>7, <1>8, <1>10, <2>2, <2>3
<1>11. ASSUME Cardinality(F) > w.limit
       PROVE  Page(w) # {}
  <2>1. F # {}
    BY <1>8, <1>11, FS_EmptySet
  <2>2. PICK h \in F : \A g \in F \ {h} : Before(h, g, w.asc)
    BY <1>1, <2>1, SomeRowIsLast
  <2>3. Ahead(h) = {}
    BY <1>1, <1>6, <2>2, BeforeIsOrder
  <2>4. Cardinality(Ahead(h)) = 0
    BY <2>3, FS_EmptySet
  <2> QED
    BY <1>2, <2>4
<1>12. ASSUME Cardinality(F) > w.limit
       PROVE  /\ LastRow(Page(w), w.asc) \in Page(w)
              /\ \A g \in Page(w) \ {LastRow(Page(w), w.asc)} :
                    Before(g, LastRow(Page(w), w.asc), w.asc)
  <2>1. Page(w) \in SUBSET HostId
    BY <1>1, <1>3
  <2>2. \E h \in Page(w) : \A g \in Page(w) \ {h} : Before(g, h, w.asc)
    BY <1>11, <1>12, <2>1, SomeRowIsLast
  <2> QED
    BY <2>2, Zenon DEF LastRow
<1>13. HasNext(w) => Cardinality(F) > w.limit
  BY <1>4
<1>14. ~ HasNext(w) => Cardinality(F) <= w.limit
  BY <1>4, <1>8
<1> QED
  BY <1>1, <1>3, <1>9, <1>10, <1>12, <1>13, <1>14 DEF F
(* A page adds one to what it returns, goes on behind its last row, and    *)
(* ends the walk if there is no more or that row has no date: then nothing *)
(* with a date is left, or nothing with one was returned.                  *)
Due(w, h) == IF h \in Found(w) THEN 0 ELSE 1

Owed(w, kept) ==
    kept \subseteq HostId /\ \A h \in kept : dated[h] \in Date /\ w.got[h] = Due(w, h)

PageGiven(v, kept) ==
    /\ v.on = TRUE
    /\ v \in [on : BOOLEAN, asc : BOOLEAN, limit : Nat \ {0},
             cursor : [date : Date, id : HostId] \cup {NoCursor},
             got : [HostId -> Nat], ended : BOOLEAN]
    /\ v.ended <=> v.cursor = NoCursor
    /\ v.cursor # NoCursor => \A h \in kept : v.got[h] = Due(v, h)
    /\ v.cursor = NoCursor =>
          \/ \A h \in kept : v.got[h] = 1
          \/ /\ v.asc = TRUE
             /\ \E h \in HostId : v.got[h] > 0
             /\ \A h \in HostId : v.got[h] > 0 => dated[h] = NoDate

LEMMA SearchReturnsOnce ==
    ASSUME dated \in [HostId -> Date \cup {NoDate, NoRow}],
           NEW w, w.asc \in BOOLEAN, w.limit \in Nat \ {0},
           w.got \in [HostId -> Nat],
           w.cursor \in [date : Date, id : HostId] \cup {NoCursor},
           w.cursor = NoCursor => \A h \in HostId : w.got[h] = 0,
           NEW kept, Owed(w, kept)
    PROVE  PageGiven(Search(w), kept)
<1>s. SUFFICES ASSUME NEW v, v = Search(w) PROVE PageGiven(v, kept)
  OBVIOUS
<1> DEFINE P == Page(w)
           F == Found(w)
           last == LastRow(P, w.asc)
<1>d. \A x \in Date : x \in Int /\ x > 0
  BY PagingAssumption
<1>1. dated \in [HostId -> Int]
  BY <1>d DEF NoDate, NoRow
<1>2. /\ P \subseteq F /\ F \subseteq HostId
      /\ \A h \in P, g \in F : Before(g, h, w.asc) => g \in P
      /\ ~ HasNext(w) => P = F
      /\ HasNext(w) => /\ last \in P
                       /\ \A g \in P \ {last} : Before(g, last, w.asc)
  BY <1>1, PageIsPrefix
<1>3. /\ v.on = TRUE /\ v.asc = w.asc /\ v.limit = w.limit
      /\ v.ended = (v.cursor = NoCursor)
      /\ v.got = [h \in HostId |-> IF h \in P THEN w.got[h] + 1 ELSE w.got[h]]
      /\ v.cursor = IF HasNext(w) THEN NextCursor(w) ELSE NoCursor
      /\ v = [on |-> TRUE, asc |-> w.asc, limit |-> w.limit, cursor |-> v.cursor,
              got |-> v.got, ended |-> v.cursor = NoCursor]
  BY <1>s, Zenon DEF Search
<1>4. NextCursor(w) = IF dated[last] = NoDate THEN NoCursor
                      ELSE [date |-> dated[last], id |-> last]
  BY Zenon DEF NextCursor
<1>5. \A h \in HostId : h \in F <=>
         /\ dated[h] # NoRow
         /\ w.cursor # NoCursor => dated[h] # NoDate /\ Past(h, w.cursor, w.asc)
  BY DEF Found
<1>6. \A h \in HostId : h \in Found(v) <=>
         /\ dated[h] # NoRow
         /\ v.cursor # NoCursor => dated[h] # NoDate /\ Past(h, v.cursor, v.asc)
  BY DEF Found
<1>7. \A h \in HostId : w.got[h] \in Nat
  BY Zenon
<1>w. /\ kept \subseteq HostId
      /\ \A h \in kept : dated[h] \in Date /\ w.got[h] = Due(w, h)
  BY DEF Owed
<1> HIDE DEF P, F, last
<1>8. \A h \in HostId :
         v.got[h] = IF h \in P THEN w.got[h] + 1 ELSE w.got[h]
  BY <1>3
<1>9. v.got \in [HostId -> Nat]
  BY <1>3, <1>7
<1>10. \A h \in kept : h \in HostId /\ dated[h] \in Date /\ dated[h] # NoRow
                      /\ dated[h] # NoDate
  BY <1>w, PagingAssumption DEF NoRow, NoDate
<1>11. \A h \in kept : w.got[h] = IF h \in F THEN 0 ELSE 1
  BY <1>w DEF Due, F
<1>12. CASE ~ HasNext(w)
  <2>1. v.cursor = NoCursor /\ P = F
    BY <1>2, <1>3, <1>12
  <2>2. \A h \in kept : v.got[h] = 1
    BY <1>8, <1>10, <1>11, <2>1
  <2>3. v \in [on : BOOLEAN, asc : BOOLEAN, limit : Nat \ {0},
              cursor : [date : Date, id : HostId] \cup {NoCursor},
              got : [HostId -> Nat], ended : BOOLEAN]
    BY <1>3, <1>9, <2>1
  <2> QED
    BY <1>3, <2>1, <2>2, <2>3 DEF PageGiven
<1>13. CASE HasNext(w) /\ dated[last] = NoDate
  <2>1. v.cursor = NoCursor
    BY <1>3, <1>4, <1>13
  <2>2. last \in P /\ last \in F /\ last \in HostId
    BY <1>2, <1>13
  <2>3. w.cursor = NoCursor
    BY <1>5, <1>13, <2>2
  <2>4. v \in [on : BOOLEAN, asc : BOOLEAN, limit : Nat \ {0},
              cursor : [date : Date, id : HostId] \cup {NoCursor},
              got : [HostId -> Nat], ended : BOOLEAN]
    BY <1>3, <1>9, <2>1
  <2>5. CASE w.asc = TRUE
    <3>1. \A h \in P : dated[h] = NoDate
      <4>1. ASSUME NEW h \in P, h # last
            PROVE  dated[h] = NoDate
        <5>1. h \in F /\ h \in HostId
          BY <1>2
        <5>2. dated[h] # NoRow
          BY <1>5, <5>1
        <5>3. dated[h] = NoDate \/ dated[h] > 0
          BY <1>d, <5>1, <5>2
        <5>4. Before(h, last, TRUE)
          BY <1>2, <1>13, <2>5, <4>1
        <5> QED
          BY <1>13, <5>3, <5>4, <1>1, <2>2, <5>1 DEF Before, NoDate
      <4> QED
        BY <1>13, <4>1
    <3>2. \A h \in HostId : v.got[h] > 0 => h \in P
      BY <1>8, <2>3
    <3>3. v.got[last] > 0
      BY <1>7, <1>8, <2>2
    <3> QED
      BY <1>3, <2>1, <2>2, <2>4, <2>5, <3>1, <3>2, <3>3 DEF PageGiven
  <2>6. CASE w.asc = FALSE
    <3>1. ASSUME NEW h \in kept
          PROVE  v.got[h] = 1
      <4>1. h \in F
        BY <1>5, <1>10, <2>3
      <4>2. dated[h] > 0
        BY <1>d, <1>10
      <4>3. Before(h, last, FALSE)
        BY <1>13, <4>2 DEF Before, NoDate
      <4>4. h \in P
        BY <1>2, <2>2, <2>6, <4>1, <4>3
      <4> QED
        BY <1>8, <1>10, <1>11, <4>1, <4>4
    <3> QED
      BY <1>3, <2>1, <2>4, <3>1 DEF PageGiven
  <2> QED
    BY <2>5, <2>6
<1>14. CASE HasNext(w) /\ dated[last] # NoDate
  <2>1. v.cursor = [date |-> dated[last], id |-> last]
    BY <1>3, <1>4, <1>14
  <2>2. last \in P /\ last \in F /\ last \in HostId
    BY <1>2, <1>14
  <2>3. dated[last] \in Date
    BY <1>5, <1>14, <2>2
  <2>4. v.cursor \in [date : Date, id : HostId] /\ v.cursor # NoCursor
    BY <2>1, <2>2, <2>3, PagingAssumption DEF NoCursor, NoDate
  <2>5. v \in [on : BOOLEAN, asc : BOOLEAN, limit : Nat \ {0},
              cursor : [date : Date, id : HostId] \cup {NoCursor},
              got : [HostId -> Nat], ended : BOOLEAN]
    BY <1>3, <1>9, <2>4
  <2>6. v.cursor.date = dated[last] /\ v.cursor.id = last
    BY <2>1
  <2>7. \A h \in HostId : Past(h, v.cursor, w.asc) = Before(last, h, w.asc)
    BY <1>1, <2>2, <2>6, PastIsAfter
  <2>8. ASSUME NEW h \in kept
        PROVE  v.got[h] = Due(v, h)
    <3>1. h \in Found(v) <=> Before(last, h, w.asc)
      BY <1>3, <1>6, <1>10, <2>4, <2>7
    <3>2. CASE h \in P
      <4>1. ~ Before(last, h, w.asc)
        BY <1>1, <1>2, <1>10, <1>14, <2>2, <3>2, BeforeIsOrder
      <4>2. h \in F
        BY <1>2, <3>2
      <4> QED
        BY <1>8, <1>10, <1>11, <3>1, <3>2, <4>1, <4>2 DEF Due
    <3>3. CASE h \in F /\ h \notin P
      <4>1. ~ Before(h, last, w.asc) /\ h # last
        BY <1>2, <2>2, <3>3
      <4>2. Before(last, h, w.asc)
        BY <1>1, <1>10, <2>2, <4>1, BeforeIsOrder
      <4> QED
        BY <1>8, <1>10, <1>11, <3>1, <3>3, <4>2 DEF Due
    <3>4. CASE h \notin F
      <4>1. w.cursor # NoCursor /\ ~ Past(h, w.cursor, w.asc)
        BY <1>5, <1>10, <3>4
      <4>2. Past(last, w.cursor, w.asc)
        BY <1>5, <2>2, <4>1
      <4>3. w.cursor.date \in Nat /\ w.cursor.id \in Nat
        BY <4>1, PagingAssumption
      <4>4. ~ Before(last, h, w.asc)
        <5>1. /\ dated[h] \in Int /\ dated[last] \in Int
              /\ h \in Int /\ last \in Int
          <6>1. \A x \in HostId : x \in Int
            BY PagingAssumption
          <6>2. \A x \in HostId : dated[x] \in Int
            BY <1>1
          <6> QED
            BY <1>10, <2>2, <6>1, <6>2
        <5>2. CASE w.asc = TRUE
          BY <4>1, <4>2, <4>3, <5>1, <5>2 DEF Past, Before
        <5>3. CASE w.asc = FALSE
          BY <4>1, <4>2, <4>3, <5>1, <5>3 DEF Past, Before
        <5> QED
          BY <5>2, <5>3
      <4>5. h \notin P
        BY <1>2, <3>4
      <4> QED
        BY <1>8, <1>10, <1>11, <3>1, <3>4, <4>4, <4>5 DEF Due
    <3> QED
      BY <3>2, <3>3, <3>4
  <2> QED
    BY <1>3, <2>4, <2>5, <2>8 DEF PageGiven
<1> QED
  BY <1>12, <1>13, <1>14

(* While a walk goes on, what is still to be found has not been returned,  *)
(* and the rest has been, once.                                            *)
Unchanged == {h \in HostId \ changed : dated[h] \in Date}

WalkOn ==
    /\ PagingTypeOK
    /\ walk.ended => walk.on
    /\ (walk.on /\ ~ walk.ended) => \A h \in Unchanged : walk.got[h] = Due(walk, h)
    /\ PagedOnce

(* An answer leaves the walk in order. *)
LEMMA AnswerInOrder ==
    ASSUME dated \in [HostId -> Date \cup {NoDate, NoRow}], UNCHANGED dated,
           changed' \subseteq HostId,
           NEW w, w.asc \in BOOLEAN, w.limit \in Nat \ {0},
           w.got \in [HostId -> Nat],
           w.cursor \in [date : Date, id : HostId] \cup {NoCursor},
           w.cursor = NoCursor => \A h \in HostId : w.got[h] = 0,
           \A h \in HostId \ changed' :
              dated[h] \in Date => w.got[h] = Due(w, h),
           walk' = Search(w)
    PROVE  WalkOn'
<1> DEFINE kept == {h \in HostId \ changed' : dated[h] \in Date}
           v == walk'
<1>1. kept \in SUBSET HostId
  OBVIOUS
<1>2. Owed(w, kept)
  BY DEF Owed
<1>3. v = Search(w)
  OBVIOUS
<1>4. kept = Unchanged'
  BY DEF Unchanged
<1>5. \A h : Due(v, h) = Due(walk, h)'
  BY DEF Due, Found, Past
<1>0. /\ dated \in [HostId -> Date \cup {NoDate, NoRow}]
      /\ w.asc \in BOOLEAN /\ w.limit \in Nat \ {0}
      /\ w.got \in [HostId -> Nat]
      /\ w.cursor \in [date : Date, id : HostId] \cup {NoCursor}
      /\ w.cursor = NoCursor => \A h \in HostId : w.got[h] = 0
  OBVIOUS
<1> HIDE DEF kept, v
<1>6. PageGiven(v, kept)
  BY <1>1, <1>2, <1>3, <1>0, SearchReturnsOnce
<1>7. PagingTypeOK'
  BY <1>6 DEF v, PageGiven, PagingTypeOK
<1>8. (walk.on /\ ~ walk.ended => \A h \in Unchanged : walk.got[h] = Due(walk, h))'
  BY <1>4, <1>5, <1>6 DEF v, PageGiven
<1>9. PagedOnce'
  <2>1. SUFFICES ASSUME v.ended
                 PROVE  PagedOnce'
    BY DEF v, PagedOnce
  <2>2. CASE \A h \in kept : v.got[h] = 1
    BY <1>4, <2>2 DEF v, PagedOnce, Unchanged
  <2>3. CASE /\ v.asc = TRUE
             /\ \E h \in HostId : v.got[h] > 0
             /\ \A h \in HostId : v.got[h] > 0 => dated[h] = NoDate
    BY <2>3 DEF v, PagedOnce, EndedEarly
  <2> QED
    BY <1>6, <2>1, <2>2, <2>3 DEF PageGiven
<1> QED
  BY <1>6, <1>7, <1>8, <1>9 DEF v, PageGiven, WalkOn

LEMMA PagingInvariant == PagingSpec => []WalkOn
<1>1. PagingInit => WalkOn
  BY DEF PagingInit, NoWalk, WalkOn, PagingTypeOK, PagedOnce
<1>2. ASSUME WalkOn, [PagingNext]_pagingVars
      PROVE  WalkOn'
  <2> USE <1>2
  <2>1. /\ dated \in [HostId -> Date \cup {NoDate, NoRow}]
        /\ walk \in [on : BOOLEAN, asc : BOOLEAN, limit : Nat \ {0},
                     cursor : [date : Date, id : HostId] \cup {NoCursor},
                     got : [HostId -> Nat], ended : BOOLEAN]
        /\ changed \subseteq HostId
        /\ (walk.on /\ ~ walk.ended) <=> walk.cursor # NoCursor
    BY DEF WalkOn, PagingTypeOK
  <2>2. CASE FirstPage
    <3>1. PICK asc \in BOOLEAN, limit \in PageLimits :
             walk' = Search([NoWalk EXCEPT !.asc = asc, !.limit = limit])
      BY <2>2 DEF FirstPage
    <3> DEFINE w == [NoWalk EXCEPT !.asc = asc, !.limit = limit]
    <3>2. /\ w.asc = asc /\ w.limit = limit /\ w.cursor = NoCursor
          /\ w.got = [h \in HostId |-> 0]
      BY DEF NoWalk
    <3>3. walk' = Search(w) /\ UNCHANGED dated /\ changed' = {}
      BY <2>2, <3>1 DEF FirstPage
    <3> HIDE DEF w
    <3>4. \A h \in HostId : dated[h] \in Date => Due(w, h) = 0
      BY <3>2, PagingAssumption DEF Due, Found, NoRow
    <3>5. limit \in Nat \ {0}
      BY PagingAssumption
    <3>6. w.got \in [HostId -> Nat] /\ \A h \in HostId : w.got[h] = 0
      BY <3>2
    <3>7. \A h \in HostId \ changed' : dated[h] \in Date => w.got[h] = Due(w, h)
      BY <3>4, <3>6
    <3>8. changed' \subseteq HostId
      BY <3>3
    <3> QED
      BY <2>1, <3>2, <3>3, <3>5, <3>6, <3>7, <3>8, AnswerInOrder
  <2>3. CASE NextPage
    <3>1. /\ walk' = Search(walk) /\ UNCHANGED dated /\ changed' = changed
          /\ walk.on /\ ~ walk.ended
      BY <2>3 DEF NextPage
    <3>2. \A h \in HostId \ changed' :
             dated[h] \in Date => walk.got[h] = Due(walk, h)
      BY <3>1 DEF WalkOn, Unchanged
    <3>3. walk.cursor # NoCursor
      BY <2>1, <3>1
    <3>4. /\ walk.asc \in BOOLEAN /\ walk.limit \in Nat \ {0}
          /\ walk.got \in [HostId -> Nat]
          /\ walk.cursor \in [date : Date, id : HostId] \cup {NoCursor}
      BY <2>1
    <3> QED
      BY <2>1, <3>1, <3>2, <3>3, <3>4, AnswerInOrder
  <2>4. ASSUME NEW h \in HostId, RowChanges(h)
        PROVE  WalkOn'
    <3>1. PICK d \in Date : dated' = [dated EXCEPT ![h] = d]
      BY <2>4 DEF RowChanges
    <3>2. /\ walk.on /\ ~ walk.ended /\ walk' = walk
          /\ changed' = changed \cup {h}
      BY <2>4 DEF RowChanges
    <3>3. PagingTypeOK'
      BY <2>1, <3>1, <3>2 DEF PagingTypeOK
    <3>4. \A g \in HostId \ {h} : dated'[g] = dated[g]
      BY <2>1, <3>1
    <3>5. \A g \in HostId \ {h} : Due(walk, g)' = Due(walk, g)
      BY <3>2, <3>4 DEF Due, Found, Past
    <3>6. \A g \in Unchanged' : g \in Unchanged /\ g \in HostId \ {h}
      BY <3>2, <3>4 DEF Unchanged
    <3>7. (\A g \in Unchanged : walk.got[g] = Due(walk, g))'
      BY <3>2, <3>5, <3>6 DEF WalkOn
    <3> QED
      BY <3>2, <3>3, <3>7 DEF WalkOn, PagedOnce
  <2>5. CASE UNCHANGED pagingVars
    <3>1. UNCHANGED <<dated, walk, changed>>
      BY <2>5 DEF pagingVars
    <3> QED
      BY <3>1 DEF WalkOn, PagingTypeOK, PagedOnce, EndedEarly, Unchanged, Due,
                  Found, Past
  <2> QED
    BY <2>2, <2>3, <2>4, <2>5 DEF PagingNext
<1> QED
  BY <1>1, <1>2, PTL DEF PagingSpec

(* A search that is paged through while rows change returns every hostname *)
(* with a date that did not change, and once.                              *)
THEOREM SearchesArePagedOnce == PagingSpec => []PagedOnce
<1>1. WalkOn => PagedOnce
  BY DEF WalkOn
<1> QED
  BY <1>1, PagingInvariant, PTL
===============================================================================
