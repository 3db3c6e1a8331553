------------------------ MODULE PerLogBackfillProofs ------------------------
(***************************************************************************)
(* Theorems of the per-log backfill dispatcher, for any number of workers  *)
(* and logs and every value of the other constants.                        *)
(***************************************************************************)
EXTENDS PerLogBackfill, TLAPS

---------------------------------------------------------------------------
(* The statements of worker_claim.py leave a row of ct_log_backfill_state. *)

LEMMA RowOperatorsType ==
    ASSUME NEW r \in Row, NEW w \in Worker
    PROVE  /\ ClaimRow(r, w) \in Row
           /\ ReleaseRow(r) \in Row
           /\ ReapRow(r) \in Row
           /\ \A c \in Nat : ProgressRow(r, w, c) \in Row
           /\ \A hinted \in BOOLEAN : RetryingRow(r, w, hinted) \in Row
           /\ PausedRow(r, w) \in Row
           /\ DegradedRow(r, w) \in Row
           /\ CompleteRow(r) \in Row
           /\ \A s \in Nat, a \in Age : ExtendRow(r, s, a) \in Row
           /\ \A a \in Age : ObserveRow(r, a) \in Row
<1>1. /\ ClaimRow(r, w) \in Row
      /\ ReleaseRow(r) \in Row
      /\ ReapRow(r) \in Row
      /\ CompleteRow(r) \in Row
  BY DEF Row, Status, ClaimRow, ReleaseRow, ReapRow, CompleteRow
<1>2. \A c \in Nat : ProgressRow(r, w, c) \in Row
  BY DEF Row, Status, ProgressRow, IfOwned
<1>3. ASSUME NEW hinted \in BOOLEAN
      PROVE  RetryingRow(r, w, hinted) \in Row
  <2>1. /\ r.retries + 1 \in Nat
        /\ r.next_retry \in {"none", "pending", "past"}
    BY DEF Row
  <2>2. ASSUME NEW s \in Status, NEW n \in Nat,
               NEW d \in {"none", "pending", "past"}
        PROVE  [r EXCEPT !.heartbeat = "fresh", !.status = s, !.retries = n,
                         !.next_retry = d] \in Row
    BY DEF Row
  <2>3. CASE hinted
    BY <2>1, <2>2, <2>3 DEF Status, RetryingRow, IfOwned
  <2>4. CASE ~ hinted
    BY <2>1, <2>2, <2>4 DEF Status, RetryingRow, IfOwned
  <2>5. QED
    BY <2>3, <2>4
<1>4. PausedRow(r, w) \in Row /\ DegradedRow(r, w) \in Row
  BY DEF Row, Status, PausedRow, DegradedRow, IfOwned
<1>5. ASSUME NEW s \in Nat, NEW a \in Age
      PROVE  ExtendRow(r, s, a) \in Row
  <2>1. ASSUME NEW n \in Nat, NEW o \in Age
        PROVE  [r EXCEPT !.start = s, !.checkpoint = s, !.extensions = n,
                         !.observed = o] \in Row
    BY DEF Row
  <2>2. r.extensions + 1 \in Nat /\ r.observed \in Age
    BY DEF Row
  <2>3. CASE a = "none"
    BY <2>1, <2>2, <2>3 DEF ExtendRow
  <2>4. CASE a # "none"
    BY <2>1, <2>2, <2>4 DEF ExtendRow
  <2>5. QED
    BY <2>3, <2>4
<1>6. ASSUME NEW a \in Age
      PROVE  ObserveRow(r, a) \in Row
  <2>1. \A o \in Age : [r EXCEPT !.observed = o] \in Row
    BY DEF Row
  <2>2. r.observed \in Age
    BY DEF Row
  <2>3. QED
    BY <2>1, <2>2 DEF ObserveRow
<1>7. QED
  BY <1>1, <1>2, <1>3, <1>4, <1>5, <1>6

LEMMA WindowRowsType ==
    ASSUME NEW lo \in Nat, NEW hi \in Nat
    PROVE  /\ AbsentRow \in Row
           /\ NewRow(lo, hi) \in Row
           /\ \A r \in Row, c \in Nat : SetWindow(r, lo, hi, c) \in Row
  BY DEF Row, Status, Age, AbsentRow, NewRow, SetWindow

LEMMA SnapshotType ==
    /\ \A r \in Row : SnapshotOf(r) \in Snapshot
    /\ NoSnapshot \in Snapshot
  BY DEF Row, Snapshot, SnapshotOf, NoSnapshot, AbsentRow

LEMMA ProcessOperatorsType ==
    /\ Down \in Process
    /\ \A p \in Process : Looping(p) \in Process
    /\ \A p \in Process, r \in Row : DriveFrom(p, r) \in Process
<1>1. Down \in Process
  BY SnapshotType DEF Process, PC, DrivePC, Down, Age
<1>2. \A p \in Process : Looping(p) \in Process
  BY <1>1, SnapshotType DEF Process, PC, DrivePC, Looping, Down, Age
<1>3. \A p \in Process, r \in Row : DriveFrom(p, r) \in Process
  BY SnapshotType DEF Process, PC, DrivePC, DriveFrom, Age
<1>4. QED
  BY <1>1, <1>2, <1>3

LEMMA FailedRowType ==
    ASSUME NEW r \in Row, NEW w \in Worker,
           NEW kind \in FailureKinds \cup {"none"}, NEW n \in Nat
    PROVE  FailedRow(r, w, kind, n) \in Row
  BY RowOperatorsType, ConstantsAssumption DEF FailedRow

LEMMA BatchEndType ==
    ASSUME NEW cur \in Snapshot, NEW size \in Nat
    PROVE  BatchEnd(cur, size) \in Nat
  BY DEF Snapshot, BatchEnd

---------------------------------------------------------------------------
(* Type correctness *)

LEMMA TypeInit == Init => TypeOK
  BY WindowRowsType, ProcessOperatorsType, SnapshotType, BatchEndType
     DEF Init, TypeOK, Process, PC, DrivePC, Down, Age

LEMMA TypeStep ==
    ASSUME TypeOK, LogsInHand, Next
    PROVE  TypeOK'
<1> USE DEF TypeOK
<1>1. ASSUME NEW w \in Worker, WorkerStep(w)
      PROVE  TypeOK'
  <2> DEFINE p == worker[w]
  <2>p. p \in Process
    OBVIOUS
  <2>t. p.pc \in DrivePC \cup {"window"} => p.log \in Log
    BY DEF LogsInHand
  <2>1. CASE Start(w)
    BY <2>1, <2>p DEF Start, Process, PC
  <2>2. ASSUME NEW l \in Log, SkipWindow(w, l)
        PROVE  TypeOK'
    BY <2>2, <2>p DEF SkipWindow, Process, PC
  <2>3. ASSUME NEW l \in Log, NEW lo \in Pivots, NEW hi \in Heads,
               CreateWindow(w, l, lo, hi)
        PROVE  TypeOK'
    BY <2>3, <2>p, ConstantsAssumption, WindowRowsType
       DEF CreateWindow, Process, PC
  <2>4. ASSUME NEW l \in Log, ReadWindow(w, l)
        PROVE  TypeOK'
    <3>1. SnapshotOf(rows[l]) \in Snapshot
      BY SnapshotType
    <3>2. [p EXCEPT !.pc = "window", !.log = l, !.cur = SnapshotOf(rows[l]),
                    !.list = p.list \ {l}] \in Process
      BY <2>p, <3>1 DEF Process, PC
    <3>3. QED
      BY <2>4, <3>2 DEF ReadWindow
  <2>5. ASSUME NEW lo \in Pivots, NEW hi \in Heads, WriteWindow(w, lo, hi)
        PROVE  TypeOK'
    <3>1. /\ p.log \in Log
          /\ SetWindow(rows[p.log], lo, hi, p.cur.checkpoint) \in Row
      BY <2>5, <2>p, <2>t, ConstantsAssumption, WindowRowsType
         DEF WriteWindow, Process, Snapshot
    <3>2. [p EXCEPT !.pc = "init", !.log = NoLog, !.cur = NoSnapshot] \in Process
      BY <2>p, SnapshotType DEF Process, PC
    <3>3. QED
      BY <2>5, <3>1, <3>2 DEF WriteWindow, Disturb
  <2>6. CASE EnterLoop(w)
    BY <2>6, <2>p DEF EnterLoop, Process, PC
  <2>7. CASE ReapSelect(w)
    BY <2>7, <2>p DEF ReapSelect, Process, PC
  <2>8. CASE ReapUpdate(w)
    BY <2>8, <2>p, RowOperatorsType DEF ReapUpdate, Process, PC
  <2>9. ASSUME NEW l \in Log, Claim(w, l)
        PROVE  TypeOK'
    <3>1. ClaimRow(rows[l], w) \in Row
      BY RowOperatorsType
    <3>2. /\ DriveFrom(p, rows[l]) \in Process
          /\ rows[l].observed \in Age
      BY <2>p, ProcessOperatorsType DEF Row
    <3>3. [DriveFrom(p, rows[l]) EXCEPT !.log = l, !.seen = rows[l].observed]
            \in Process
      BY <3>2 DEF Process
    <3>4. QED
      BY <2>9, <3>1, <3>3 DEF Claim, Disturb
  <2>10. CASE NothingToClaim(w)
    BY <2>10, <2>p DEF NothingToClaim, Process, PC
  <2>11. ASSUME NEW size \in BatchSizes, Fetch(w, size)
         PROVE  TypeOK'
    <3>1. /\ p.cur.checkpoint \in Nat
          /\ BatchEnd(p.cur, size) \in Nat
      BY <2>p, ConstantsAssumption, BatchEndType DEF Process, Snapshot
    <3>2. PICK got \in Nat :
             worker' = [worker EXCEPT ![w].pc = "persist",
                                      ![w].pos = p.cur.checkpoint,
                                      ![w].got = got,
                                      ![w].upto = BatchEnd(p.cur, size)]
      <4>1. {p.cur.checkpoint} \cup (p.cur.checkpoint .. BatchEnd(p.cur, size))
              \subseteq Nat
        BY <3>1
      <4>2. QED
        BY <2>11, <4>1 DEF Fetch
    <3>3. [p EXCEPT !.pc = "persist", !.pos = p.cur.checkpoint, !.got = got,
                    !.upto = BatchEnd(p.cur, size)] \in Process
      BY <2>p, <3>1 DEF Process, PC, DrivePC
    <3>4. QED
      BY <2>11, <3>2, <3>3 DEF Fetch
  <2>12. ASSUME NEW stored \in BOOLEAN, PersistEntry(w, stored)
         PROVE  TypeOK'
    <3> DEFINE date == IF p.pos \in OldEntries THEN "old" ELSE "recent"
               hit == IF stored /\ p.hit # "old" THEN date ELSE p.hit
    <3>h. hit \in Age
      BY <2>p DEF Process, Age
    <3>1. worker' = [worker EXCEPT
                        ![w] = [p EXCEPT !.pos = p.pos + 1, !.hit = hit]]
      BY <2>12 DEF PersistEntry
    <3>2. p.pos \in Nat /\ p.pos + 1 \in Nat
      BY <2>p DEF Process
    <3>a. ASSUME NEW n \in Nat, NEW d \in Age
          PROVE  [p EXCEPT !.pos = n, !.hit = d] \in Process
      BY <2>p DEF Process
    <3>3. outcomes' \in [Log -> SUBSET Nat]
      BY <2>12, <3>2, <2>t DEF PersistEntry, DrivePC
    <3>4. worker' \in [Worker -> Process]
      <4> HIDE DEF hit
      <4>1. QED
        BY <3>1, <3>2, <3>a, <3>h
    <3>5. QED
      BY <2>12, <3>3, <3>4 DEF PersistEntry
  <2>13. CASE SaveProgress(w)
    BY <2>13, <2>p, <2>t, RowOperatorsType
       DEF SaveProgress, Disturb, Process, PC, DrivePC
  <2>14. ASSUME NEW kind \in FailureKinds, BatchFails(w, kind)
         PROVE  TypeOK'
    BY <2>14, <2>p DEF BatchFails, Process, PC, DrivePC, Age, Snapshot
  <2>15. CASE HandleFailure(w)
    <3>1. p.log \in Log /\ p.cur.retries \in Nat
      BY <2>15, <2>p, <2>t DEF HandleFailure, DrivePC, Process, Snapshot
    <3>2. /\ FailedRow(rows[p.log], w, p.fail, p.cur.retries) \in Row
      BY <2>15, <2>p, <3>1, FailedRowType DEF HandleFailure, Process
    <3>3. \A c \in PC : [p EXCEPT !.fail = "none", !.pc = c] \in Process
      BY <2>p DEF Process
    <3>4. QED
      BY <2>15, <3>1, <3>2, <3>3 DEF HandleFailure, PC, DrivePC
  <2>16. CASE ReleaseClaim(w)
    <3>1. p.log \in Log /\ ReleaseRow(rows[p.log]) \in Row
      BY <2>16, <2>t, RowOperatorsType DEF ReleaseClaim, DrivePC
    <3>2. /\ Looping(p) \in Process
      BY <2>p, ProcessOperatorsType
    <3>3. [Looping(p) EXCEPT !.cooling = p.cooling \cup {p.log}] \in Process
      BY <3>1, <3>2 DEF Process
    <3>4. QED
      BY <2>16, <3>1, <3>3 DEF ReleaseClaim
  <2>17. CASE ObserveOldest(w)
    BY <2>17, <2>p, <2>t, RowOperatorsType
       DEF ObserveOldest, Process, PC, DrivePC, Age
  <2>18. CASE ExtendWindow(w)
    <3>1. /\ p.log \in Log
          /\ p.cur.start \in Nat
          /\ p.seen \in Age
      BY <2>18, <2>p, <2>t DEF ExtendWindow, DrivePC, Process, Snapshot
    <3>2. ExtendedStart(p.cur.start) \in Nat
      BY <3>1 DEF ExtendedStart, ExtensionEntries
    <3>3. ExtendRow(rows[p.log], ExtendedStart(p.cur.start), p.seen) \in Row
      BY <3>1, <3>2, RowOperatorsType
    <3>4. [p EXCEPT !.pc = "refresh"] \in Process
      BY <2>p DEF Process, PC, DrivePC
    <3>5. QED
      BY <2>18, <3>1, <3>3, <3>4 DEF ExtendWindow
  <2>19. CASE MarkComplete(w)
    <3>1. p.log \in Log /\ CompleteRow(rows[p.log]) \in Row
      BY <2>19, <2>t, RowOperatorsType DEF MarkComplete, DrivePC
    <3>2. Looping(p) \in Process
      BY <2>p, ProcessOperatorsType
    <3>3. QED
      BY <2>19, <3>1, <3>2 DEF MarkComplete
  <2>20. CASE Refresh(w)
    <3>1. p.log \in Log
      BY <2>20, <2>t DEF Refresh, MayRefresh, DrivePC
    <3>2. Looping(p) \in Process /\ DriveFrom(p, rows[p.log]) \in Process
      BY <2>p, <3>1, ProcessOperatorsType
    <3>3. QED
      BY <2>20, <3>2 DEF Refresh
  <2>21. CASE LimitReached(w)
    <3>1. Looping(p) \in Process
      BY <2>p, ProcessOperatorsType
    <3>2. QED
      BY <2>21, <3>1 DEF LimitReached
  <2>22. QED
    BY <1>1, <2>1, <2>2, <2>3, <2>4, <2>5, <2>6, <2>7, <2>8, <2>9, <2>10,
       <2>11, <2>12, <2>13, <2>14, <2>15, <2>16, <2>17, <2>18, <2>19, <2>20,
       <2>21 DEF WorkerStep
<1>2. CASE Environment
  <2>1. ASSUME NEW w \in Worker, Crash(w)
        PROVE  TypeOK'
    BY <2>1, ProcessOperatorsType, WindowRowsType DEF Crash
  <2>2. ASSUME NEW l \in Log, HeartbeatExpires(l)
        PROVE  TypeOK'
    BY <2>2 DEF HeartbeatExpires, Row
  <2>3. ASSUME NEW l \in Log, CooldownExpires(l)
        PROVE  TypeOK'
    BY <2>3 DEF CooldownExpires, Row
  <2>4. ASSUME NEW w \in Worker, NEW l \in Log, BackoffExpires(w, l)
        PROVE  TypeOK'
    BY <2>4 DEF BackoffExpires, Process
  <2>5. QED
    BY <1>2, <2>1, <2>2, <2>3, <2>4 DEF Environment
<1>3. QED
  BY <1>1, <1>2 DEF Next

LEMMA LogsInHandStep ==
    ASSUME TypeOK, LogsInHand, Next
    PROVE  LogsInHand'
<1> SUFFICES ASSUME NEW v \in Worker
             PROVE  worker'[v].log \in Log
                      <=> worker'[v].pc \in DrivePC \cup {"window"}
  BY DEF LogsInHand
<1>0. /\ worker \in [Worker -> Process] /\ worker[v] \in Process
      /\ worker[v].log \in Log <=> worker[v].pc \in DrivePC \cup {"window"}
      /\ NoLog \notin Log
  BY ConstantsAssumption DEF TypeOK, LogsInHand
<1>1. ASSUME NEW w \in Worker, WorkerStep(w)
      PROVE  worker'[v].log \in Log
               <=> worker'[v].pc \in DrivePC \cup {"window"}
  <2>1. CASE v # w
    <3>1. worker'[v] = worker[v]
      BY <1>0, <1>1, <2>1
         DEF WorkerStep, Start, SkipWindow, CreateWindow, ReadWindow,
             WriteWindow, EnterLoop, ReapSelect, ReapUpdate, Claim,
             NothingToClaim, Fetch, PersistEntry, SaveProgress, BatchFails,
             HandleFailure, ReleaseClaim, ObserveOldest, ExtendWindow,
             MarkComplete, Refresh, LimitReached
    <3>2. QED
      BY <1>0, <3>1
  <2>2. CASE v = w
    <3>1. CASE Start(w)
      BY <1>0, <2>2, <3>1 DEF Start, DrivePC, Process
    <3>2. CASE EnterLoop(w)
      BY <1>0, <2>2, <3>2 DEF EnterLoop, DrivePC, Process
    <3>3. CASE ReapSelect(w) \/ ReapUpdate(w) \/ NothingToClaim(w)
      <4>1. /\ worker[w].pc \in {"loop", "reap", "claim"}
            /\ worker'[w].pc \in {"loop", "reap", "claim"}
            /\ worker'[w].log = worker[w].log
        <5>1. CASE ReapSelect(w)
          BY <1>0, <2>2, <5>1 DEF ReapSelect, Process
        <5>2. CASE ReapUpdate(w)
          BY <1>0, <2>2, <5>2 DEF ReapUpdate, Process
        <5>3. CASE NothingToClaim(w)
          BY <1>0, <2>2, <5>3 DEF NothingToClaim, Process
        <5>4. QED
          BY <3>3, <5>1, <5>2, <5>3
      <4>2. QED
        BY <1>0, <2>2, <4>1 DEF DrivePC
    <3>4. ASSUME NEW l \in Log,
                 \/ SkipWindow(w, l)
                 \/ \E lo \in Pivots, hi \in Heads : CreateWindow(w, l, lo, hi)
          PROVE  /\ worker'[v].log = worker[v].log
                 /\ worker'[v].pc = worker[v].pc
      BY <1>0, <2>2, <3>4 DEF SkipWindow, CreateWindow, Process
    <3>5. ASSUME NEW l \in Log, ReadWindow(w, l)
          PROVE  worker'[v].log \in Log /\ worker'[v].pc = "window"
      BY <1>0, <2>2, <3>5 DEF ReadWindow, Process
    <3>6. CASE \E lo \in Pivots, hi \in Heads : WriteWindow(w, lo, hi)
      BY <1>0, <2>2, <3>6 DEF WriteWindow, DrivePC, Process
    <3>7. CASE \E l \in Log : Claim(w, l)
      BY <1>0, <2>2, <3>7 DEF Claim, DriveFrom, DrivePC, Process
    <3>8. ASSUME NEW size \in BatchSizes, Fetch(w, size)
          PROVE  worker'[v].log = worker[v].log /\ worker'[v].pc = "persist"
      BY <1>0, <2>2, <3>8 DEF Fetch, Process
    <3>8a. ASSUME NEW stored \in BOOLEAN, PersistEntry(w, stored)
           PROVE  worker'[v].log = worker[v].log /\ worker'[v].pc = worker[v].pc
      BY <1>0, <2>2, <3>8a DEF PersistEntry, Process
    <3>8b. (\E size \in BatchSizes : Fetch(w, size)) => worker[v].pc = "drive"
      BY <2>2 DEF Fetch
    <3>9. CASE SaveProgress(w)
      BY <1>0, <2>2, <3>9 DEF SaveProgress, DrivePC, Process
    <3>9a. ASSUME NEW kind \in FailureKinds, BatchFails(w, kind)
           PROVE  /\ worker'[v].log = worker[v].log /\ worker'[v].pc = "failed"
                  /\ worker[v].pc \in {"drive", "persist"}
      BY <1>0, <2>2, <3>9a DEF BatchFails, Process
    <3>10. CASE HandleFailure(w) \/ ObserveOldest(w) \/ ExtendWindow(w)
      <4>1. CASE HandleFailure(w)
        BY <1>0, <2>2, <4>1 DEF HandleFailure, DrivePC, Process
      <4>2. CASE ObserveOldest(w)
        BY <1>0, <2>2, <4>2 DEF ObserveOldest, DrivePC, Process
      <4>3. CASE ExtendWindow(w)
        BY <1>0, <2>2, <4>3 DEF ExtendWindow, DrivePC, Process
      <4>4. QED
        BY <3>10, <4>1, <4>2, <4>3
    <3>11. CASE ReleaseClaim(w) \/ MarkComplete(w) \/ LimitReached(w)
      <4>1. worker'[w].pc = "loop" /\ worker'[w].log = NoLog
        <5>1. CASE ReleaseClaim(w)
          BY <1>0, <2>2, <5>1 DEF ReleaseClaim, Looping, Down
        <5>2. CASE MarkComplete(w)
          BY <1>0, <2>2, <5>2 DEF MarkComplete, Looping, Down
        <5>3. CASE LimitReached(w)
          BY <1>0, <2>2, <5>3 DEF LimitReached, Looping, Down
        <5>4. QED
          BY <3>11, <5>1, <5>2, <5>3
      <4>2. QED
        BY <1>0, <2>2, <4>1 DEF DrivePC
    <3>12. CASE Refresh(w)
      BY <1>0, <2>2, <3>12
         DEF Refresh, MayRefresh, DriveFrom, Looping, Down, DrivePC, Process
    <3>13. QED
      BY <1>0, <1>1, <3>1, <3>2, <3>3, <3>4, <3>5, <3>6, <3>7, <3>8, <3>8a,
         <3>8b, <3>9, <3>9a, <3>10, <3>11, <3>12 DEF WorkerStep, DrivePC
  <2>3. QED
    BY <2>1, <2>2
<1>2. CASE Environment
  BY <1>0, <1>2
     DEF Environment, Crash, HeartbeatExpires, CooldownExpires, BackoffExpires,
         Down, DrivePC, Process
<1>3. QED
  BY <1>1, <1>2 DEF Next

(* Whatever workers, logs and failures there are, every table and every    *)
(* worker of the dispatcher keeps its type: no checkpoint, window bound or *)
(* counter goes below zero, no status outside the code's list is written. *)
THEOREM TypeCorrect == Spec => []TypeOK
<1>1. Init => TypeOK /\ LogsInHand
  BY TypeInit, ConstantsAssumption DEF Init, LogsInHand, Down, DrivePC
<1>2. TypeOK /\ LogsInHand /\ [Next]_vars => (TypeOK /\ LogsInHand)'
  <2>1. CASE Next
    BY <2>1, TypeStep, LogsInHandStep
  <2>2. CASE UNCHANGED vars
    BY <2>2 DEF vars, TypeOK, LogsInHand
  <2>3. QED
    BY <2>1, <2>2
<1>3. QED
  BY <1>1, <1>2, PTL DEF Spec

---------------------------------------------------------------------------
(* Coverage *)

LEMMA CoveredJoin ==
    ASSUME NEW S, NEW a \in Nat, NEW b \in Nat, NEW c \in Nat,
           a .. b - 1 \subseteq S, b .. c - 1 \subseteq S
    PROVE  a .. c - 1 \subseteq S
  OBVIOUS

(* What most statements leave of a row: its window, its checkpoint and     *)
(* whether it is complete. *)
SameWindow(new, old) ==
    /\ new.start = old.start /\ new.end = old.end
    /\ new.checkpoint = old.checkpoint
    /\ new.completed = old.completed
    /\ new.status = "absent" => old.status = "absent"

LEMMA RowOperatorsWindow ==
    ASSUME NEW r \in Row, NEW w \in Worker
    PROVE  /\ SameWindow(ClaimRow(r, w), r)
           /\ SameWindow(ReleaseRow(r), r)
           /\ SameWindow(ReapRow(r), r)
           /\ \A kind \in FailureKinds \cup {"none"}, n \in Nat :
                 SameWindow(FailedRow(r, w, kind, n), r)
           /\ \A a \in Age : SameWindow(ObserveRow(r, a), r)
<1>1. /\ SameWindow(ClaimRow(r, w), r)
      /\ SameWindow(ReleaseRow(r), r)
      /\ SameWindow(ReapRow(r), r)
  BY DEF SameWindow, Row, ClaimRow, ReleaseRow, ReapRow
<1>2. /\ SameWindow(PausedRow(r, w), r)
      /\ SameWindow(DegradedRow(r, w), r)
  BY DEF SameWindow, Row, PausedRow, DegradedRow, IfOwned
<1>3. ASSUME NEW hinted \in BOOLEAN
      PROVE  SameWindow(RetryingRow(r, w, hinted), r)
  <2>1. /\ RetryingRow(r, w, hinted).start = r.start
        /\ RetryingRow(r, w, hinted).end = r.end
        /\ RetryingRow(r, w, hinted).checkpoint = r.checkpoint
        /\ RetryingRow(r, w, hinted).completed = r.completed
    BY DEF Row, RetryingRow, IfOwned
  <2>2. RetryingRow(r, w, hinted).status = "absent" => r.status = "absent"
    BY DEF Row, RetryingRow, IfOwned
  <2>3. QED
    BY <2>1, <2>2 DEF SameWindow
<1>4. ASSUME NEW kind \in FailureKinds \cup {"none"}, NEW n \in Nat
      PROVE  SameWindow(FailedRow(r, w, kind, n), r)
  BY <1>2, <1>3 DEF FailedRow
<1>5. \A a \in Age : SameWindow(ObserveRow(r, a), r)
  BY DEF SameWindow, Row, ObserveRow
<1>6. QED
  BY <1>1, <1>4, <1>5

(* What a step of w has to keep for the invariant to survive it: the       *)
(* windows, its own copies, and what the other holders rely on.  *)
LEMMA CoverageFromParts ==
    ASSUME CoverageInv, TypeOK', LogsInHand', NEW w \in Worker,
           \A l \in Log : outcomes[l] \subseteq outcomes'[l],
           \A l \in Log : disturbed'[l] = {} => disturbed[l] = {},
           \A v \in Worker \ {w} : worker'[v] = worker[v],
           \A l \in Log : rows'[l].status = "absent" => rows[l].status = "absent",
           worker'[w].log \in Log => rows'[worker'[w].log].status # "absent",
           \A l \in Log : disturbed'[l] = {} =>
              /\ Covered(l, rows[l].start, rows[l].checkpoint)'
              /\ rows'[l].completed => Covered(l, rows[l].start, rows[l].end + 1)'
              /\ \A v \in Worker \ {w} : Drives(v, l) =>
                    /\ rows[l].start <= rows'[l].start
                    /\ rows'[l].end = rows[l].end
                    /\ rows'[l].completed = rows[l].completed
              /\ Drives(w, l)' =>
                    Drives(w, l) \/ \A v \in Worker \ {w} : ~ Drives(v, l),
           SnapshotCovered(w)'
    PROVE  CoverageInv'
<1>1. TypeOK /\ LogsInHand /\ HeldLogsExist /\ OneDriver
  BY DEF CoverageInv
<1>2. HeldLogsExist'
  BY <1>1 DEF HeldLogsExist
<1>3. OneDriver'
  <2> SUFFICES ASSUME NEW l \in Log, disturbed'[l] = {},
                      NEW u \in Worker, NEW v \in Worker,
                      Drives(u, l)', Drives(v, l)'
               PROVE  u = v
    BY DEF OneDriver
  <2>1. \A x \in Worker \ {w} : Drives(x, l)' => Drives(x, l)
    BY DEF Drives
  <2>2. QED
    BY <1>1, <2>1 DEF OneDriver
<1>4. CheckpointCovered' /\ CompletionCovered'
  BY DEF CheckpointCovered, CompletionCovered
<1>5. ASSUME NEW v \in Worker \ {w}
      PROVE  SnapshotCovered(v)'
  <2> DEFINE p == worker[v]
             l == p.log
  <2>0. worker'[v] = p /\ p \in Process
    BY <1>1 DEF TypeOK
  <2> SUFFICES ASSUME l # NoLog, disturbed'[l] = {}
               PROVE  /\ Covered(l, p.cur.start, p.cur.checkpoint)'
                      /\ p.pc = "persist" =>
                            /\ Covered(l, p.cur.checkpoint, p.pos)'
                            /\ p.pos <= p.got
                      /\ p.pc \in {"failed", "release", "observe", "decide"} =>
                            Covered(l, p.cur.start, p.upto)'
                      /\ p.pc \in DrivePC => ~ rows'[l].completed
                      /\ p.pc \in DrivePC \ {"refresh"} =>
                            /\ p.cur.start <= rows'[l].start
                            /\ p.cur.end = rows'[l].end
    BY <2>0 DEF SnapshotCovered, Covered
  <2>1. l \in Log /\ disturbed[l] = {}
    BY <2>0 DEF Process
  <2>2. SnapshotCovered(v)
    BY DEF CoverageInv
  <2>3. /\ Covered(l, p.cur.start, p.cur.checkpoint)
        /\ p.pc = "persist" => Covered(l, p.cur.checkpoint, p.pos) /\ p.pos <= p.got
        /\ p.pc \in {"failed", "release", "observe", "decide"} =>
              Covered(l, p.cur.start, p.upto)
        /\ p.pc \in DrivePC => ~ rows[l].completed
        /\ p.pc \in DrivePC \ {"refresh"} =>
              p.cur.start <= rows[l].start /\ p.cur.end = rows[l].end
    BY <2>1, <2>2 DEF SnapshotCovered
  <2>4. p.pc \in DrivePC =>
          /\ rows[l].start <= rows'[l].start
          /\ rows'[l].end = rows[l].end
          /\ rows'[l].completed = rows[l].completed
    BY <2>1 DEF Drives
  <2>5. outcomes[l] \subseteq outcomes'[l]
    BY <2>1
  <2>6. /\ Covered(l, p.cur.start, p.cur.checkpoint)'
        /\ p.pc = "persist" => Covered(l, p.cur.checkpoint, p.pos)'
        /\ p.pc \in {"failed", "release", "observe", "decide"} =>
              Covered(l, p.cur.start, p.upto)'
    BY <2>0, <2>3, <2>5 DEF Covered
  <2>7. p.pc \in DrivePC \ {"refresh"} => p.cur.start <= rows'[l].start
    <3>1. /\ p.cur.start \in Nat /\ rows[l].start \in Nat
          /\ rows'[l].start \in Nat
      BY <1>1, <2>0, <2>1 DEF TypeOK, Process, Snapshot, Row
    <3>2. QED
      BY <2>3, <2>4, <3>1
  <2>8. QED
    BY <2>3, <2>4, <2>6, <2>7
<1>6. QED
  BY <1>2, <1>3, <1>4, <1>5 DEF CoverageInv

(* A step that leaves the windows, the outcomes and the progress of the    *)
(* batch as they are. *)
KeepsHold(w) ==
    \/ worker'[w].log = NoLog
    \/ /\ worker'[w].log = worker[w].log
       /\ worker'[w].cur = worker[w].cur
       /\ worker'[w].pos = worker[w].pos
       /\ worker'[w].got = worker[w].got
       /\ worker'[w].upto = worker[w].upto
       /\ \/ worker'[w].pc = worker[w].pc
          \/ /\ worker[w].pc \in {"failed", "release", "observe", "decide"}
             /\ worker'[w].pc \in {"failed", "release", "observe", "decide"}

LEMMA QuietStep ==
    ASSUME CoverageInv, TypeOK', LogsInHand', NEW w \in Worker,
           UNCHANGED <<outcomes, disturbed>>,
           \A l \in Log : SameWindow(rows'[l], rows[l]),
           \A v \in Worker \ {w} : worker'[v] = worker[v],
           KeepsHold(w)
    PROVE  CoverageInv'
<1> DEFINE p == worker[w]
<1>0. /\ TypeOK /\ LogsInHand /\ HeldLogsExist /\ SnapshotCovered(w)
      /\ CheckpointCovered /\ CompletionCovered
      /\ NoLog \notin Log
  BY ConstantsAssumption DEF CoverageInv
<1>1. ASSUME NEW l \in Log
      PROVE  /\ rows'[l].start = rows[l].start /\ rows'[l].end = rows[l].end
             /\ rows'[l].checkpoint = rows[l].checkpoint
             /\ rows'[l].completed = rows[l].completed
             /\ rows[l].start \in Nat
             /\ rows'[l].status = "absent" => rows[l].status = "absent"
  BY <1>0, <1>1 DEF SameWindow, TypeOK, Row
<1>2. ASSUME NEW l \in Log, disturbed'[l] = {}
      PROVE  /\ Covered(l, rows[l].start, rows[l].checkpoint)'
             /\ rows'[l].completed => Covered(l, rows[l].start, rows[l].end + 1)'
             /\ \A v \in Worker \ {w} : Drives(v, l) =>
                   /\ rows[l].start <= rows'[l].start
                   /\ rows'[l].end = rows[l].end
                   /\ rows'[l].completed = rows[l].completed
  BY <1>0, <1>1, <1>2 DEF CheckpointCovered, CompletionCovered, Covered
<1>3. ASSUME NEW l \in Log, Drives(w, l)'
      PROVE  Drives(w, l)
  BY <1>0, <1>3 DEF KeepsHold, Drives, DrivePC
<1>4. worker'[w].log \in Log => rows'[worker'[w].log].status # "absent"
  BY <1>0, <1>1 DEF KeepsHold, HeldLogsExist
<1>5. SnapshotCovered(w)'
  <2>1. CASE worker'[w].log = NoLog
    BY <2>1 DEF SnapshotCovered
  <2>2. CASE worker'[w].log # NoLog /\ worker[w].log \in Log
    <3> DEFINE l == worker[w].log
    <3>1. /\ rows'[l].start = rows[l].start /\ rows'[l].end = rows[l].end
          /\ rows'[l].completed = rows[l].completed
      BY <1>1, <2>2
    <3>2. QED
      BY <1>0, <2>2, <3>1 DEF KeepsHold, SnapshotCovered, Covered, DrivePC
  <2>3. worker[w].log \in Log \cup {NoLog}
    BY <1>0 DEF TypeOK, Process
  <2>4. QED
    BY <2>1, <2>2, <2>3 DEF KeepsHold
<1>6. QED
  BY <1>1, <1>2, <1>3, <1>4, <1>5, CoverageFromParts

LEMMA CoverageStep ==
    ASSUME CoverageInv, Next
    PROVE  CoverageInv'
<1>0. /\ TypeOK /\ LogsInHand /\ HeldLogsExist /\ OneDriver
      /\ CheckpointCovered /\ CompletionCovered
      /\ \A w \in Worker : SnapshotCovered(w)
      /\ TypeOK' /\ LogsInHand'
  BY TypeStep, LogsInHandStep DEF CoverageInv
<1>n. NoLog \notin Log /\ NoWorker \notin Worker
  BY ConstantsAssumption, NoWorkerAssumption
<1>r. \A l \in Log : rows[l] \in Row /\ SameWindow(rows[l], rows[l])
  BY <1>0 DEF TypeOK, SameWindow
<1>1. ASSUME NEW w \in Worker, WorkerStep(w)
      PROVE  CoverageInv'
  <2> DEFINE p == worker[w]
  <2>p. /\ p \in Process
        /\ worker \in [Worker -> Process]
        /\ p.pc \in DrivePC \cup {"window"} => p.log \in Log
        /\ p.pc \notin DrivePC \cup {"window"} => p.log = NoLog
    BY <1>0 DEF TypeOK, LogsInHand, Process
  <2>1. CASE Start(w) \/ EnterLoop(w) \/ ReapSelect(w) \/ NothingToClaim(w)
             \/ \E l \in Log : SkipWindow(w, l)
    <3>1. UNCHANGED <<rows, outcomes, disturbed>>
      BY <2>1 DEF Start, EnterLoop, ReapSelect, NothingToClaim, SkipWindow
    <3>2. \A v \in Worker \ {w} : worker'[v] = worker[v]
      BY <2>1, <2>p DEF Start, EnterLoop, ReapSelect, NothingToClaim, SkipWindow
    <3>3. worker'[w].log = p.log /\ p.log = NoLog
      <4>1. CASE Start(w) \/ EnterLoop(w)
        BY <2>p, <4>1 DEF Start, EnterLoop, Process, DrivePC
      <4>2. CASE ReapSelect(w) \/ NothingToClaim(w)
        BY <2>p, <4>2 DEF ReapSelect, NothingToClaim, Process, DrivePC
      <4>3. ASSUME NEW l \in Log, SkipWindow(w, l)
            PROVE  worker'[w].log = p.log /\ p.log = NoLog
        BY <2>p, <4>3 DEF SkipWindow, Process, DrivePC
      <4>4. QED
        BY <2>1, <4>1, <4>2, <4>3
    <3>4. QED
      BY <1>0, <1>r, <3>1, <3>2, <3>3, QuietStep DEF KeepsHold
  <2>2. CASE ReapUpdate(w)
    <3>1. UNCHANGED <<outcomes, disturbed>>
      BY <2>2 DEF ReapUpdate
    <3>2. \A v \in Worker \ {w} : worker'[v] = worker[v]
      BY <2>2, <2>p DEF ReapUpdate
    <3>3. worker'[w].log = NoLog
      BY <2>2, <2>p DEF ReapUpdate, Process, DrivePC
    <3>4. \A l \in Log : SameWindow(rows'[l], rows[l])
      BY <1>r, <2>2, RowOperatorsWindow DEF ReapUpdate
    <3>5. QED
      BY <1>0, <3>1, <3>2, <3>3, <3>4, QuietStep DEF KeepsHold
  <2>3. CASE HandleFailure(w)
    <3>1. UNCHANGED <<outcomes, disturbed>> /\ p.log \in Log
      BY <2>3, <2>p DEF HandleFailure, DrivePC
    <3>2. \A v \in Worker \ {w} : worker'[v] = worker[v]
      BY <2>3, <2>p DEF HandleFailure
    <3>3. KeepsHold(w)
      BY <2>3, <2>p DEF HandleFailure, Process, DrivePC, KeepsHold
    <3>4. SameWindow(FailedRow(rows[p.log], w, p.fail, p.cur.retries), rows[p.log])
      <4>1. p.fail \in FailureKinds \cup {"none"} /\ p.cur.retries \in Nat
        BY <2>3, <2>p DEF HandleFailure, Process, Snapshot
      <4>2. QED
        BY <1>r, <3>1, <4>1, RowOperatorsWindow
    <3>5. \A l \in Log : SameWindow(rows'[l], rows[l])
      BY <1>0, <1>r, <2>3, <3>4 DEF HandleFailure, TypeOK
    <3>6. QED
      BY <1>0, <3>1, <3>2, <3>3, <3>5, QuietStep
  <2>4. CASE ReleaseClaim(w)
    <3>1. UNCHANGED <<outcomes, disturbed>> /\ p.log \in Log
      BY <2>4, <2>p DEF ReleaseClaim, DrivePC
    <3>2. \A v \in Worker \ {w} : worker'[v] = worker[v]
      BY <2>4, <2>p DEF ReleaseClaim
    <3>3. worker'[w].log = NoLog
      BY <2>4, <2>p DEF ReleaseClaim, Looping, Down
    <3>4. \A l \in Log : SameWindow(rows'[l], rows[l])
      BY <1>0, <1>r, <2>4, <3>1, RowOperatorsWindow DEF ReleaseClaim, TypeOK
    <3>5. QED
      BY <1>0, <3>1, <3>2, <3>3, <3>4, QuietStep DEF KeepsHold
  <2>5. CASE ObserveOldest(w)
    <3>1. UNCHANGED <<outcomes, disturbed>> /\ p.log \in Log
      BY <2>5, <2>p DEF ObserveOldest, DrivePC
    <3>2. \A v \in Worker \ {w} : worker'[v] = worker[v]
      BY <2>5, <2>p DEF ObserveOldest
    <3>3. KeepsHold(w)
      BY <2>5, <2>p DEF ObserveOldest, Process, DrivePC, KeepsHold
    <3>4. SameWindow(ObserveRow(rows[p.log], p.hit), rows[p.log])
      BY <1>r, <2>p, <3>1, RowOperatorsWindow DEF Process
    <3>5. \A l \in Log : SameWindow(rows'[l], rows[l])
      BY <1>0, <1>r, <2>5, <3>4 DEF ObserveOldest, TypeOK
    <3>6. QED
      BY <1>0, <3>1, <3>2, <3>3, <3>5, QuietStep
  <2>6. CASE LimitReached(w)
    <3>1. UNCHANGED <<rows, outcomes, disturbed>>
      BY <2>6 DEF LimitReached
    <3>2. \A v \in Worker \ {w} : worker'[v] = worker[v]
      BY <2>6, <2>p DEF LimitReached
    <3>3. worker'[w].log = NoLog
      BY <2>6, <2>p DEF LimitReached, Looping, Down
    <3>4. QED
      BY <1>0, <1>r, <3>1, <3>2, <3>3, QuietStep DEF KeepsHold
  <2>7. ASSUME NEW l \in Log, NEW lo \in Pivots, NEW hi \in Heads,
               CreateWindow(w, l, lo, hi)
        PROVE  CoverageInv'
    <3>1. /\ UNCHANGED <<outcomes, disturbed>>
          /\ \A v \in Worker \ {w} : worker'[v] = worker[v]
          /\ worker'[w].log = NoLog
          /\ lo \in Nat
      BY <2>7, <2>p, ConstantsAssumption DEF CreateWindow, DrivePC, Process
    <3>2. /\ rows[l].status = "absent"
          /\ \A k \in Log \ {l} : rows'[k] = rows[k]
          /\ rows'[l].start = lo /\ rows'[l].checkpoint = lo
          /\ ~ rows'[l].completed /\ rows'[l].status # "absent"
      BY <1>0, <2>7 DEF CreateWindow, TypeOK, NewRow, AbsentRow
    <3>3. \A v \in Worker : ~ Drives(v, l)
      BY <1>0, <3>2 DEF HeldLogsExist, Drives
    <3>4. ASSUME NEW k \in Log, disturbed'[k] = {}
          PROVE  /\ Covered(k, rows[k].start, rows[k].checkpoint)'
                 /\ rows'[k].completed => Covered(k, rows[k].start, rows[k].end + 1)'
      <4>1. CASE k = l
        BY <3>1, <3>2, <4>1 DEF Covered
      <4>2. CASE k # l
        BY <1>0, <3>1, <3>2, <3>4, <4>2
           DEF CheckpointCovered, CompletionCovered, Covered
      <4>3. QED
        BY <4>1, <4>2
    <3>5. ASSUME NEW k \in Log, NEW v \in Worker \ {w}, Drives(v, k)
          PROVE  /\ rows[k].start <= rows'[k].start
                 /\ rows'[k].end = rows[k].end
                 /\ rows'[k].completed = rows[k].completed
      BY <1>r, <3>2, <3>3, <3>5 DEF Row
    <3>6. SnapshotCovered(w)' /\ \A k \in Log : ~ Drives(w, k)'
      BY <1>n, <3>1 DEF SnapshotCovered, Drives
    <3>7. QED
      BY <1>n, <1>0, <3>1, <3>2, <3>4, <3>5, <3>6, CoverageFromParts
  <2>8. ASSUME NEW l \in Log, ReadWindow(w, l)
        PROVE  CoverageInv'
    <3>1. /\ UNCHANGED <<rows, outcomes, disturbed>>
          /\ \A v \in Worker \ {w} : worker'[v] = worker[v]
          /\ worker'[w].log = l /\ worker'[w].pc = "window"
          /\ worker'[w].cur.start = rows[l].start
          /\ worker'[w].cur.checkpoint = rows[l].checkpoint
          /\ rows[l].status # "absent"
      BY <2>8, <2>p DEF ReadWindow, Process, SnapshotOf
    <3>2. SnapshotCovered(w)' /\ \A k \in Log : ~ Drives(w, k)'
      BY <1>0, <3>1
         DEF SnapshotCovered, CheckpointCovered, Covered, Drives, DrivePC
    <3>3. ASSUME NEW k \in Log
          PROVE  rows[k].start <= rows'[k].start
      BY <1>r, <3>1 DEF Row
    <3>4. QED
      BY <1>0, <3>1, <3>2, <3>3, CoverageFromParts
         DEF CheckpointCovered, CompletionCovered, Covered
  <2>9. ASSUME NEW lo \in Pivots, NEW hi \in Heads, WriteWindow(w, lo, hi)
        PROVE  CoverageInv'
    <3>0. PICK l \in Log : l = p.log
      BY <2>9, <2>p DEF WriteWindow
    <3> DEFINE r == rows[l]
    <3>1. /\ l = p.log /\ p.pc = "window" /\ r \in Row
          /\ lo \in Nat /\ hi \in Nat
          /\ UNCHANGED outcomes
      BY <1>r, <2>9, <3>0, ConstantsAssumption DEF WriteWindow
    <3>2. /\ \A v \in Worker \ {w} : worker'[v] = worker[v]
          /\ worker'[w].log = NoLog
      BY <2>9, <2>p DEF WriteWindow, Process
    <3>3. /\ \A k \in Log \ {l} : rows'[k] = rows[k]
          /\ rows'[l].start = lo /\ rows'[l].end = hi
          /\ rows'[l].checkpoint = p.cur.checkpoint
          /\ rows'[l].completed = r.completed
          /\ rows'[l].status = r.status
      BY <1>0, <2>9, <3>1 DEF WriteWindow, TypeOK, SetWindow, Row
    <3>4. /\ \A k \in Log : disturbed'[k] = {} => disturbed[k] = {}
          /\ disturbed'[l] = {} =>
                /\ lo >= r.start /\ lo >= p.cur.start
                /\ hi = r.end \/ (~ r.completed /\ \A v \in Worker : ~ Drives(v, l))
      <4>1. CASE \/ lo < r.start \/ lo < p.cur.start
                 \/ hi # r.end /\ (r.completed \/ \E v \in Worker : Drives(v, l))
        <5>1. disturbed' = [disturbed EXCEPT ![l] = @ \cup {"realigned"}]
          BY <2>9, <3>0, <4>1 DEF WriteWindow, Disturb
        <5>2. QED
          BY <1>0, <3>1, <5>1 DEF TypeOK
      <4>2. CASE ~ (\/ lo < r.start \/ lo < p.cur.start
                    \/ hi # r.end /\ (r.completed \/ \E v \in Worker : Drives(v, l)))
        <5>1. disturbed' = disturbed
          BY <2>9, <3>0, <4>2 DEF WriteWindow, Disturb
        <5>2. r.start \in Nat /\ p.cur.start \in Nat
          BY <2>p, <3>1 DEF Row, Process, Snapshot
        <5>3. QED
          BY <3>1, <4>2, <5>1, <5>2
      <4>3. QED
        BY <4>1, <4>2
    <3>5. ASSUME disturbed'[l] = {}
          PROVE  /\ Covered(l, rows[l].start, rows[l].checkpoint)'
                 /\ rows'[l].completed => Covered(l, rows[l].start, rows[l].end + 1)'
      <4>1. /\ p.cur.start \in Nat /\ p.cur.checkpoint \in Nat
            /\ r.start \in Nat /\ r.end \in Nat
        BY <2>p, <3>1 DEF Process, Snapshot, Row
      <4>2. Covered(l, p.cur.start, p.cur.checkpoint)
        BY <1>0, <1>n, <3>1, <3>4, <3>5 DEF SnapshotCovered
      <4>3. Covered(l, lo, p.cur.checkpoint)
        BY <3>1, <3>4, <3>5, <4>1, <4>2 DEF Covered
      <4>4. r.completed => hi = r.end /\ Covered(l, r.start, r.end + 1)
        BY <1>0, <3>1, <3>4, <3>5 DEF CompletionCovered
      <4>5. r.completed => Covered(l, lo, hi + 1)
        BY <3>1, <3>4, <3>5, <4>1, <4>4 DEF Covered
      <4>6. QED
        BY <3>1, <3>3, <4>3, <4>5 DEF Covered
    <3>6. ASSUME NEW k \in Log, disturbed'[k] = {}
          PROVE  /\ Covered(k, rows[k].start, rows[k].checkpoint)'
                 /\ rows'[k].completed => Covered(k, rows[k].start, rows[k].end + 1)'
      <4>1. CASE k # l
        BY <1>0, <3>1, <3>3, <3>4, <3>6, <4>1
           DEF CheckpointCovered, CompletionCovered, Covered
      <4>2. QED
        BY <3>5, <3>6, <4>1
    <3>7. ASSUME NEW k \in Log, disturbed'[k] = {}, NEW v \in Worker \ {w},
                 Drives(v, k)
          PROVE  /\ rows[k].start <= rows'[k].start
                 /\ rows'[k].end = rows[k].end
                 /\ rows'[k].completed = rows[k].completed
      <4>1. CASE k = l
        BY <1>r, <3>1, <3>3, <3>4, <3>7, <4>1 DEF Row
      <4>2. CASE k # l
        BY <1>r, <3>3, <4>2 DEF Row
      <4>3. QED
        BY <4>1, <4>2
    <3>8. /\ SnapshotCovered(w)' /\ \A k \in Log : ~ Drives(w, k)'
          /\ \A k \in Log : rows'[k].status = "absent" => rows[k].status = "absent"
          /\ worker'[w].log \notin Log
      BY <1>n, <3>2, <3>3 DEF SnapshotCovered, Drives
    <3>9. QED
      BY <1>0, <3>1, <3>2, <3>4, <3>6, <3>7, <3>8, CoverageFromParts
  <2>10. ASSUME NEW l \in Log, Claim(w, l)
         PROVE  CoverageInv'
    <3>1. /\ UNCHANGED outcomes
          /\ \A v \in Worker \ {w} : worker'[v] = worker[v]
          /\ rows[l].status # "absent" /\ ~ rows[l].completed
      BY <2>10, <2>p DEF Claim, Claimable
    <3>2. /\ worker'[w].pc = "drive" /\ worker'[w].log = l
          /\ worker'[w].cur = SnapshotOf(rows[l])
      BY <2>10, <2>p DEF Claim, DriveFrom, Process
    <3>3. \A k \in Log : SameWindow(rows'[k], rows[k])
      BY <1>0, <1>r, <2>10, RowOperatorsWindow DEF Claim, TypeOK
    <3>4. /\ \A k \in Log : disturbed'[k] = {} => disturbed[k] = {}
          /\ disturbed'[l] = {} => \A v \in Worker \ {w} : ~ Drives(v, l)
      <4>1. CASE \E v \in Worker \ {w} : Drives(v, l)
        <5>1. disturbed' = [disturbed EXCEPT ![l] = @ \cup {"overtaken"}]
          BY <2>10, <4>1 DEF Claim, Disturb
        <5>2. QED
          BY <1>0, <5>1 DEF TypeOK
      <4>2. CASE ~ \E v \in Worker \ {w} : Drives(v, l)
        BY <2>10, <4>2 DEF Claim, Disturb
      <4>3. QED
        BY <4>1, <4>2
    <3>5. ASSUME NEW k \in Log
          PROVE  /\ rows'[k].start = rows[k].start /\ rows'[k].end = rows[k].end
                 /\ rows'[k].checkpoint = rows[k].checkpoint
                 /\ rows'[k].completed = rows[k].completed
                 /\ rows[k].start \in Nat
                 /\ rows'[k].status = "absent" => rows[k].status = "absent"
      BY <1>r, <3>3 DEF SameWindow, Row
    <3>6. ASSUME NEW k \in Log, disturbed'[k] = {}
          PROVE  /\ Covered(k, rows[k].start, rows[k].checkpoint)'
                 /\ rows'[k].completed => Covered(k, rows[k].start, rows[k].end + 1)'
                 /\ \A v \in Worker \ {w} : Drives(v, k) =>
                       /\ rows[k].start <= rows'[k].start
                       /\ rows'[k].end = rows[k].end
                       /\ rows'[k].completed = rows[k].completed
                 /\ Drives(w, k)' => \A v \in Worker \ {w} : ~ Drives(v, k)
      BY <1>0, <3>1, <3>2, <3>4, <3>5, <3>6
         DEF CheckpointCovered, CompletionCovered, Covered, Drives
    <3>7. SnapshotCovered(w)'
      <4>1. /\ worker'[w].cur.start = rows[l].start
            /\ worker'[w].cur.end = rows[l].end
            /\ worker'[w].cur.checkpoint = rows[l].checkpoint
        BY <3>2 DEF SnapshotOf
      <4>2. QED
        BY <3>1, <3>2, <3>5, <3>6, <4>1 DEF SnapshotCovered, Covered
    <3>8. QED
      BY <1>0, <3>1, <3>2, <3>4, <3>5, <3>6, <3>7, CoverageFromParts
  <2>11. ASSUME NEW size \in BatchSizes, Fetch(w, size)
         PROVE  CoverageInv'
    <3>0. PICK l \in Log : l = p.log
      BY <2>11, <2>p DEF Fetch, DrivePC
    <3>1. /\ UNCHANGED <<rows, outcomes, disturbed>> /\ p.pc = "drive"
          /\ \A v \in Worker \ {w} : worker'[v] = worker[v]
      BY <2>11, <2>p DEF Fetch
    <3>2. PICK got \in {p.cur.checkpoint}
                       \cup (p.cur.checkpoint .. BatchEnd(p.cur, size)) :
             worker' = [worker EXCEPT ![w].pc = "persist",
                                      ![w].pos = p.cur.checkpoint,
                                      ![w].got = got,
                                      ![w].upto = BatchEnd(p.cur, size)]
      BY <2>11 DEF Fetch
    <3>3. /\ worker'[w].pc = "persist" /\ worker'[w].log = l
          /\ worker'[w].cur = p.cur
          /\ worker'[w].pos = p.cur.checkpoint
          /\ worker'[w].got = got /\ p.cur.checkpoint <= got
      BY <2>p, <3>0, <3>2 DEF Process, Snapshot
    <3>4. SnapshotCovered(w)'
      <4>1. p.cur.checkpoint \in Nat
        BY <2>p DEF Process, Snapshot
      <4>2. disturbed[l] = {} =>
              /\ Covered(l, p.cur.start, p.cur.checkpoint)
              /\ ~ rows[l].completed
              /\ p.cur.start <= rows[l].start /\ p.cur.end = rows[l].end
        BY <1>0, <1>n, <3>0, <3>1 DEF SnapshotCovered, DrivePC
      <4>3. Covered(l, p.cur.checkpoint, p.cur.checkpoint)
        BY <4>1 DEF Covered
      <4>4. QED
        BY <3>1, <3>3, <4>2, <4>3 DEF SnapshotCovered, Covered, DrivePC
    <3>5. ASSUME NEW k \in Log
          PROVE  rows[k].start <= rows'[k].start
      BY <1>r, <3>1 DEF Row
    <3>6. ASSUME NEW k \in Log, Drives(w, k)'
          PROVE  Drives(w, k)
      BY <3>0, <3>1, <3>3, <3>6 DEF Drives, DrivePC
    <3>7. QED
      BY <1>0, <3>0, <3>1, <3>3, <3>4, <3>5, <3>6, CoverageFromParts
         DEF CheckpointCovered, CompletionCovered, Covered, HeldLogsExist
  <2>12. ASSUME NEW stored \in BOOLEAN, PersistEntry(w, stored)
         PROVE  CoverageInv'
    <3>0. PICK l \in Log : l = p.log
      BY <2>12, <2>p DEF PersistEntry, DrivePC
    <3>1. /\ UNCHANGED <<rows, disturbed>> /\ p.pc = "persist"
          /\ \A v \in Worker \ {w} : worker'[v] = worker[v]
          /\ p.pos < p.got
      BY <2>12, <2>p DEF PersistEntry
    <3>2. /\ worker'[w].pc = "persist" /\ worker'[w].log = l
          /\ worker'[w].cur = p.cur
          /\ worker'[w].pos = p.pos + 1
          /\ worker'[w].got = p.got
      <4> DEFINE hit == IF stored /\ p.hit # "old"
                        THEN IF p.pos \in OldEntries THEN "old" ELSE "recent"
                        ELSE p.hit
      <4>1. worker' = [worker EXCEPT
                          ![w] = [p EXCEPT !.pos = p.pos + 1, !.hit = hit]]
        BY <2>12 DEF PersistEntry
      <4> HIDE DEF hit
      <4>2. QED
        BY <2>p, <3>0, <3>1, <4>1 DEF Process
    <3>3. /\ \A k \in Log : outcomes[k] \subseteq outcomes'[k]
          /\ p.pos \in outcomes'[l]
      BY <1>0, <2>12, <3>0 DEF PersistEntry, TypeOK
    <3>4. SnapshotCovered(w)'
      <4>1. /\ p.cur.start \in Nat /\ p.cur.checkpoint \in Nat
            /\ p.pos \in Nat /\ p.got \in Nat
        BY <2>p DEF Process, Snapshot
      <4>2. disturbed[l] = {} =>
              /\ Covered(l, p.cur.start, p.cur.checkpoint)
              /\ Covered(l, p.cur.checkpoint, p.pos)
              /\ ~ rows[l].completed
              /\ p.cur.start <= rows[l].start /\ p.cur.end = rows[l].end
        BY <1>0, <1>n, <3>0, <3>1 DEF SnapshotCovered, DrivePC
      <4>3. disturbed[l] = {} =>
              /\ p.cur.start .. p.cur.checkpoint - 1 \subseteq outcomes'[l]
              /\ p.cur.checkpoint .. (p.pos + 1) - 1 \subseteq outcomes'[l]
        BY <3>3, <4>1, <4>2 DEF Covered
      <4>4. p.pos + 1 <= p.got
        BY <3>1, <4>1
      <4>5. QED
        BY <3>1, <3>2, <4>2, <4>3, <4>4 DEF SnapshotCovered, Covered, DrivePC
    <3>5. ASSUME NEW k \in Log
          PROVE  rows[k].start <= rows'[k].start
      BY <1>r, <3>1 DEF Row
    <3>6. ASSUME NEW k \in Log, Drives(w, k)'
          PROVE  Drives(w, k)
      BY <3>0, <3>1, <3>2, <3>6 DEF Drives, DrivePC
    <3>7. ASSUME NEW k \in Log, disturbed'[k] = {}
          PROVE  /\ Covered(k, rows[k].start, rows[k].checkpoint)'
                 /\ rows'[k].completed => Covered(k, rows[k].start, rows[k].end + 1)'
      BY <1>0, <3>1, <3>3, <3>7 DEF CheckpointCovered, CompletionCovered, Covered
    <3>8. QED
      BY <1>0, <3>0, <3>1, <3>2, <3>3, <3>4, <3>5, <3>6, <3>7, CoverageFromParts
         DEF HeldLogsExist
  <2>13. CASE SaveProgress(w)
    <3>0. PICK l \in Log : l = p.log
      BY <2>13, <2>p DEF SaveProgress, DrivePC
    <3>1. /\ UNCHANGED outcomes /\ p.pc = "persist" /\ p.pos = p.got
          /\ \A v \in Worker \ {w} : worker'[v] = worker[v]
      BY <2>13, <2>p DEF SaveProgress
    <3>2. /\ worker'[w].pc \in {"observe", "decide"} /\ worker'[w].log = l
          /\ worker'[w].cur = p.cur /\ worker'[w].upto = p.upto
      BY <2>13, <2>p, <3>0 DEF SaveProgress, Process
    <3>3. /\ \A k \in Log \ {l} : rows'[k] = rows[k]
          /\ rows'[l].start = rows[l].start /\ rows'[l].end = rows[l].end
          /\ rows'[l].completed = rows[l].completed
          /\ rows'[l].status = "absent" => rows[l].status = "absent"
          /\ rows'[l].checkpoint \in {rows[l].checkpoint, p.upto}
      BY <1>0, <1>r, <2>13, <3>0 DEF SaveProgress, TypeOK, ProgressRow, IfOwned, Row
    <3>4. /\ \A k \in Log : disturbed'[k] = {} => disturbed[k] = {}
          /\ disturbed'[l] = {} => ~ (p.got < p.upto)
      <4>1. CASE p.got < p.upto
        <5>1. disturbed' = [disturbed EXCEPT ![l] = @ \cup {"short"}]
          BY <2>13, <3>0, <4>1 DEF SaveProgress, Disturb
        <5>2. QED
          BY <1>0, <5>1 DEF TypeOK
      <4>2. CASE ~ (p.got < p.upto)
        BY <2>13, <4>2 DEF SaveProgress, Disturb
      <4>3. QED
        BY <4>1, <4>2
    <3>5. /\ p.cur.start \in Nat /\ p.cur.checkpoint \in Nat
          /\ p.pos \in Nat /\ p.got \in Nat /\ p.upto \in Nat
          /\ rows[l].start \in Nat
      BY <1>r, <2>p DEF Process, Snapshot, Row
    <3>6. ASSUME disturbed'[l] = {}
          PROVE  /\ Covered(l, p.cur.start, p.cur.checkpoint)
                 /\ Covered(l, p.cur.start, p.upto)
                 /\ ~ rows[l].completed
                 /\ p.cur.start <= rows[l].start /\ p.cur.end = rows[l].end
      <4>1. /\ Covered(l, p.cur.start, p.cur.checkpoint)
            /\ Covered(l, p.cur.checkpoint, p.pos)
            /\ ~ rows[l].completed
            /\ p.cur.start <= rows[l].start /\ p.cur.end = rows[l].end
        BY <1>0, <1>n, <3>0, <3>1, <3>4, <3>6 DEF SnapshotCovered, DrivePC
      <4>2. p.upto <= p.pos
        BY <3>1, <3>4, <3>5, <3>6
      <4>3. Covered(l, p.cur.start, p.pos)
        BY <3>5, <4>1, CoveredJoin DEF Covered
      <4>4. Covered(l, p.cur.start, p.upto)
        BY <3>5, <4>2, <4>3 DEF Covered
      <4>5. QED
        BY <4>1, <4>4
    <3>7. SnapshotCovered(w)'
      BY <3>1, <3>2, <3>3, <3>6 DEF SnapshotCovered, Covered, DrivePC
    <3>8. ASSUME NEW k \in Log, disturbed'[k] = {}
          PROVE  /\ Covered(k, rows[k].start, rows[k].checkpoint)'
                 /\ rows'[k].completed => Covered(k, rows[k].start, rows[k].end + 1)'
      <4>1. CASE k # l
        BY <1>0, <3>1, <3>3, <3>4, <3>8, <4>1
           DEF CheckpointCovered, CompletionCovered, Covered
      <4>2. CASE k = l
        <5>1. Covered(l, rows[l].start, rows[l].checkpoint)
          BY <1>0, <3>4, <3>8, <4>2 DEF CheckpointCovered
        <5>2. Covered(l, rows[l].start, p.upto)
          BY <3>5, <3>6, <3>8, <4>2 DEF Covered
        <5>3. QED
          BY <3>1, <3>3, <3>6, <3>8, <4>2, <5>1, <5>2 DEF Covered
      <4>3. QED
        BY <4>1, <4>2
    <3>9. ASSUME NEW k \in Log
          PROVE  /\ rows[k].start <= rows'[k].start /\ rows'[k].end = rows[k].end
                 /\ rows'[k].completed = rows[k].completed
                 /\ rows'[k].status = "absent" => rows[k].status = "absent"
      BY <1>r, <3>3 DEF Row
    <3>10. ASSUME NEW k \in Log, Drives(w, k)'
           PROVE  Drives(w, k)
      BY <3>0, <3>1, <3>2, <3>10 DEF Drives, DrivePC
    <3>11. QED
      BY <1>0, <3>0, <3>1, <3>2, <3>4, <3>7, <3>8, <3>9, <3>10, CoverageFromParts
         DEF HeldLogsExist
  <2>14. ASSUME NEW kind \in FailureKinds, BatchFails(w, kind)
         PROVE  CoverageInv'
    <3>0. PICK l \in Log : l = p.log
      BY <2>14, <2>p DEF BatchFails, DrivePC
    <3>1. /\ UNCHANGED <<rows, outcomes, disturbed>>
          /\ p.pc \in {"drive", "persist"}
          /\ \A v \in Worker \ {w} : worker'[v] = worker[v]
      BY <2>14, <2>p DEF BatchFails
    <3>2. /\ worker'[w].pc = "failed" /\ worker'[w].log = l
          /\ worker'[w].cur = p.cur
          /\ worker'[w].upto = p.cur.checkpoint
      BY <2>14, <2>p, <3>0 DEF BatchFails, Process
    <3>3. SnapshotCovered(w)'
      BY <1>0, <1>n, <3>0, <3>1, <3>2 DEF SnapshotCovered, Covered, DrivePC
    <3>4. ASSUME NEW k \in Log
          PROVE  rows[k].start <= rows'[k].start
      BY <1>r, <3>1 DEF Row
    <3>5. ASSUME NEW k \in Log, Drives(w, k)'
          PROVE  Drives(w, k)
      BY <3>0, <3>1, <3>2, <3>5 DEF Drives, DrivePC
    <3>6. QED
      BY <1>0, <3>0, <3>1, <3>2, <3>3, <3>4, <3>5, CoverageFromParts
         DEF CheckpointCovered, CompletionCovered, Covered, HeldLogsExist
  <2>15. CASE ExtendWindow(w)
    <3>0. PICK l \in Log : l = p.log
      BY <2>15, <2>p DEF ExtendWindow, DrivePC
    <3>1. /\ UNCHANGED <<outcomes, disturbed>> /\ p.pc = "decide"
          /\ \A v \in Worker \ {w} : worker'[v] = worker[v]
      BY <2>15, <2>p DEF ExtendWindow
    <3>2. /\ worker'[w].pc = "refresh" /\ worker'[w].log = l
          /\ worker'[w].cur = p.cur
      BY <2>15, <2>p, <3>0 DEF ExtendWindow, Process
    <3>3. /\ \A k \in Log \ {l} : rows'[k] = rows[k]
          /\ rows'[l].start = rows'[l].checkpoint
          /\ rows'[l].completed = rows[l].completed
          /\ rows'[l].status = rows[l].status
          /\ rows'[l].start \in Nat
      BY <1>0, <1>r, <2>15, <3>0 DEF ExtendWindow, TypeOK, ExtendRow, Row
    <3>4. ASSUME disturbed'[l] = {}
          PROVE  /\ Covered(l, p.cur.start, p.cur.checkpoint)
                 /\ ~ rows[l].completed
                 /\ \A v \in Worker \ {w} : ~ Drives(v, l)
      <4>1. /\ Covered(l, p.cur.start, p.cur.checkpoint)
            /\ ~ rows[l].completed
        BY <1>0, <1>n, <3>0, <3>1, <3>4 DEF SnapshotCovered, DrivePC
      <4>2. \A v \in Worker \ {w} : ~ Drives(v, l)
        BY <1>0, <3>0, <3>1, <3>4 DEF OneDriver, Drives, DrivePC
      <4>3. QED
        BY <4>1, <4>2
    <3>5. SnapshotCovered(w)'
      BY <3>1, <3>2, <3>3, <3>4 DEF SnapshotCovered, Covered, DrivePC
    <3>6. ASSUME NEW k \in Log, disturbed'[k] = {}
          PROVE  /\ Covered(k, rows[k].start, rows[k].checkpoint)'
                 /\ rows'[k].completed => Covered(k, rows[k].start, rows[k].end + 1)'
      <4>1. CASE k # l
        BY <1>0, <3>1, <3>3, <3>6, <4>1
           DEF CheckpointCovered, CompletionCovered, Covered
      <4>2. CASE k = l
        BY <3>3, <3>4, <3>6, <4>2 DEF Covered
      <4>3. QED
        BY <4>1, <4>2
    <3>7. ASSUME NEW k \in Log, disturbed'[k] = {}, NEW v \in Worker \ {w},
                 Drives(v, k)
          PROVE  /\ rows[k].start <= rows'[k].start
                 /\ rows'[k].end = rows[k].end
                 /\ rows'[k].completed = rows[k].completed
      BY <1>r, <3>3, <3>4, <3>7 DEF Row
    <3>8. ASSUME NEW k \in Log, Drives(w, k)'
          PROVE  Drives(w, k)
      BY <3>0, <3>1, <3>2, <3>8 DEF Drives, DrivePC
    <3>9. /\ \A k \in Log : rows'[k].status = "absent" => rows[k].status = "absent"
          /\ rows'[l].status # "absent"
      BY <1>0, <3>0, <3>3 DEF HeldLogsExist
    <3>10. QED
      BY <1>0, <3>1, <3>2, <3>5, <3>6, <3>7, <3>8, <3>9, CoverageFromParts
  <2>16. CASE MarkComplete(w)
    <3>0. PICK l \in Log : l = p.log
      BY <2>16, <2>p DEF MarkComplete, DrivePC
    <3>1. /\ UNCHANGED <<outcomes, disturbed>> /\ p.pc = "decide"
          /\ \A v \in Worker \ {w} : worker'[v] = worker[v]
          /\ p.upto > p.cur.end
      BY <2>16, <2>p DEF MarkComplete, WindowDone
    <3>2. worker'[w].log = NoLog
      BY <2>16, <2>p DEF MarkComplete, Looping, Down
    <3>3. /\ \A k \in Log \ {l} : rows'[k] = rows[k]
          /\ rows'[l].start = rows[l].start /\ rows'[l].end = rows[l].end
          /\ rows'[l].checkpoint = rows[l].checkpoint
          /\ rows'[l].status = "complete"
      BY <1>0, <1>r, <2>16, <3>0 DEF MarkComplete, TypeOK, CompleteRow, Row
    <3>4. ASSUME disturbed'[l] = {}
          PROVE  /\ Covered(l, rows[l].start, rows[l].end + 1)
                 /\ \A v \in Worker \ {w} : ~ Drives(v, l)
      <4>1. /\ Covered(l, p.cur.start, p.upto)
            /\ p.cur.start <= rows[l].start /\ p.cur.end = rows[l].end
        BY <1>0, <1>n, <3>0, <3>1, <3>4 DEF SnapshotCovered, DrivePC
      <4>2. /\ p.cur.start \in Nat /\ p.upto \in Nat
            /\ rows[l].start \in Nat /\ rows[l].end \in Nat
        BY <1>r, <2>p DEF Process, Snapshot, Row
      <4>3. Covered(l, rows[l].start, rows[l].end + 1)
        BY <3>1, <4>1, <4>2 DEF Covered
      <4>4. \A v \in Worker \ {w} : ~ Drives(v, l)
        BY <1>0, <3>0, <3>1, <3>4 DEF OneDriver, Drives, DrivePC
      <4>5. QED
        BY <4>3, <4>4
    <3>5. ASSUME NEW k \in Log, disturbed'[k] = {}
          PROVE  /\ Covered(k, rows[k].start, rows[k].checkpoint)'
                 /\ rows'[k].completed => Covered(k, rows[k].start, rows[k].end + 1)'
      BY <1>0, <3>1, <3>3, <3>4, <3>5
         DEF CheckpointCovered, CompletionCovered, Covered
    <3>6. ASSUME NEW k \in Log, disturbed'[k] = {}, NEW v \in Worker \ {w},
                 Drives(v, k)
          PROVE  /\ rows[k].start <= rows'[k].start
                 /\ rows'[k].end = rows[k].end
                 /\ rows'[k].completed = rows[k].completed
      BY <1>r, <3>3, <3>4, <3>6 DEF Row
    <3>7. /\ SnapshotCovered(w)' /\ \A k \in Log : ~ Drives(w, k)'
          /\ worker'[w].log \notin Log
      BY <1>n, <3>2 DEF SnapshotCovered, Drives
    <3>8. \A k \in Log : rows'[k].status = "absent" => rows[k].status = "absent"
      BY <3>3
    <3>9. QED
      BY <1>0, <3>1, <3>5, <3>6, <3>7, <3>8, CoverageFromParts
  <2>17. CASE Refresh(w)
    <3>0. PICK l \in Log : l = p.log
      BY <2>17, <2>p DEF Refresh, MayRefresh, DrivePC
    <3>1. /\ UNCHANGED <<rows, outcomes, disturbed>> /\ Drives(w, l)
          /\ \A v \in Worker \ {w} : worker'[v] = worker[v]
      BY <2>17, <2>p, <3>0 DEF Refresh, MayRefresh, Drives, DrivePC
    <3>2. CASE rows[l].claimed_by = w
      <4>1. /\ worker'[w].pc = "drive" /\ worker'[w].log = l
            /\ worker'[w].cur = SnapshotOf(rows[l])
        BY <2>17, <2>p, <3>0, <3>2 DEF Refresh, DriveFrom, Process
      <4>2. SnapshotCovered(w)'
        <5>1. /\ worker'[w].cur.start = rows[l].start
              /\ worker'[w].cur.end = rows[l].end
              /\ worker'[w].cur.checkpoint = rows[l].checkpoint
              /\ rows[l].start \in Nat
          BY <1>r, <4>1 DEF SnapshotOf, Row
        <5>2. disturbed[l] = {} => ~ rows[l].completed
          BY <1>0, <1>n, <3>0, <3>1 DEF SnapshotCovered, Drives
        <5>3. QED
          BY <1>0, <3>1, <4>1, <5>1, <5>2
             DEF SnapshotCovered, CheckpointCovered, Covered
      <4>3. ASSUME NEW k \in Log
            PROVE  rows[k].start <= rows'[k].start
        BY <1>r, <3>1 DEF Row
      <4>4. ASSUME NEW k \in Log, Drives(w, k)'
            PROVE  Drives(w, k)
        BY <3>1, <4>1, <4>4 DEF Drives
      <4>5. QED
        BY <1>0, <3>0, <3>1, <4>1, <4>2, <4>3, <4>4, CoverageFromParts
           DEF CheckpointCovered, CompletionCovered, Covered, HeldLogsExist
    <3>3. CASE rows[l].claimed_by # w
      <4>1. worker'[w].log = NoLog
        BY <2>17, <2>p, <3>0, <3>3 DEF Refresh, Looping, Down
      <4>2. QED
        BY <1>0, <1>r, <3>1, <4>1, QuietStep DEF KeepsHold
    <3>4. QED
      BY <3>2, <3>3
  <2>18. QED
    BY <1>1, <2>1, <2>2, <2>3, <2>4, <2>5, <2>6, <2>7, <2>8, <2>9, <2>10,
       <2>11, <2>12, <2>13, <2>14, <2>15, <2>16, <2>17 DEF WorkerStep
<1>2. ASSUME NEW w \in Worker, Crash(w)
      PROVE  CoverageInv'
  <2>1. /\ UNCHANGED <<rows, outcomes, disturbed>>
        /\ \A v \in Worker \ {w} : worker'[v] = worker[v]
        /\ worker'[w].log = NoLog
    BY <1>0, <1>2 DEF Crash, TypeOK, Down
  <2>2. QED
    BY <1>0, <1>r, <2>1, QuietStep DEF KeepsHold
<1>3. ASSUME NEW l \in Log, HeartbeatExpires(l) \/ CooldownExpires(l)
      PROVE  CoverageInv'
  <2>1. /\ UNCHANGED <<outcomes, worker, disturbed>>
        /\ \A k \in Log : SameWindow(rows'[k], rows[k])
    <3>1. \A r \in Row : /\ SameWindow([r EXCEPT !.heartbeat = "stale"], r)
                         /\ SameWindow([r EXCEPT !.next_retry = "past"], r)
      BY DEF SameWindow, Row
    <3>2. CASE HeartbeatExpires(l)
      BY <1>0, <1>r, <3>1, <3>2 DEF HeartbeatExpires, TypeOK
    <3>3. CASE CooldownExpires(l)
      BY <1>0, <1>r, <3>1, <3>3 DEF CooldownExpires, TypeOK
    <3>4. QED
      BY <1>3, <3>2, <3>3
  <2>2. CASE Worker = {}
    BY <1>0, <2>1, <2>2
       DEF SameWindow, CoverageInv, HeldLogsExist, OneDriver, CheckpointCovered,
           CompletionCovered, Covered
  <2>3. ASSUME NEW w \in Worker
        PROVE  CoverageInv'
    BY <1>0, <2>1, QuietStep DEF KeepsHold
  <2>4. QED
    BY <2>2, <2>3
<1>4. ASSUME NEW w \in Worker, NEW l \in Log, BackoffExpires(w, l)
      PROVE  CoverageInv'
  <2>1. /\ UNCHANGED <<rows, outcomes, disturbed>>
        /\ \A v \in Worker \ {w} : worker'[v] = worker[v]
        /\ KeepsHold(w)
    BY <1>0, <1>4 DEF BackoffExpires, TypeOK, Process, KeepsHold
  <2>2. QED
    BY <1>0, <1>r, <2>1, QuietStep
<1>5. QED
  BY <1>1, <1>2, <1>3, <1>4 DEF Next, Environment

(* The windows, checkpoints and every worker's copy of them stay covered by *)
(* the recorded outcomes. *)
THEOREM CoverageInvariant == Spec => []CoverageInv
<1>1. Init => CoverageInv
  <2> SUFFICES ASSUME Init
               PROVE  CoverageInv
    OBVIOUS
  <2>1. TypeOK
    BY TypeInit
  <2>2. /\ \A w \in Worker : worker[w].log = NoLog /\ worker[w].pc = "down"
        /\ \A l \in Log : /\ rows[l].start = 0 /\ rows[l].checkpoint = 0
                          /\ ~ rows[l].completed
    BY DEF Init, Down, AbsentRow
  <2>3. NoLog \notin Log
    BY ConstantsAssumption
  <2>4. LogsInHand /\ HeldLogsExist /\ OneDriver
    BY <2>2, <2>3 DEF LogsInHand, HeldLogsExist, OneDriver, Drives, DrivePC
  <2>5. CheckpointCovered /\ CompletionCovered
    BY <2>2 DEF CheckpointCovered, CompletionCovered, Covered
  <2>6. \A w \in Worker : SnapshotCovered(w)
    BY <2>2 DEF SnapshotCovered
  <2>7. QED
    BY <2>1, <2>4, <2>5, <2>6 DEF CoverageInv
<1>2. CoverageInv /\ [Next]_vars => CoverageInv'
  <2>1. CASE Next
    BY <2>1, CoverageStep
  <2>2. CASE UNCHANGED vars
    BY <2>2 DEF vars, CoverageInv, TypeOK, LogsInHand, HeldLogsExist, OneDriver,
                Drives, CheckpointCovered, CompletionCovered, Covered,
                SnapshotCovered
  <2>3. QED
    BY <2>1, <2>2
<1>3. QED
  BY <1>1, <1>2, PTL DEF Spec

(* Resuming from the checkpoint of a log, after any crash, reap or restart *)
(* of any worker, skips no index of its window without an outcome. *)
THEOREM CheckpointSound == Spec => []CheckpointCovered
  BY CoverageInvariant, PTL DEF CoverageInv

(* A log reported complete has an outcome for every index of its window. *)
THEOREM CompletionSound == Spec => []CompletionCovered
  BY CoverageInvariant, PTL DEF CoverageInv

---------------------------------------------------------------------------
(* The retry budget *)

RetryInv == TypeOK /\ LogsInHand /\ OwnerCountsRight /\ RetryBudgetHeld

(* The statement leaves the counter alone and gives the log to nobody. *)
SameBudget(new, old) ==
    /\ new.retries = old.retries
    /\ new.claimed_by = old.claimed_by \/ new.claimed_by = NoWorker

LEMMA RowOperatorsBudget ==
    ASSUME NEW r \in Row
    PROVE  /\ SameBudget(r, r)
           /\ SameBudget(ReleaseRow(r), r)
           /\ SameBudget(ReapRow(r), r)
           /\ SameBudget(CompleteRow(r), r)
           /\ \A lo, hi, c \in Nat : SameBudget(SetWindow(r, lo, hi, c), r)
           /\ \A s \in Nat, a \in Age : SameBudget(ExtendRow(r, s, a), r)
           /\ \A a \in Age : SameBudget(ObserveRow(r, a), r)
           /\ SameBudget([r EXCEPT !.heartbeat = "stale"], r)
           /\ SameBudget([r EXCEPT !.next_retry = "past"], r)
  BY DEF SameBudget, Row, ReleaseRow, ReapRow, CompleteRow, SetWindow, ExtendRow,
         ObserveRow

(* A step of w survives when what it writes of the counters is within the  *)
(* budget and concerns only logs of its own. *)
LEMMA BudgetFromParts ==
    ASSUME RetryInv, TypeOK', LogsInHand', NEW w \in Worker,
           \A v \in Worker \ {w} : worker'[v] = worker[v],
           \A l \in Log :
              \/ SameBudget(rows'[l], rows[l])
              \/ /\ rows'[l].claimed_by = w \/ rows'[l].claimed_by = NoWorker
                 /\ rows'[l].retries < MaxAttempts,
           CountsRight(w)'
    PROVE  RetryInv'
<1>0. /\ TypeOK /\ LogsInHand /\ OwnerCountsRight /\ RetryBudgetHeld
      /\ NoWorker \notin Worker
  BY NoWorkerAssumption DEF RetryInv
<1>1. RetryBudgetHeld'
  BY <1>0 DEF RetryBudgetHeld, SameBudget
<1>2. ASSUME NEW v \in Worker \ {w}
      PROVE  CountsRight(v)'
  <2> DEFINE p == worker[v]
  <2> SUFFICES ASSUME p.pc \in {"drive", "persist", "failed"},
                      rows'[p.log].claimed_by = v
               PROVE  p.cur.retries = rows'[p.log].retries
    BY DEF CountsRight
  <2>1. p.log \in Log
    BY <1>0 DEF LogsInHand, DrivePC
  <2>2. SameBudget(rows'[p.log], rows[p.log])
    BY <1>0, <2>1
  <2>3. rows[p.log].claimed_by = v
    BY <1>0, <2>2 DEF SameBudget
  <2>4. p.cur.retries = rows[p.log].retries
    BY <1>0, <2>3 DEF OwnerCountsRight, CountsRight
  <2>5. QED
    BY <2>2, <2>4 DEF SameBudget
<1>3. QED
  BY <1>1, <1>2 DEF RetryInv, OwnerCountsRight

LEMMA BudgetStep ==
    ASSUME RetryInv, Next
    PROVE  RetryInv'
<1>0. /\ TypeOK /\ LogsInHand /\ OwnerCountsRight /\ RetryBudgetHeld
      /\ TypeOK' /\ LogsInHand'
  BY TypeStep, LogsInHandStep DEF RetryInv
<1>n. NoLog \notin Log /\ NoWorker \notin Worker /\ MaxAttempts \in Nat \ {0}
  BY ConstantsAssumption, NoWorkerAssumption
<1>r. \A l \in Log : rows[l] \in Row /\ SameBudget(rows[l], rows[l])
  BY <1>0 DEF TypeOK, SameBudget
<1>1. ASSUME NEW w \in Worker, WorkerStep(w)
      PROVE  RetryInv'
  <2> DEFINE p == worker[w]
  <2>p. /\ p \in Process
        /\ worker \in [Worker -> Process]
        /\ p.pc \in DrivePC \cup {"window"} => p.log \in Log
    BY <1>0 DEF TypeOK, LogsInHand, Process
  <2>1. CASE \/ Start(w) \/ EnterLoop(w) \/ ReapSelect(w) \/ NothingToClaim(w)
             \/ \E l \in Log : SkipWindow(w, l) \/ ReadWindow(w, l)
    <3>1. UNCHANGED rows
      BY <2>1 DEF Start, EnterLoop, ReapSelect, NothingToClaim, SkipWindow, ReadWindow
    <3>2. \A v \in Worker \ {w} : worker'[v] = worker[v]
      BY <2>1, <2>p
         DEF Start, EnterLoop, ReapSelect, NothingToClaim, SkipWindow, ReadWindow
    <3>3. worker'[w].pc \notin {"drive", "persist", "failed"}
      <4>1. CASE Start(w) \/ EnterLoop(w) \/ NothingToClaim(w)
        BY <2>p, <4>1 DEF Start, EnterLoop, NothingToClaim, Process
      <4>2. CASE ReapSelect(w)
        BY <2>p, <4>2 DEF ReapSelect, Process
      <4>3. ASSUME NEW l \in Log, SkipWindow(w, l)
            PROVE  worker'[w].pc = "init"
        BY <2>p, <4>3 DEF SkipWindow, Process
      <4>4. ASSUME NEW l \in Log, ReadWindow(w, l)
            PROVE  worker'[w].pc = "window"
        BY <2>p, <4>4 DEF ReadWindow, Process
      <4>5. QED
        BY <2>1, <4>1, <4>2, <4>3, <4>4
    <3>4. CountsRight(w)'
      BY <3>3 DEF CountsRight
    <3>5. QED
      BY <1>0, <1>r, <3>1, <3>2, <3>4, BudgetFromParts
  <2>2. ASSUME NEW l \in Log, NEW lo \in Pivots, NEW hi \in Heads,
               CreateWindow(w, l, lo, hi)
        PROVE  RetryInv'
    <3>1. /\ \A v \in Worker \ {w} : worker'[v] = worker[v]
          /\ worker'[w].pc = "init"
      BY <2>2, <2>p DEF CreateWindow, Process
    <3>2. /\ \A k \in Log \ {l} : rows'[k] = rows[k]
          /\ rows'[l].claimed_by = NoWorker
          /\ rows'[l].retries = 0
      BY <1>0, <2>2 DEF CreateWindow, TypeOK, NewRow, AbsentRow
    <3>3. CountsRight(w)'
      BY <3>1 DEF CountsRight
    <3>4. 0 < MaxAttempts
      BY <1>n
    <3>5. QED
      BY <1>0, <1>r, <3>1, <3>2, <3>3, <3>4, BudgetFromParts
  <2>3. ASSUME NEW lo \in Pivots, NEW hi \in Heads, WriteWindow(w, lo, hi)
        PROVE  RetryInv'
    <3>1. /\ \A v \in Worker \ {w} : worker'[v] = worker[v]
          /\ worker'[w].pc = "init" /\ p.log \in Log
      BY <2>3, <2>p DEF WriteWindow, Process
    <3>2. \A l \in Log : SameBudget(rows'[l], rows[l])
      <4>1. SameBudget(SetWindow(rows[p.log], lo, hi, p.cur.checkpoint), rows[p.log])
        BY <1>r, <2>p, <3>1, ConstantsAssumption, RowOperatorsBudget
           DEF Process, Snapshot
      <4>2. QED
        BY <1>0, <1>r, <2>3, <4>1 DEF WriteWindow, TypeOK
    <3>3. CountsRight(w)'
      BY <3>1 DEF CountsRight
    <3>4. QED
      BY <1>0, <3>1, <3>2, <3>3, BudgetFromParts
  <2>4. CASE ReapUpdate(w)
    <3>1. /\ \A v \in Worker \ {w} : worker'[v] = worker[v]
          /\ worker'[w].pc = "claim"
      BY <2>4, <2>p DEF ReapUpdate, Process
    <3>2. \A l \in Log : SameBudget(rows'[l], rows[l])
      BY <1>r, <2>4, RowOperatorsBudget DEF ReapUpdate
    <3>3. CountsRight(w)'
      BY <3>1 DEF CountsRight
    <3>4. QED
      BY <1>0, <3>1, <3>2, <3>3, BudgetFromParts
  <2>5. ASSUME NEW l \in Log, Claim(w, l)
        PROVE  RetryInv'
    <3>1. /\ \A v \in Worker \ {w} : worker'[v] = worker[v]
          /\ worker'[w].log = l
          /\ worker'[w].cur = SnapshotOf(rows[l])
      BY <2>5, <2>p DEF Claim, DriveFrom, Process
    <3>2. /\ \A k \in Log \ {l} : rows'[k] = rows[k]
          /\ rows'[l].claimed_by = w
          /\ rows'[l].retries = rows[l].retries
          /\ rows[l].retries < MaxAttempts
      BY <1>0, <1>r, <2>5 DEF Claim, TypeOK, ClaimRow, Row, RetryBudgetHeld
    <3>3. CountsRight(w)'
      BY <3>1, <3>2 DEF CountsRight, SnapshotOf
    <3>4. QED
      BY <1>0, <1>r, <3>1, <3>2, <3>3, BudgetFromParts
  <2>6. CASE \/ \E size \in BatchSizes : Fetch(w, size)
             \/ \E kind \in FailureKinds : BatchFails(w, kind)
    <3>1. /\ \A v \in Worker \ {w} : worker'[v] = worker[v]
          /\ UNCHANGED rows
          /\ p.pc \in {"drive", "persist"}
      BY <2>6, <2>p DEF Fetch, BatchFails
    <3>2. worker'[w].cur = p.cur /\ worker'[w].log = p.log
      <4>1. ASSUME NEW size \in BatchSizes, Fetch(w, size)
            PROVE  worker'[w].cur = p.cur /\ worker'[w].log = p.log
        BY <2>p, <4>1 DEF Fetch, Process
      <4>2. ASSUME NEW kind \in FailureKinds, BatchFails(w, kind)
            PROVE  worker'[w].cur = p.cur /\ worker'[w].log = p.log
        BY <2>p, <4>2 DEF BatchFails, Process
      <4>3. QED
        BY <2>6, <4>1, <4>2
    <3>3. CountsRight(w)'
      BY <1>0, <3>1, <3>2 DEF OwnerCountsRight, CountsRight
    <3>4. QED
      BY <1>0, <1>r, <3>1, <3>3, BudgetFromParts
  <2>7. ASSUME NEW stored \in BOOLEAN, PersistEntry(w, stored)
        PROVE  RetryInv'
    <3>1. /\ \A v \in Worker \ {w} : worker'[v] = worker[v]
          /\ UNCHANGED rows /\ p.pc = "persist"
      BY <2>7, <2>p DEF PersistEntry
    <3>2. worker'[w].cur = p.cur /\ worker'[w].log = p.log
      BY <2>7, <2>p DEF PersistEntry, Process
    <3>3. CountsRight(w)'
      BY <1>0, <3>1, <3>2 DEF OwnerCountsRight, CountsRight
    <3>4. QED
      BY <1>0, <1>r, <3>1, <3>3, BudgetFromParts
  <2>8. CASE SaveProgress(w)
    <3>1. /\ \A v \in Worker \ {w} : worker'[v] = worker[v]
          /\ worker'[w].pc \in {"decide", "observe"} /\ p.log \in Log
      BY <2>8, <2>p DEF SaveProgress, DrivePC, Process
    <3>2. /\ \A k \in Log \ {p.log} : rows'[k] = rows[k]
          /\ \/ SameBudget(rows'[p.log], rows[p.log])
             \/ rows'[p.log].claimed_by = w /\ rows'[p.log].retries = 0
      BY <1>0, <1>r, <2>8, <3>1
         DEF SaveProgress, TypeOK, ProgressRow, IfOwned, Row, SameBudget
    <3>3. CountsRight(w)' /\ 0 < MaxAttempts
      BY <1>n, <3>1 DEF CountsRight
    <3>4. QED
      BY <1>0, <1>r, <3>1, <3>2, <3>3, BudgetFromParts
  <2>9. CASE HandleFailure(w)
    <3>1. /\ \A v \in Worker \ {w} : worker'[v] = worker[v]
          /\ worker'[w].pc \in {"release", "decide"}
          /\ p.log \in Log /\ p.pc = "failed"
      BY <2>9, <2>p DEF HandleFailure, DrivePC, Process
    <3>2. \A k \in Log \ {p.log} : rows'[k] = rows[k]
      BY <1>0, <2>9, <3>1 DEF HandleFailure, TypeOK
    <3> DEFINE r == rows[p.log]
               f == FailedRow(r, w, p.fail, p.cur.retries)
    <3>3. \/ SameBudget(f, r)
          \/ /\ f.claimed_by = w \/ f.claimed_by = NoWorker
             /\ f.retries < MaxAttempts
      <4>0. r \in Row /\ r.retries \in Nat /\ p.fail \in FailureKinds \cup {"none"}
        BY <1>r, <2>p, <3>1 DEF Row, Process
      <4>1. CASE r.claimed_by # w
        <5>1. f = r
          BY <4>1 DEF FailedRow, PausedRow, DegradedRow, RetryingRow, IfOwned
        <5>2. QED
          BY <1>r, <3>1, <5>1
      <4>2. CASE r.claimed_by = w /\ p.fail = "fatal"
        BY <4>0, <4>2 DEF FailedRow, PausedRow, IfOwned, Row, SameBudget
      <4>3. CASE /\ r.claimed_by = w /\ p.fail # "fatal"
                 /\ p.cur.retries + 1 >= MaxAttempts
        <5>1. f = DegradedRow(r, w)
          BY <4>3 DEF FailedRow
        <5>2. f.claimed_by = NoWorker /\ f.retries = 0
          BY <4>0, <4>3, <5>1 DEF DegradedRow, IfOwned, Row
        <5>3. QED
          BY <1>n, <5>2
      <4>4. CASE /\ r.claimed_by = w /\ p.fail # "fatal"
                 /\ ~ (p.cur.retries + 1 >= MaxAttempts)
        <5>1. p.cur.retries = r.retries
          BY <1>0, <3>1, <4>4 DEF OwnerCountsRight, CountsRight
        <5>2. f = RetryingRow(r, w, p.fail = "rate_limit_hint")
          BY <4>4 DEF FailedRow
        <5>3. f.claimed_by = w /\ f.retries = r.retries + 1
          BY <4>0, <4>4, <5>2 DEF RetryingRow, IfOwned, Row
        <5>4. QED
          BY <1>n, <4>0, <4>4, <5>1, <5>3
      <4>5. QED
        BY <4>1, <4>2, <4>3, <4>4
    <3>4. rows'[p.log] = f
      BY <1>0, <2>9, <3>1 DEF HandleFailure, TypeOK
    <3>5. CountsRight(w)'
      BY <3>1 DEF CountsRight
    <3>6. QED
      BY <1>0, <1>r, <3>1, <3>2, <3>3, <3>4, <3>5, BudgetFromParts
  <2>10. CASE ReleaseClaim(w) \/ MarkComplete(w)
    <3>1. /\ \A v \in Worker \ {w} : worker'[v] = worker[v]
          /\ worker'[w].pc = "loop" /\ p.log \in Log
      <4>1. CASE ReleaseClaim(w)
        BY <2>p, <4>1 DEF ReleaseClaim, Looping, Down, DrivePC
      <4>2. CASE MarkComplete(w)
        BY <2>p, <4>2 DEF MarkComplete, Looping, Down, DrivePC
      <4>3. QED
        BY <2>10, <4>1, <4>2
    <3>2. \A l \in Log : SameBudget(rows'[l], rows[l])
      <4>1. /\ SameBudget(ReleaseRow(rows[p.log]), rows[p.log])
            /\ SameBudget(CompleteRow(rows[p.log]), rows[p.log])
        BY <1>r, <3>1, RowOperatorsBudget
      <4>2. QED
        BY <1>0, <1>r, <2>10, <3>1, <4>1 DEF ReleaseClaim, MarkComplete, TypeOK
    <3>3. CountsRight(w)'
      BY <3>1 DEF CountsRight
    <3>4. QED
      BY <1>0, <3>1, <3>2, <3>3, BudgetFromParts
  <2>11. CASE ObserveOldest(w) \/ ExtendWindow(w)
    <3>1. /\ \A v \in Worker \ {w} : worker'[v] = worker[v]
          /\ worker'[w].pc \in {"decide", "refresh"} /\ p.log \in Log
      BY <2>11, <2>p DEF ObserveOldest, ExtendWindow, DrivePC, Process
    <3>2. \A l \in Log : SameBudget(rows'[l], rows[l])
      <4>1. /\ SameBudget(ObserveRow(rows[p.log], p.hit), rows[p.log])
            /\ SameBudget(ExtendRow(rows[p.log], ExtendedStart(p.cur.start), p.seen),
                          rows[p.log])
        <5>1. ExtendedStart(p.cur.start) \in Nat /\ p.hit \in Age /\ p.seen \in Age
          BY <2>p DEF ExtendedStart, ExtensionEntries, Process, Snapshot
        <5>2. QED
          BY <1>r, <3>1, <5>1, RowOperatorsBudget
      <4>2. QED
        BY <1>0, <1>r, <2>11, <3>1, <4>1 DEF ObserveOldest, ExtendWindow, TypeOK
    <3>3. CountsRight(w)'
      BY <3>1 DEF CountsRight
    <3>4. QED
      BY <1>0, <3>1, <3>2, <3>3, BudgetFromParts
  <2>12. CASE Refresh(w) \/ LimitReached(w)
    <3>1. /\ \A v \in Worker \ {w} : worker'[v] = worker[v]
          /\ UNCHANGED rows
      BY <2>12, <2>p DEF Refresh, LimitReached
    <3>2. CountsRight(w)'
      <4>1. CASE worker'[w] = Looping(p)
        BY <4>1 DEF CountsRight, Looping, Down
      <4>2. CASE worker'[w] = DriveFrom(p, rows[p.log])
        <5>1. /\ worker'[w].log = p.log
              /\ worker'[w].cur = SnapshotOf(rows[p.log])
          BY <2>p, <4>2 DEF DriveFrom, Process
        <5>2. QED
          BY <3>1, <5>1 DEF CountsRight, SnapshotOf
      <4>3. QED
        BY <2>12, <2>p, <4>1, <4>2 DEF Refresh, LimitReached
    <3>3. QED
      BY <1>0, <1>r, <3>1, <3>2, BudgetFromParts
  <2>13. QED
    BY <1>1, <2>1, <2>2, <2>3, <2>4, <2>5, <2>6, <2>7, <2>8, <2>9, <2>10,
       <2>11, <2>12 DEF WorkerStep
<1>2. ASSUME NEW w \in Worker, Crash(w)
      PROVE  RetryInv'
  <2>1. /\ UNCHANGED rows
        /\ \A v \in Worker \ {w} : worker'[v] = worker[v]
        /\ CountsRight(w)'
    BY <1>0, <1>2 DEF Crash, TypeOK, Down, CountsRight
  <2>2. QED
    BY <1>0, <1>r, <2>1, BudgetFromParts
<1>3. ASSUME NEW l \in Log, HeartbeatExpires(l) \/ CooldownExpires(l)
      PROVE  RetryInv'
  <2>1. /\ UNCHANGED worker
        /\ \A k \in Log : /\ rows'[k].retries = rows[k].retries
                          /\ rows'[k].claimed_by = rows[k].claimed_by
    <3>1. CASE HeartbeatExpires(l)
      BY <1>0, <1>r, <3>1 DEF HeartbeatExpires, TypeOK, Row
    <3>2. CASE CooldownExpires(l)
      BY <1>0, <1>r, <3>2 DEF CooldownExpires, TypeOK, Row
    <3>3. QED
      BY <1>3, <3>1, <3>2
  <2>2. ASSUME NEW v \in Worker
        PROVE  CountsRight(v)'
    <3>1. CountsRight(v) /\ worker'[v] = worker[v]
      BY <1>0, <2>1 DEF OwnerCountsRight
    <3>2. worker[v].pc \in {"drive", "persist", "failed"} => worker[v].log \in Log
      BY <1>0 DEF LogsInHand, DrivePC
    <3>3. QED
      BY <2>1, <3>1, <3>2 DEF CountsRight
  <2>3. QED
    BY <1>0, <2>1, <2>2 DEF RetryInv, OwnerCountsRight, RetryBudgetHeld
<1>4. ASSUME NEW w \in Worker, NEW l \in Log, BackoffExpires(w, l)
      PROVE  RetryInv'
  <2>1. /\ UNCHANGED rows
        /\ \A v \in Worker \ {w} : worker'[v] = worker[v]
        /\ worker'[w].pc = worker[w].pc
        /\ worker'[w].log = worker[w].log
        /\ worker'[w].cur = worker[w].cur
    BY <1>0, <1>4 DEF BackoffExpires, TypeOK, Process
  <2>2. CountsRight(w)'
    BY <1>0, <2>1 DEF OwnerCountsRight, CountsRight
  <2>3. QED
    BY <1>0, <1>r, <2>1, <2>2, BudgetFromParts
<1>5. QED
  BY <1>1, <1>2, <1>3, <1>4 DEF Next, Environment

LEMMA RetryInvariant == Spec => []RetryInv
<1>1. Init => RetryInv
  <2> SUFFICES ASSUME Init
               PROVE  RetryInv
    OBVIOUS
  <2>1. /\ \A w \in Worker : worker[w].log = NoLog /\ worker[w].pc = "down"
        /\ \A l \in Log : rows[l].retries = 0
    BY DEF Init, Down, AbsentRow
  <2>2. NoLog \notin Log /\ 0 < MaxAttempts
    BY ConstantsAssumption
  <2>3. QED
    BY <2>1, <2>2, TypeInit
       DEF RetryInv, LogsInHand, DrivePC, OwnerCountsRight, CountsRight,
           RetryBudgetHeld
<1>2. RetryInv /\ [Next]_vars => RetryInv'
  <2>1. CASE Next
    BY <2>1, BudgetStep
  <2>2. CASE UNCHANGED vars
    BY <2>2 DEF vars, RetryInv, TypeOK, LogsInHand, OwnerCountsRight, CountsRight,
                RetryBudgetHeld
  <2>3. QED
    BY <2>1, <2>2
<1>3. QED
  BY <1>1, <1>2, PTL DEF Spec

(* Whoever claims, reaps, crashes or restarts in between, a log never has  *)
(* more consecutive failures on its counter than the budget of             *)
(* _handle_batch_failure allows. *)
THEOREM RetryBudgetSound == Spec => []RetryBudgetHeld
<1>1. RetryInv => RetryBudgetHeld
  BY DEF RetryInv
<1>2. QED
  BY <1>1, RetryInvariant, PTL

(* The invariant the runs check is the one the proofs rest on. *)
THEOREM DispatchInvariant == Spec => []DispatchInv
<1>1. CoverageInv /\ RetryInv => DispatchInv
  BY DEF RetryInv, DispatchInv
<1>2. QED
  BY <1>1, CoverageInvariant, RetryInvariant, PTL

---------------------------------------------------------------------------
(* The dispatcher implements the ledger of BackfillPromise: every step of  *)
(* a worker is a step of the ledger or leaves it alone.                    *)

(* A log without a row is open and unclaimed, and nobody is about to reap  *)
(* it. *)

AbsentLogsIdle ==
    \A l \in Log : rows[l].status = "absent" =>
        ~ rows[l].completed /\ rows[l].claimed_by = NoWorker

ReapedLogsExist ==
    \A w \in Worker : worker[w].pc = "reap" =>
        \A l \in worker[w].list : rows[l].status # "absent"

LedgerInv == CoverageInv /\ AbsentLogsIdle /\ ReapedLogsExist

(* No statement brings a row to the status "absent", and on a row that is  *)
(* there none is without a status. *)
LEMMA RowOperatorsPresent ==
    ASSUME NEW r \in Row, r.status # "absent", NEW w \in Worker
    PROVE  /\ ClaimRow(r, w).status # "absent"
           /\ ReapRow(r).status # "absent"
           /\ ReleaseRow(r).status # "absent"
           /\ CompleteRow(r).status # "absent"
           /\ \A c : ProgressRow(r, w, c).status # "absent"
           /\ \A kind, n : FailedRow(r, w, kind, n).status # "absent"
           /\ \A a : ObserveRow(r, a).status # "absent"
           /\ \A s, a : ExtendRow(r, s, a).status # "absent"
           /\ \A lo, hi, c : SetWindow(r, lo, hi, c).status # "absent"
<1>1. /\ ClaimRow(r, w).status # "absent"
      /\ ReapRow(r).status # "absent"
      /\ ReleaseRow(r).status # "absent"
      /\ CompleteRow(r).status # "absent"
      /\ \A c : ProgressRow(r, w, c).status # "absent"
      /\ \A a : ObserveRow(r, a).status # "absent"
      /\ \A s, a : ExtendRow(r, s, a).status # "absent"
      /\ \A lo, hi, c : SetWindow(r, lo, hi, c).status # "absent"
  BY DEF Row, ClaimRow, ReapRow, ReleaseRow, CompleteRow, ProgressRow, IfOwned,
         ObserveRow, ExtendRow, SetWindow
<1>2. ASSUME NEW kind, NEW n
      PROVE  FailedRow(r, w, kind, n).status # "absent"
  BY DEF Row, FailedRow, PausedRow, DegradedRow, RetryingRow, IfOwned
<1>3. QED
  BY <1>1, <1>2

(* A statement applied to the row of a log that is there. *)
LEMMA PresentRowStep ==
    ASSUME TypeOK, NEW l \in Log, NEW new, rows[l].status # "absent",
           new.status # "absent", rows' = [rows EXCEPT ![l] = new]
    PROVE  /\ \A k \in Log \ {l} : rows'[k] = rows[k]
           /\ rows'[l] = new
           /\ \A k \in Log : rows'[k].status = "absent" <=> rows[k].status = "absent"
           /\ \A k \in Log : rows'[k].status = "absent" => rows'[k] = rows[k]
  BY DEF TypeOK

(* What a step does to the rows: those of logs nobody has initialised stay *)
(* as they are, and only CreateWindow adds one. *)
LEMMA RowsStep ==
    ASSUME LedgerInv, Next
    PROVE  /\ AbsentLogsIdle'
           /\ ReapedLogsExist'
           /\ \/ \E w \in Worker, l \in Log, lo \in Pivots, hi \in Heads :
                    CreateWindow(w, l, lo, hi)
              \/ \A l \in Log : rows'[l].status = "absent" <=> rows[l].status = "absent"
<1>0. /\ TypeOK /\ LogsInHand /\ HeldLogsExist /\ AbsentLogsIdle /\ ReapedLogsExist
  BY DEF LedgerInv, CoverageInv
<1>r. \A l \in Log : rows[l] \in Row
  BY <1>0 DEF TypeOK
<1> DEFINE Kept == \A l \in Log : rows'[l].status = "absent" =>
                      /\ rows[l].status = "absent"
                      /\ rows'[l].completed = rows[l].completed
                      /\ rows'[l].claimed_by = rows[l].claimed_by
           Same == \A l \in Log : rows'[l].status = "absent" <=> rows[l].status = "absent"
           Lists == \A v \in Worker : worker'[v].pc = "reap" =>
                      \/ /\ worker[v].pc = "reap"
                         /\ worker'[v].list = worker[v].list
                      \/ \A l \in worker'[v].list : rows[l].status # "absent"
<1>1. ASSUME NEW w \in Worker, WorkerStep(w)
      PROVE  /\ Kept /\ Lists
             /\ \/ \E l \in Log, lo \in Pivots, hi \in Heads :
                      CreateWindow(w, l, lo, hi)
                \/ Same
  <2> DEFINE p == worker[w]
  <2>p. /\ p \in Process
        /\ worker \in [Worker -> Process]
        /\ p.pc \in DrivePC \cup {"window"} =>
              p.log \in Log /\ rows[p.log].status # "absent"
    BY <1>0 DEF TypeOK, LogsInHand, HeldLogsExist
  <2>o. \A v \in Worker \ {w} : worker'[v] = worker[v]
    BY <1>1, <2>p
       DEF WorkerStep, Start, SkipWindow, CreateWindow, ReadWindow, WriteWindow,
           EnterLoop, ReapSelect, ReapUpdate, Claim, NothingToClaim, Fetch,
           PersistEntry, SaveProgress, BatchFails, HandleFailure, ReleaseClaim,
           ObserveOldest, ExtendWindow, MarkComplete, Refresh, LimitReached
  <2>1. CASE ReapSelect(w)
    <3>1. /\ UNCHANGED rows
          /\ worker'[w].list = {l \in Log : StaleClaim(rows[l])}
      BY <2>1, <2>p DEF ReapSelect, Process
    <3>2. \A l \in worker'[w].list : rows[l].status # "absent"
      BY <1>0, <3>1 DEF AbsentLogsIdle, StaleClaim
    <3>3. QED
      BY <2>o, <3>1, <3>2
  <2>2. CASE ReapUpdate(w)
    <3>1. \A l \in Log : l \in p.list => rows[l].status # "absent"
      BY <1>0, <2>2 DEF ReapUpdate, ReapedLogsExist
    <3>2. \A l \in Log : \/ rows'[l] = rows[l]
                         \/ rows[l].status # "absent" /\ rows'[l].status # "absent"
      BY <1>r, <2>2, <3>1, RowOperatorsPresent DEF ReapUpdate
    <3>3. worker'[w].pc = "claim"
      BY <2>2, <2>p DEF ReapUpdate, Process
    <3>4. QED
      BY <2>o, <3>2, <3>3
  <2>3. CASE ~ (ReapSelect(w) \/ ReapUpdate(w))
    <3>1. worker'[w].pc # "reap"
      <4>1. CASE Start(w) \/ EnterLoop(w) \/ NothingToClaim(w)
        BY <2>p, <4>1 DEF Start, EnterLoop, NothingToClaim, Process
      <4>2. ASSUME NEW l \in Log, ReadWindow(w, l) \/ SkipWindow(w, l)
            PROVE  worker'[w].pc # "reap"
        BY <2>p, <4>2 DEF ReadWindow, SkipWindow, Process
      <4>3. ASSUME NEW l \in Log, NEW lo \in Pivots, NEW hi \in Heads,
                   CreateWindow(w, l, lo, hi)
            PROVE  worker'[w].pc # "reap"
        BY <2>p, <4>3 DEF CreateWindow, Process
      <4>4. ASSUME NEW lo \in Pivots, NEW hi \in Heads, WriteWindow(w, lo, hi)
            PROVE  worker'[w].pc # "reap"
        BY <2>p, <4>4 DEF WriteWindow, Process
      <4>5. CASE \E l \in Log : Claim(w, l)
        BY <2>p, <4>5 DEF Claim, DriveFrom, Process
      <4>6. CASE \E size \in BatchSizes : Fetch(w, size)
        BY <2>p, <4>6 DEF Fetch, Process
      <4>7. CASE \E stored \in BOOLEAN : PersistEntry(w, stored)
        BY <2>p, <4>7 DEF PersistEntry, Process
      <4>8. CASE SaveProgress(w)
        BY <2>p, <4>8 DEF SaveProgress, Process
      <4>9. ASSUME NEW kind \in FailureKinds, BatchFails(w, kind)
            PROVE  worker'[w].pc # "reap"
        BY <2>p, <4>9 DEF BatchFails, Process
      <4>10. CASE HandleFailure(w) \/ ObserveOldest(w) \/ ExtendWindow(w)
        BY <2>p, <4>10 DEF HandleFailure, ObserveOldest, ExtendWindow, Process
      <4>11. CASE ReleaseClaim(w)
        BY <2>p, <4>11 DEF ReleaseClaim, Looping, Down
      <4>12. CASE MarkComplete(w) \/ LimitReached(w)
        BY <2>p, <4>12 DEF MarkComplete, LimitReached, Looping, Down
      <4>13. CASE Refresh(w)
        BY <2>p, <4>13 DEF Refresh, DriveFrom, Looping, Down, Process
      <4>14. QED
        BY <1>1, <2>3, <4>1, <4>2, <4>3, <4>4, <4>5, <4>6, <4>7, <4>8, <4>9,
           <4>10, <4>11, <4>12, <4>13 DEF WorkerStep
    <3>2. CASE \E l \in Log, lo \in Pivots, hi \in Heads : CreateWindow(w, l, lo, hi)
      <4>1. PICK l \in Log : /\ rows[l].status = "absent"
                            /\ rows'[l].status = "pending"
                            /\ \A k \in Log \ {l} : rows'[k] = rows[k]
        BY <1>0, <3>2 DEF CreateWindow, TypeOK, NewRow, AbsentRow
      <4>2. Kept
        BY <4>1
      <4>3. QED
        BY <2>o, <3>1, <3>2, <4>2
    <3>3. CASE UNCHANGED rows
      BY <2>o, <3>1, <3>3
    <3>4. CASE \E l \in Log : Claim(w, l)
      <4>1. PICK l \in Log : Claim(w, l)
        BY <3>4
      <4>2. rows[l].status # "absent" /\ ClaimRow(rows[l], w).status # "absent"
        BY <1>r, <4>1, RowOperatorsPresent DEF Claim, Claimable
      <4>3. rows' = [rows EXCEPT ![l] = ClaimRow(rows[l], w)]
        BY <4>1 DEF Claim
      <4>4. QED
        BY <1>0, <2>o, <3>1, <4>2, <4>3, PresentRowStep
    <3>5. ASSUME NEW new, p.log \in Log, rows[p.log].status # "absent",
                 new.status # "absent", rows' = [rows EXCEPT ![p.log] = new]
          PROVE  Kept /\ Lists /\ Same
      BY <1>0, <2>o, <3>1, <3>5, PresentRowStep
    <3>6. CASE \E lo \in Pivots, hi \in Heads : WriteWindow(w, lo, hi)
      BY <1>r, <2>p, <3>5, <3>6, RowOperatorsPresent DEF WriteWindow
    <3>7. CASE SaveProgress(w)
      BY <1>r, <2>p, <3>5, <3>7, RowOperatorsPresent DEF SaveProgress, DrivePC
    <3>8. CASE HandleFailure(w)
      BY <1>r, <2>p, <3>5, <3>8, RowOperatorsPresent DEF HandleFailure, DrivePC
    <3>9. CASE ReleaseClaim(w)
      BY <1>r, <2>p, <3>5, <3>9, RowOperatorsPresent DEF ReleaseClaim, DrivePC
    <3>10. CASE ObserveOldest(w)
      BY <1>r, <2>p, <3>5, <3>10, RowOperatorsPresent DEF ObserveOldest, DrivePC
    <3>11. CASE ExtendWindow(w)
      BY <1>r, <2>p, <3>5, <3>11, RowOperatorsPresent DEF ExtendWindow, DrivePC
    <3>12. CASE MarkComplete(w)
      BY <1>r, <2>p, <3>5, <3>12, RowOperatorsPresent DEF MarkComplete, DrivePC
    <3>13. QED
      BY <1>1, <2>3, <3>2, <3>3, <3>4, <3>6, <3>7, <3>8, <3>9, <3>10, <3>11, <3>12
         DEF WorkerStep, Start, SkipWindow, ReadWindow, EnterLoop, NothingToClaim,
             Fetch, PersistEntry, BatchFails, Refresh, LimitReached
  <2>4. QED
    BY <2>1, <2>2, <2>3
<1>2. ASSUME Environment
      PROVE  Kept /\ Lists /\ Same
  <2>1. ASSUME NEW l \in Log, HeartbeatExpires(l) \/ CooldownExpires(l)
        PROVE  /\ \A k \in Log : /\ rows'[k].status = rows[k].status
                                 /\ rows'[k].completed = rows[k].completed
                                 /\ rows'[k].claimed_by = rows[k].claimed_by
               /\ UNCHANGED worker
    <3>1. CASE HeartbeatExpires(l)
      BY <1>0, <1>r, <3>1 DEF HeartbeatExpires, TypeOK, Row
    <3>2. CASE CooldownExpires(l)
      BY <1>0, <1>r, <3>2 DEF CooldownExpires, TypeOK, Row
    <3>3. QED
      BY <2>1, <3>1, <3>2
  <2>2. ASSUME NEW v \in Worker, Crash(v) \/ \E l \in Log : BackoffExpires(v, l)
        PROVE  Lists /\ UNCHANGED rows
    <3>1. /\ worker \in [Worker -> Process]
          /\ worker[v] \in Process
      BY <1>0 DEF TypeOK
    <3>2. CASE Crash(v)
      BY <3>1, <3>2 DEF Crash, Down
    <3>3. CASE \E l \in Log : BackoffExpires(v, l)
      <4>1. \A u \in Worker : /\ worker'[u].pc = worker[u].pc
                              /\ worker'[u].list = worker[u].list
        BY <3>1, <3>3 DEF BackoffExpires, Process
      <4>2. QED
        BY <3>3, <4>1 DEF BackoffExpires
    <3>4. QED
      BY <2>2, <3>2, <3>3
  <2>3. CASE \E l \in Log : HeartbeatExpires(l) \/ CooldownExpires(l)
    <3>1. PICK l \in Log : HeartbeatExpires(l) \/ CooldownExpires(l)
      BY <2>3
    <3>2. /\ \A k \in Log : /\ rows'[k].status = rows[k].status
                            /\ rows'[k].completed = rows[k].completed
                            /\ rows'[k].claimed_by = rows[k].claimed_by
          /\ UNCHANGED worker
      BY <2>1, <3>1
    <3>3. QED
      BY <3>2
  <2>4. CASE \E v \in Worker : Crash(v) \/ \E l \in Log : BackoffExpires(v, l)
    <3>1. Lists /\ UNCHANGED rows
      BY <2>2, <2>4
    <3>2. QED
      BY <3>1
  <2>5. QED
    BY <1>2, <2>3, <2>4 DEF Environment
<1>3. Kept /\ Lists
  <2>1. CASE \E w \in Worker : WorkerStep(w)
    <3>1. PICK w \in Worker : WorkerStep(w)
      BY <2>1
    <3>2. QED
      BY <1>1, <3>1
  <2>2. CASE Environment
    BY <1>2, <2>2
  <2>3. QED
    BY <2>1, <2>2 DEF Next
<1>4. AbsentLogsIdle'
  BY <1>0, <1>3 DEF AbsentLogsIdle
<1>5. ReapedLogsExist'
  <2>1. \A v \in Worker : worker'[v].pc = "reap" => worker'[v].list \subseteq Log
    BY TypeStep, <1>0 DEF TypeOK, Process
  <2>2. QED
    BY <1>0, <1>3, <2>1 DEF ReapedLogsExist
<1>6. CASE \E w \in Worker : WorkerStep(w)
  <2>1. PICK w \in Worker : WorkerStep(w)
    BY <1>6
  <2>2. QED
    BY <1>1, <1>4, <1>5, <2>1
<1>7. CASE Environment
  BY <1>2, <1>4, <1>5, <1>7
<1>8. QED
  BY <1>6, <1>7 DEF Next

---------------------------------------------------------------------------
(* The steps of the ledger *)

SameEntry(l) ==
    Window(l)' = Window(l) /\ rows'[l].completed = rows[l].completed

LEMMA SameEntryFromRow ==
    ASSUME NEW l \in Log,
           rows'[l].start = rows[l].start, rows'[l].end = rows[l].end,
           rows'[l].completed = rows[l].completed,
           rows'[l].status = "absent" <=> rows[l].status = "absent"
    PROVE  SameEntry(l)
  BY DEF SameEntry, Window

LEMMA LedgerStutter ==
    ASSUME UNCHANGED <<outcomes, disturbed>>, \A l \in Log : SameEntry(l)
    PROVE  UNCHANGED Promise!promise
<1>1. [l \in Log |-> Window(l)]' = [l \in Log |-> Window(l)]
  BY DEF SameEntry
<1>2. [l \in Log |-> rows[l].completed]' = [l \in Log |-> rows[l].completed]
  BY DEF SameEntry
<1>3. [l \in Log |-> disturbed[l] # {}]' = [l \in Log |-> disturbed[l] # {}]
  OBVIOUS
<1>4. QED
  BY <1>1, <1>2, <1>3 DEF Promise!promise

LEMMA LedgerRecord ==
    ASSUME NEW l \in Log, UNCHANGED disturbed, \A k \in Log : SameEntry(k),
           outcomes[l] \subseteq outcomes'[l],
           \A k \in Log \ {l} : outcomes'[k] = outcomes[k]
    PROVE  Promise!Next
<1>1. [k \in Log |-> Window(k)]' = [k \in Log |-> Window(k)]
  BY DEF SameEntry
<1>2. [k \in Log |-> rows[k].completed]' = [k \in Log |-> rows[k].completed]
  BY DEF SameEntry
<1>3. [k \in Log |-> disturbed[k] # {}]' = [k \in Log |-> disturbed[k] # {}]
  OBVIOUS
<1>4. Promise!Record(l)
  BY <1>1, <1>2, <1>3 DEF Promise!Record, Promise!OnlyAt
<1>5. QED
  BY <1>4 DEF Promise!Next

LEMMA LedgerMove ==
    ASSUME NEW l \in Log, UNCHANGED outcomes,
           \A k \in Log \ {l} : SameEntry(k) /\ disturbed'[k] = disturbed[k],
           rows'[l].completed = rows[l].completed,
           disturbed'[l] = {} => disturbed[l] = {},
           rows[l].completed /\ disturbed'[l] = {} => Window(l)' \subseteq outcomes[l]
    PROVE  Promise!Next
<1>1. [k \in Log |-> rows[k].completed]' = [k \in Log |-> rows[k].completed]
  BY DEF SameEntry
<1>2. \A k \in Log \ {l} :
         [j \in Log |-> Window(j)]'[k] = [j \in Log |-> Window(j)][k]
  BY DEF SameEntry
<1>3. \A k \in Log \ {l} :
         [j \in Log |-> disturbed[j] # {}]'[k] = [j \in Log |-> disturbed[j] # {}][k]
  OBVIOUS
<1>4. Promise!Move(l)
  BY <1>1, <1>2, <1>3 DEF Promise!Move, Promise!OnlyAt
<1>5. QED
  BY <1>4 DEF Promise!Next

LEMMA LedgerClose ==
    ASSUME NEW l \in Log, UNCHANGED <<outcomes, disturbed>>,
           \A k \in Log \ {l} : SameEntry(k), Window(l)' = Window(l),
           rows'[l].completed,
           disturbed[l] = {} => Window(l) \subseteq outcomes[l]
    PROVE  Promise!Next
<1>1. [k \in Log |-> Window(k)]' = [k \in Log |-> Window(k)]
  BY DEF SameEntry
<1>2. \A k \in Log \ {l} : [j \in Log |-> rows[j].completed]'[k]
                          = [j \in Log |-> rows[j].completed][k]
  BY DEF SameEntry
<1>3. [k \in Log |-> disturbed[k] # {}]' = [k \in Log |-> disturbed[k] # {}]
  OBVIOUS
<1>4. Promise!Close(l)
  BY <1>1, <1>2, <1>3 DEF Promise!Close, Promise!OnlyAt
<1>5. QED
  BY <1>4 DEF Promise!Next

LEMMA LedgerExcuse ==
    ASSUME NEW l \in Log, UNCHANGED outcomes, \A k \in Log : SameEntry(k),
           \A k \in Log \ {l} : disturbed'[k] = disturbed[k],
           disturbed'[l] # {}
    PROVE  Promise!Next
<1>1. [k \in Log |-> Window(k)]' = [k \in Log |-> Window(k)]
  BY DEF SameEntry
<1>2. [k \in Log |-> rows[k].completed]' = [k \in Log |-> rows[k].completed]
  BY DEF SameEntry
<1>3. \A k \in Log \ {l} :
         [j \in Log |-> disturbed[j] # {}]'[k] = [j \in Log |-> disturbed[j] # {}][k]
  OBVIOUS
<1>4. Promise!Excuse(l)
  BY <1>1, <1>2, <1>3 DEF Promise!Excuse, Promise!OnlyAt
<1>5. QED
  BY <1>4 DEF Promise!Next

(* A step that may disturb a log and leaves the ledger's entries alone. *)
LEMMA LedgerDisturb ==
    ASSUME TypeOK, NEW l \in Log, UNCHANGED outcomes,
           \A k \in Log : SameEntry(k),
           NEW what, NEW happened \in BOOLEAN, Disturb(l, what, happened)
    PROVE  Promise!Next \/ UNCHANGED Promise!promise
<1>1. CASE happened
  <2>1. disturbed' = [disturbed EXCEPT ![l] = @ \cup {what}]
    BY <1>1 DEF Disturb
  <2>2. /\ \A k \in Log \ {l} : disturbed'[k] = disturbed[k]
        /\ disturbed'[l] # {}
    BY <2>1 DEF TypeOK
  <2>3. QED
    BY <2>2, LedgerExcuse
<1>2. CASE ~ happened
  <2>1. UNCHANGED disturbed
    BY <1>2 DEF Disturb
  <2>2. QED
    BY <2>1, LedgerStutter
<1>3. QED
  BY <1>1, <1>2

---------------------------------------------------------------------------
(* Every step of the dispatcher is one of the ledger, or leaves it alone *)

(* The indices of a window and those below the end of its last batch. *)
LEMMA WholeWindow ==
    ASSUME NEW S, NEW a \in Nat, NEW b \in Nat, a .. (b + 1) - 1 \subseteq S
    PROVE  a .. b \subseteq S
  OBVIOUS

LEMMA LedgerStep ==
    ASSUME LedgerInv, CoverageInv', Next
    PROVE  Promise!Next \/ UNCHANGED Promise!promise
<1>0. /\ TypeOK /\ LogsInHand /\ HeldLogsExist
      /\ CheckpointCovered /\ CompletionCovered
      /\ \A w \in Worker : SnapshotCovered(w)
      /\ AbsentLogsIdle
      /\ CompletionCovered'
  BY DEF LedgerInv, CoverageInv
<1>r. \A l \in Log : rows[l] \in Row
  BY <1>0 DEF TypeOK
<1>t. TypeOK'
  BY DEF CoverageInv
<1> DEFINE Same == \A l \in Log : rows'[l].status = "absent" <=> rows[l].status = "absent"
           Goal == Promise!Next \/ UNCHANGED Promise!promise
<1>q. ASSUME Same, UNCHANGED <<outcomes, disturbed>>,
             \A l \in Log : SameWindow(rows'[l], rows[l])
      PROVE  Goal
  <2>1. \A l \in Log : SameEntry(l)
    BY <1>q, SameEntryFromRow DEF SameWindow
  <2>2. QED
    BY <1>q, <2>1, LedgerStutter
<1>1. ASSUME NEW w \in Worker, WorkerStep(w)
      PROVE  Goal
  <2> DEFINE p == worker[w]
  <2>p. /\ p \in Process
        /\ p.pc \in DrivePC \cup {"window"} =>
              p.log \in Log /\ rows[p.log].status # "absent"
    BY <1>0 DEF TypeOK, LogsInHand, HeldLogsExist
  <2>1. ASSUME NEW v \in Worker, NEW l \in Log, NEW lo \in Pivots,
               NEW hi \in Heads, CreateWindow(v, l, lo, hi)
        PROVE  Goal
    <3>1. /\ UNCHANGED <<outcomes, disturbed>>
          /\ rows[l].status = "absent"
          /\ \A k \in Log \ {l} : rows'[k] = rows[k]
          /\ ~ rows'[l].completed
      BY <1>0, <2>1 DEF CreateWindow, TypeOK, NewRow, AbsentRow
    <3>2. ~ rows[l].completed /\ rows[l].completed \in BOOLEAN
          /\ rows'[l].completed \in BOOLEAN
      BY <1>0, <1>r, <2>1, <3>1 DEF AbsentLogsIdle, Row, CreateWindow, TypeOK, NewRow, AbsentRow
    <3>3. \A k \in Log \ {l} : SameEntry(k)
      BY <3>1 DEF SameEntry, Window
    <3>4. QED
      BY <3>1, <3>2, <3>3, LedgerMove
  <2>s. CASE ~ \E v \in Worker, l \in Log, lo \in Pivots, hi \in Heads :
                  CreateWindow(v, l, lo, hi)
    <3>0. Same
      BY RowsStep, <2>s
    <3> USE <3>0
    <3>1. CASE \/ UNCHANGED <<rows, outcomes, disturbed>>
      BY <1>q, <3>1 DEF SameWindow
    <3>2. CASE ReapUpdate(w)
      <4>1. \A l \in Log : SameWindow(rows'[l], rows[l])
        BY <1>r, <3>2, RowOperatorsWindow DEF ReapUpdate, SameWindow
      <4>2. QED
        BY <1>q, <3>2, <4>1 DEF ReapUpdate
    <3>3. ASSUME NEW l \in Log, NEW new, SameWindow(new, rows[l]),
                 rows' = [rows EXCEPT ![l] = new]
          PROVE  \A k \in Log : SameWindow(rows'[k], rows[k])
      BY <1>0, <3>3 DEF TypeOK, SameWindow
    <3>4. CASE HandleFailure(w)
      <4>1. /\ p.fail \in FailureKinds \cup {"none"} /\ p.cur.retries \in Nat
            /\ p.log \in Log
        BY <2>p, <3>4 DEF HandleFailure, Process, Snapshot, DrivePC
      <4>2. SameWindow(FailedRow(rows[p.log], w, p.fail, p.cur.retries), rows[p.log])
        BY <1>r, <4>1, RowOperatorsWindow
      <4>3. QED
        BY <1>q, <3>3, <3>4, <4>1, <4>2 DEF HandleFailure
    <3>5. CASE ReleaseClaim(w)
      BY <1>q, <1>r, <2>p, <3>3, <3>5, RowOperatorsWindow DEF ReleaseClaim, DrivePC
    <3>6. CASE ObserveOldest(w)
      <4>1. p.hit \in Age /\ p.log \in Log
        BY <2>p, <3>6 DEF ObserveOldest, Process, DrivePC
      <4>2. SameWindow(ObserveRow(rows[p.log], p.hit), rows[p.log])
        BY <1>r, <4>1, RowOperatorsWindow
      <4>3. QED
        BY <1>q, <3>3, <3>6, <4>1, <4>2 DEF ObserveOldest
    <3>7. ASSUME NEW l \in Log, NEW new,
                 new.start = rows[l].start, new.end = rows[l].end,
                 new.completed = rows[l].completed,
                 rows' = [rows EXCEPT ![l] = new]
          PROVE  \A k \in Log : SameEntry(k)
      <4>1. \A k \in Log : /\ rows'[k].start = rows[k].start
                           /\ rows'[k].end = rows[k].end
                           /\ rows'[k].completed = rows[k].completed
        BY <1>0, <3>7 DEF TypeOK
      <4>2. QED
        BY <4>1, SameEntryFromRow
    <3>8. ASSUME NEW l \in Log, Claim(w, l)
          PROVE  Goal
      <4>1. SameWindow(ClaimRow(rows[l], w), rows[l])
        BY <1>r, RowOperatorsWindow
      <4>2. \A k \in Log : SameEntry(k)
        BY <3>7, <3>8, <4>1 DEF Claim, SameWindow
      <4>3. /\ UNCHANGED outcomes
            /\ Disturb(l, "overtaken", \E v \in Worker \ {w} : Drives(v, l))
        BY <3>8 DEF Claim
      <4>4. (\E v \in Worker \ {w} : Drives(v, l)) \in BOOLEAN
        OBVIOUS
      <4>5. QED
        BY <1>0, <4>2, <4>3, <4>4, LedgerDisturb
    <3>9. CASE SaveProgress(w)
      <4>0. PICK l \in Log : l = p.log
        BY <2>p, <3>9 DEF SaveProgress, DrivePC
      <4>1. /\ rows' = [rows EXCEPT ![l] = ProgressRow(rows[l], w, p.upto)]
            /\ UNCHANGED outcomes
            /\ Disturb(l, "short", p.got < p.upto)
        BY <3>9, <4>0 DEF SaveProgress
      <4>2. /\ ProgressRow(rows[l], w, p.upto).start = rows[l].start
            /\ ProgressRow(rows[l], w, p.upto).end = rows[l].end
            /\ ProgressRow(rows[l], w, p.upto).completed = rows[l].completed
        BY <1>r DEF ProgressRow, IfOwned, Row
      <4>3. \A k \in Log : SameEntry(k)
        BY <3>7, <4>1, <4>2
      <4>4. (p.got < p.upto) \in BOOLEAN
        OBVIOUS
      <4>5. QED
        BY <1>0, <4>1, <4>3, <4>4, LedgerDisturb
    <3>10. ASSUME NEW stored \in BOOLEAN, PersistEntry(w, stored)
           PROVE  Goal
      <4>0. PICK l \in Log : l = p.log
        BY <2>p, <3>10 DEF PersistEntry, DrivePC
      <4>1. /\ UNCHANGED <<rows, disturbed>>
            /\ outcomes[l] \subseteq outcomes'[l]
            /\ \A k \in Log \ {l} : outcomes'[k] = outcomes[k]
        BY <1>0, <3>10, <4>0 DEF PersistEntry, TypeOK
      <4>2. \A k \in Log : SameEntry(k)
        BY <4>1, SameEntryFromRow
      <4>3. QED
        BY <4>1, <4>2, LedgerRecord
    <3>11. ASSUME NEW l \in Log, UNCHANGED outcomes,
                  \A k \in Log \ {l} : rows'[k] = rows[k] /\ disturbed'[k] = disturbed[k],
                  rows'[l].completed = rows[l].completed,
                  disturbed'[l] = {} => disturbed[l] = {},
                  rows[l].status # "absent"
           PROVE  Goal
      <4>1. \A k \in Log \ {l} : SameEntry(k)
        BY <3>11 DEF SameEntry, Window
      <4>2. ASSUME rows[l].completed, disturbed'[l] = {}
            PROVE  Window(l)' \subseteq outcomes[l]
        <5>1. Covered(l, rows[l].start, rows[l].end + 1)'
          BY <1>0, <3>11, <4>2 DEF CompletionCovered
        <5>2. rows'[l].start \in Nat /\ rows'[l].end \in Nat
          BY <1>t, <3>11 DEF TypeOK, Row
        <5>3. rows'[l].start .. rows'[l].end \subseteq outcomes'[l]
          BY <5>1, <5>2, WholeWindow DEF Covered
        <5>4. QED
          BY <3>11, <5>3 DEF Window
      <4>3. QED
        BY <3>11, <4>1, <4>2, LedgerMove
    <3>12. ASSUME NEW lo \in Pivots, NEW hi \in Heads, WriteWindow(w, lo, hi)
           PROVE  Goal
      <4>0. PICK l \in Log : l = p.log
        BY <2>p, <3>12 DEF WriteWindow
      <4>1. /\ UNCHANGED outcomes
            /\ rows[l].status # "absent"
            /\ \A k \in Log \ {l} : rows'[k] = rows[k]
            /\ rows'[l].completed = rows[l].completed
        BY <1>0, <1>r, <2>p, <3>12, <4>0 DEF WriteWindow, SetWindow, TypeOK, Row
      <4>2. /\ \A k \in Log \ {l} : disturbed'[k] = disturbed[k]
            /\ disturbed'[l] = {} => disturbed[l] = {}
        BY <1>0, <3>12, <4>0 DEF WriteWindow, Disturb, TypeOK
      <4>3. QED
        BY <3>11, <4>1, <4>2
    <3>13. CASE ExtendWindow(w)
      <4>0. PICK l \in Log : l = p.log
        BY <2>p, <3>13 DEF ExtendWindow, DrivePC
      <4>1. /\ UNCHANGED <<outcomes, disturbed>>
            /\ rows[l].status # "absent"
            /\ \A k \in Log \ {l} : rows'[k] = rows[k]
            /\ rows'[l].completed = rows[l].completed
        BY <1>0, <1>r, <2>p, <3>13, <4>0
           DEF ExtendWindow, ExtendRow, TypeOK, Row, DrivePC
      <4>2. QED
        BY <3>11, <4>1
    <3>14. CASE MarkComplete(w)
      <4>0. PICK l \in Log : l = p.log
        BY <2>p, <3>14 DEF MarkComplete, DrivePC
      <4>1. /\ UNCHANGED <<outcomes, disturbed>>
            /\ \A k \in Log \ {l} : rows'[k] = rows[k]
            /\ rows'[l].start = rows[l].start /\ rows'[l].end = rows[l].end
            /\ rows'[l].completed
            /\ rows[l].status # "absent"
        BY <1>0, <1>r, <2>p, <3>14, <4>0
           DEF MarkComplete, CompleteRow, TypeOK, Row, DrivePC
      <4>2. /\ \A k \in Log \ {l} : SameEntry(k)
            /\ Window(l)' = Window(l)
        BY <4>1 DEF SameEntry, Window
      <4>3. ASSUME disturbed[l] = {}
            PROVE  Window(l) \subseteq outcomes[l]
        <5>1. Covered(l, rows[l].start, rows[l].end + 1)'
          BY <1>0, <4>1, <4>3 DEF CompletionCovered
        <5>2. rows'[l].start \in Nat /\ rows'[l].end \in Nat
          BY <1>t DEF TypeOK, Row
        <5>3. rows'[l].start .. rows'[l].end \subseteq outcomes'[l]
          BY <5>1, <5>2, WholeWindow DEF Covered
        <5>4. QED
          BY <4>1, <5>3 DEF Window
      <4>4. QED
        BY <4>1, <4>2, <4>3, LedgerClose
    <3>15. QED
      BY <1>1, <2>s, <3>1, <3>2, <3>4, <3>5, <3>6, <3>8, <3>9, <3>10, <3>12,
         <3>13, <3>14
         DEF WorkerStep, Start, SkipWindow, ReadWindow, EnterLoop, ReapSelect,
             NothingToClaim, Fetch, BatchFails, Refresh, LimitReached
  <2>2. QED
    BY <2>1, <2>s
<1>2. CASE Environment
  <2>1. UNCHANGED <<outcomes, disturbed>>
    BY <1>2
       DEF Environment, Crash, HeartbeatExpires, CooldownExpires, BackoffExpires
  <2>2. \A l \in Log : SameEntry(l)
    <3>1. ASSUME NEW l \in Log, HeartbeatExpires(l) \/ CooldownExpires(l),
                 NEW k \in Log
          PROVE  /\ rows'[k].start = rows[k].start /\ rows'[k].end = rows[k].end
                 /\ rows'[k].completed = rows[k].completed
                 /\ rows'[k].status = rows[k].status
      <4>1. CASE HeartbeatExpires(l)
        BY <1>0, <1>r, <4>1 DEF HeartbeatExpires, TypeOK, Row
      <4>2. CASE CooldownExpires(l)
        BY <1>0, <1>r, <4>2 DEF CooldownExpires, TypeOK, Row
      <4>3. QED
        BY <3>1, <4>1, <4>2
    <3>2. CASE UNCHANGED rows
      BY <3>2, SameEntryFromRow
    <3>3. CASE \E l \in Log : HeartbeatExpires(l) \/ CooldownExpires(l)
      <4>1. PICK l \in Log : HeartbeatExpires(l) \/ CooldownExpires(l)
        BY <3>3
      <4>2. \A k \in Log :
               /\ rows'[k].start = rows[k].start /\ rows'[k].end = rows[k].end
               /\ rows'[k].completed = rows[k].completed
               /\ rows'[k].status = rows[k].status
        BY <3>1, <4>1
      <4>3. QED
        BY <4>2, SameEntryFromRow
    <3>4. QED
      BY <1>2, <3>2, <3>3 DEF Environment, Crash, BackoffExpires
  <2>3. QED
    BY <2>1, <2>2, LedgerStutter
<1>3. CASE \E w \in Worker : WorkerStep(w)
  <2>1. PICK w \in Worker : WorkerStep(w)
    BY <1>3
  <2>2. QED
    BY <1>1, <2>1
<1>4. QED
  BY <1>2, <1>3 DEF Next

(* Every behaviour of the dispatcher is a behaviour of the ledger: no step  *)
(* of any worker loses an outcome, reopens a log that is reported complete, *)
(* or reports one before every index of its window is accounted for.       *)
THEOREM PromiseKept == Spec => KeepsPromise
<1>1. Init => Promise!Init /\ AbsentLogsIdle /\ ReapedLogsExist
  <2> SUFFICES ASSUME Init
               PROVE  Promise!Init /\ AbsentLogsIdle /\ ReapedLogsExist
    OBVIOUS
  <2>1. /\ \A l \in Log : /\ rows[l].status = "absent"
                          /\ rows[l].completed = FALSE
                          /\ rows[l].claimed_by = NoWorker
                          /\ disturbed[l] = {}
        /\ \A w \in Worker : worker[w].pc = "down"
        /\ outcomes = [l \in Log |-> {}]
    BY DEF Init, AbsentRow, Down
  <2>2. \A l \in Log : Window(l) = {}
    BY <2>1 DEF Window
  <2>3. Promise!Init
    BY <2>1, <2>2 DEF Promise!Init
  <2>4. AbsentLogsIdle /\ ReapedLogsExist
    BY <2>1 DEF AbsentLogsIdle, ReapedLogsExist
  <2>5. QED
    BY <2>3, <2>4
<1>2. LedgerInv /\ CoverageInv' /\ [Next]_vars => LedgerInv'
  <2>1. CASE Next
    BY <2>1, RowsStep DEF LedgerInv
  <2>2. CASE UNCHANGED vars
    BY <2>2 DEF vars, LedgerInv, AbsentLogsIdle, ReapedLogsExist
  <2>3. QED
    BY <2>1, <2>2
<1>3. LedgerInv /\ CoverageInv' /\ [Next]_vars => [Promise!Next]_(Promise!promise)
  <2>1. CASE Next
    BY <2>1, LedgerStep
  <2>2. CASE UNCHANGED vars
    <3>1. \A l \in Log : SameEntry(l)
      BY <2>2, SameEntryFromRow DEF vars
    <3>2. QED
      BY <2>2, <3>1, LedgerStutter DEF vars
  <2>3. QED
    BY <2>1, <2>2
<1>4. CoverageInv /\ AbsentLogsIdle /\ ReapedLogsExist => LedgerInv
  BY DEF LedgerInv
<1>5. QED
  BY <1>1, <1>2, <1>3, <1>4, CoverageInvariant, PTL
     DEF Spec, KeepsPromise, Promise!Spec
=============================================================================
