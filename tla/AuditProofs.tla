------------------------------ MODULE AuditProofs ------------------------------
(***************************************************************************)
(* Theorems of the legacy ranges and their audit, for any workers, sizes   *)
(* of the log, chunks and batches, and any number of findings.             *)
(***************************************************************************)
EXTENDS Audit, FiniteData

---------------------------------------------------------------------------
(* Types *)

Status == {"absent", "complete", "failed"} \cup Active

LEMMA IndexIsNat ==
    /\ Index \subseteq Nat
    /\ \A i \in Index : \A j \in 0 .. i : j \in Index
BY LegacyAssumption DEF Index

LEMMA SpanType ==
    ASSUME NEW c \in Span
    PROVE  /\ c[1] \in Nat /\ c[2] \in Nat /\ c[1] <= c[2]
           /\ c = <<c[1], c[2]>>
           /\ \A i \in c[1] .. c[2] : i \in Index
<1>1. c \in Index \X Index /\ c[1] <= c[2]
  BY DEF Span
<1>2. c[1] \in Nat /\ c[2] \in Nat /\ c[2] \in Index
  BY <1>1, IndexIsNat
<1>3. \A i \in c[1] .. c[2] : i \in 0 .. c[2]
  BY <1>2
<1>4. QED
  BY <1>1, <1>2, <1>3, IndexIsNat

(* What is known of a process, from the point it is at. *)
LEMMA ProcessType ==
    ASSUME NEW p \in Process
    PROVE  /\ p.pc = "seeding" => p.size \in TreeSizes
           /\ p.pc \in {"start", "fetch", "persist", "fail", "requeue"} =>
                 p.job \in Job /\ p.job.span \in Span
           /\ p.pc = "persist" =>
                 /\ p.pos \in Nat /\ p.got \in Nat
                 /\ p = [pc |-> "persist", job |-> p.job, pos |-> p.pos,
                         got |-> p.got]
BY DEF Process, Job

LEMMA ProcessesAre ==
    /\ \A pc \in {"down", "seed", "claim"} : At(pc) \in Process
    /\ \A limited \in BOOLEAN : Idle(limited) \in Process
    /\ \A size \in TreeSizes : [pc |-> "seeding", size |-> size] \in Process
    /\ \A pc \in {"start", "fetch", "fail", "requeue"}, job \in Job :
          [pc |-> pc, job |-> job] \in Process
    /\ \A job \in Job, pos, got \in Nat :
          [pc |-> "persist", job |-> job, pos |-> pos, got |-> got] \in Process
BY DEF At, Idle, Process

LEMMA BecomeType ==
    ASSUME worker \in [Worker -> Process], NEW w \in Worker,
           NEW p \in Process, Become(w, p)
    PROVE  /\ worker' \in [Worker -> Process]
           /\ worker'[w] = p
           /\ \A v \in Worker \ {w} : worker'[v] = worker[v]
BY DEF Become

(* An update by id changes the status of the row it finds, and no other. *)
LEMMA SetStatusEffect ==
    ASSUME ranges \in [Span -> Row], NEW c \in Span, NEW id, NEW s \in Status
    PROVE  LET after == SetStatus(c, id, s)
           IN  /\ after \in [Span -> Row]
               /\ \A d \in Span :
                     \/ after[d] = ranges[d]
                     \/ /\ d = c /\ after[c].status = s
                        /\ ranges[c].id = id /\ ranges[c].status # "absent"
                        /\ after[c].id = ranges[c].id
                        /\ after[c].finding = ranges[c].finding
BY DEF SetStatus, Row, Status

LEMMA NewRowType ==
    ASSUME deleted \in 0 .. MaxDeleted, NEW f \in Finding \cup {NoFinding}
    PROVE  NewRow(f) \in Row /\ NoRow \in Row
BY AuditAssumption DEF NewRow, NoRow, Row, Active

LEMMA TypeInit == Init => TypeOK
<1> SUFFICES ASSUME Init
             PROVE  TypeOK
  OBVIOUS
<1>1. NoRow \in Row
  BY DEF NoRow, Row
<1>2. At("down") \in Process
  BY ProcessesAre
<1>3. ranges \in [Span -> Row] /\ worker \in [Worker -> Process]
  BY <1>1, <1>2 DEF Init, LegacyInit
<1>4. outcomes \in [Index -> Outcome]
  BY DEF Init, LegacyInit, Outcome
<1>5. findings \in [Finding -> Entry \cup {NoFinding}]
  BY DEF Init, LegacyInit
<1>6. deleted \in 0 .. MaxDeleted /\ taken \in 0 .. MaxTaken
  BY AuditAssumption DEF Init, LegacyInit
<1>7. short \in SUBSET Span /\ disturbed \in BOOLEAN
  BY DEF Init, LegacyInit
<1>8. check \in [Checker -> Check]
  BY DEF Init, Check
<1>9. QED
  BY <1>3, <1>4, <1>5, <1>6, <1>7, <1>8 DEF TypeOK

LEMMA WorkerTypeStep ==
    ASSUME TypeOK, NEW w \in Worker,
           WorkerStep(w) \/ Crash(w) \/ LimitPasses(w), UNCHANGED <<check, taken>>
    PROVE  TypeOK'
<1> USE DEF TypeOK
<1>0. worker[w] \in Process
  OBVIOUS
<1>1. CASE Start(w)
  <2>1. PICK p \in Process : Become(w, p)
    BY <1>1, ProcessesAre DEF Start
  <2>2. QED
    BY <1>1, <2>1, BecomeType DEF Start
<1>2. CASE ProbeTree(w)
  <2>1. PICK p \in Process : Become(w, p)
    BY <1>2, ProcessesAre DEF ProbeTree
  <2>2. QED
    BY <1>2, <2>1, BecomeType DEF ProbeTree
<1>3. CASE Seed(w)
  <2>1. PICK first \in {p \in Pivots : p < worker[w].size} :
           ranges' = [c \in Span |->
               IF /\ c \in Chunks(first, worker[w].size - 1, ChunkSize)
                  /\ ranges[c].status = "absent"
               THEN NewRow(NoFinding) ELSE ranges[c]]
    BY <1>3 DEF Seed
  <2>2. ranges' \in [Span -> Row]
    BY <2>1, NewRowType
  <2>3. worker' \in [Worker -> Process]
    BY <1>3, ProcessesAre, BecomeType DEF Seed
  <2>4. QED
    BY <1>3, <2>2, <2>3 DEF Seed
<1>4. CASE Reap(w)
  <2>1. \A c \in Span : Requeue(ranges[c]) \in Row
    BY DEF Requeue, Row, Active
  <2>2. ranges' \in [Span -> Row]
    BY <1>4, <2>1 DEF Reap
  <2>3. worker' \in [Worker -> Process]
    BY <1>4, ProcessesAre, BecomeType DEF Reap
  <2>4. QED
    BY <1>4, <2>2, <2>3 DEF Reap
<1>5. CASE Claim(w)
  <2>1. CASE Become(w, Idle(FALSE)) /\ UNCHANGED ranges
    <3>1. worker' \in [Worker -> Process]
      BY <2>1, ProcessesAre, BecomeType
    <3>2. QED
      BY <1>5, <2>1, <3>1 DEF Claim
  <2>2. ASSUME NEW c \in Span,
               ranges' = [ranges EXCEPT ![c].status = "claimed"],
               Become(w, [pc |-> "start", job |->
                     [span |-> c, id |-> ranges[c].id,
                      finding |-> ranges[c].finding]])
        PROVE  TypeOK'
    <3>1. ranges' \in [Span -> Row]
      BY <2>2 DEF Row, Active
    <3>2. [span |-> c, id |-> ranges[c].id, finding |-> ranges[c].finding] \in Job
      BY DEF Job, Row
    <3>3. [pc |-> "start", job |->
              [span |-> c, id |-> ranges[c].id,
               finding |-> ranges[c].finding]] \in Process
      BY <3>2, ProcessesAre
    <3>4. worker' \in [Worker -> Process]
      BY <2>2, <3>3, BecomeType
    <3>5. QED
      BY <1>5, <3>1, <3>4 DEF Claim
  <2>3. QED
    BY <1>5, <2>1, <2>2 DEF Claim
<1>6. CASE Heartbeat(w)
  <2> DEFINE job == worker[w].job
  <2>1. job \in Job /\ job.span \in Span
    BY <1>0, <1>6, ProcessType DEF Heartbeat
  <2>2. ranges' \in [Span -> Row]
    BY <1>6, <2>1, SetStatusEffect DEF Heartbeat, Status, Active
  <2>3. worker' \in [Worker -> Process]
    BY <1>6, <2>1, ProcessesAre, BecomeType DEF Heartbeat
  <2>4. QED
    BY <1>6, <2>2, <2>3 DEF Heartbeat
<1>7. ASSUME NEW size \in BatchSizes, Fetch(w, size)
      PROVE  TypeOK'
  <2> DEFINE job == worker[w].job
  <2>1. job \in Job /\ job.span \in Span
    BY <1>0, <1>7, ProcessType DEF Fetch
  <2>2. job.span[1] \in Nat /\ job.span[2] \in Nat /\ size \in Nat
    BY <2>1, SpanType, LegacyAssumption
  <2>3. LastOf(job, size) \in Int
    BY <2>2 DEF LastOf
  <2>4. PICK got \in job.span[1] .. LastOf(job, size) + 1 :
           /\ Become(w, [pc |-> "persist", job |-> job, pos |-> job.span[1],
                         got |-> got])
           /\ short' = IF got > LastOf(job, size)
                       THEN short ELSE short \cup {job.span}
    BY <1>7 DEF Fetch
  <2>5. got \in Nat
    BY <2>2, <2>3
  <2>6. worker' \in [Worker -> Process]
    BY <2>1, <2>2, <2>4, <2>5, ProcessesAre, BecomeType
  <2>7. short' \in SUBSET Span
    BY <2>1, <2>4
  <2>8. QED
    BY <1>7, <2>6, <2>7 DEF Fetch
<1>8. CASE RateLimited(w) \/ BatchFails(w)
  <2>1. worker[w].job \in Job
    BY <1>0, <1>8, ProcessType DEF RateLimited, BatchFails
  <2>2. PICK p \in Process : Become(w, p)
    BY <1>8, <2>1, ProcessesAre DEF RateLimited, BatchFails
  <2>3. QED
    BY <1>8, <2>2, BecomeType DEF RateLimited, BatchFails
<1>9. CASE PersistEntry(w)
  <2> DEFINE p == worker[w]
  <2>1. /\ p.job \in Job /\ p.pos \in Nat /\ p.got \in Nat
        /\ p = [pc |-> "persist", job |-> p.job, pos |-> p.pos, got |-> p.got]
    BY <1>0, <1>9, ProcessType DEF PersistEntry
  <2>2. [p EXCEPT !.pos = @ + 1] =
           [pc |-> "persist", job |-> p.job, pos |-> p.pos + 1, got |-> p.got]
    BY <2>1
  <2>3. [p EXCEPT !.pos = @ + 1] \in Process
    BY <2>1, <2>2, ProcessesAre
  <2>4. worker' \in [Worker -> Process]
    BY <1>9, <2>3, BecomeType DEF PersistEntry
  <2>5. outcomes' \in [Index -> Outcome]
    BY <1>9 DEF PersistEntry, OutcomesOf, Outcome
  <2>6. QED
    BY <1>9, <2>4, <2>5 DEF PersistEntry
<1>10. CASE Complete(w)
  <2> DEFINE job == worker[w].job
  <2>1. job \in Job /\ job.span \in Span
    BY <1>0, <1>10, ProcessType DEF Complete
  <2>2. ranges' \in [Span -> Row]
    BY <1>10, <2>1, SetStatusEffect DEF Complete, Status
  <2>3. findings' \in [Finding -> Entry \cup {NoFinding}]
    BY <1>10 DEF Complete, Resolved
  <2>4. worker' \in [Worker -> Process]
    BY <1>10, ProcessesAre, BecomeType DEF Complete
  <2>5. QED
    BY <1>10, <2>2, <2>3, <2>4 DEF Complete
<1>11. CASE MarkFailed(w) \/ MarkPending(w)
  <2> DEFINE job == worker[w].job
  <2>1. job \in Job /\ job.span \in Span
    BY <1>0, <1>11, ProcessType DEF MarkFailed, MarkPending
  <2>2. ranges' \in [Span -> Row]
    <3>1. PICK s \in {"failed", "pending"} :
             ranges' = SetStatus(job.span, job.id, s)
      BY <1>11 DEF MarkFailed, MarkPending, FailedStatus
    <3>2. QED
      BY <2>1, <3>1, SetStatusEffect DEF Status, Active
  <2>3. worker' \in [Worker -> Process]
    BY <1>11, ProcessesAre, BecomeType DEF MarkFailed, MarkPending
  <2>4. QED
    BY <1>11, <2>2, <2>3 DEF MarkFailed, MarkPending
<1>12. CASE Crash(w) \/ LimitPasses(w)
  <2>1. PICK p \in Process : Become(w, p)
    BY <1>12, ProcessesAre DEF Crash, LimitPasses
  <2>2. QED
    BY <1>12, <2>1, BecomeType DEF Crash, LimitPasses
<1>13. QED
  BY <1>1, <1>2, <1>3, <1>4, <1>5, <1>6, <1>7, <1>8, <1>9, <1>10, <1>11,
     <1>12 DEF WorkerStep

LEMMA PutBackEffect ==
    ASSUME TypeOK, NEW f \in Finding, NEW from \in SUBSET Status
    PROVE  LET after == PutBack(f, from)
           IN  /\ after \in [Span -> Row]
               /\ \A d \in Span :
                     \/ after[d] = ranges[d]
                     \/ /\ d = f.span /\ after[d].status = "pending"
                        /\ ranges[d].status \in from \ {"absent"}
                        /\ after[d].id = ranges[d].id
                        /\ after[d].finding = ranges[d].finding
<1>1. f.span \in Span
  BY DEF Finding
<1>2. CASE findings[f].range # NoRange /\ ranges[f.span].status \in from
  <2>1. PutBack(f, from) = SetStatus(f.span, findings[f].range, "pending")
    BY <1>2 DEF PutBack
  <2>2. "pending" \in Status
    BY DEF Status, Active
  <2>3. QED
    BY <1>1, <1>2, <2>1, <2>2, SetStatusEffect DEF TypeOK
<1>3. CASE ~ (findings[f].range # NoRange /\ ranges[f.span].status \in from)
  BY <1>3 DEF PutBack, TypeOK
<1>4. QED
  BY <1>2, <1>3

LEMMA RepairTypeStep ==
    ASSUME TypeOK, NEW f \in Finding, Repair(f)
    PROVE  TypeOK'
<1> USE DEF TypeOK
<1>1. /\ f.span \in Span /\ findings[f] \in Entry
      /\ Close(f) \in [Finding -> Entry \cup {NoFinding}]
  BY DEF Finding, Repair, Repairable, Live, Close
<1>2. CASE RepairStale(f)
  <2>1. ranges' \in [Span -> Row]
    BY <1>2, PutBackEffect DEF RepairStale, InProgress, Status, Active
  <2>2. QED
    BY <1>1, <1>2, <2>1 DEF RepairStale, Repair
<1>3. CASE RepairFailed(f)
  <2>1. ranges' \in [Span -> Row]
    BY <1>3, PutBackEffect DEF RepairFailed, Status
  <2>2. QED
    BY <1>1, <1>3, <2>1 DEF RepairFailed, Repair
<1>4. CASE RepairMissing(f)
  <2>1. ranges' \in [Span -> Row]
    BY <1>4, NewRowType DEF RepairMissing
  <2>2. findings' \in [Finding -> Entry \cup {NoFinding}]
    BY <1>1, <1>4, AuditAssumption DEF RepairMissing, Entry
  <2>3. QED
    BY <1>4, <2>1, <2>2 DEF RepairMissing, Repair
<1>5. CASE RepairObservation(f)
  <2>1. outcomes' \in [Index -> Outcome]
    BY <1>5 DEF RepairObservation, Outcome
  <2>2. QED
    BY <1>1, <1>5, <2>1 DEF RepairObservation, Repair
<1>6. QED
  BY <1>2, <1>3, <1>4, <1>5 DEF Repair

(* The row of a check: its span, and the id of its range if it has one. *)
LEMMA RowsType ==
    ASSUME TypeOK, NEW type \in Type, NEW r \in Rows(type)
    PROVE  /\ r \in Checked /\ r = <<r[1], r[2]>>
           /\ r[1] \in Span /\ r[2] \in Nat \cup {NoRange}
           /\ type = "observation" <=> r[2] = NoRange
           /\ \/ r[2] = NoRange
              \/ r[2] = ranges[r[1]].id /\ ranges[r[1]].status # "absent"
<1>1. \A status : \A q \in RowsWith(status) :
         /\ q = <<q[1], q[2]>>
         /\ q[1] \in Span /\ q[2] = ranges[q[1]].id
         /\ ranges[q[1]].status = status
  BY DEF RowsWith
<1>2. CASE type = "observation"
  <2>1. PICK i \in Index : r = <<<<i, i>>, NoRange>>
    BY <1>2 DEF Rows
  <2>2. <<i, i>> \in Span
    BY IndexIsNat, LegacyAssumption DEF Span
  <2>3. QED
    BY <1>2, <2>1, <2>2 DEF Checked
<1>3. CASE type # "observation"
  <2>1. PICK status \in {"stale", "failed", "complete"} : r \in RowsWith(status)
    BY <1>3 DEF Rows, Type
  <2>2. /\ r = <<r[1], r[2]>> /\ r[1] \in Span /\ r[2] = ranges[r[1]].id
        /\ ranges[r[1]].status # "absent"
    BY <1>1, <2>1
  <2>3. r[2] \in Nat /\ r[2] # NoRange
    BY <2>2 DEF TypeOK, Row, NoRange
  <2>4. r \in Checked
    BY <2>2, <2>3 DEF Checked
  <2>5. QED
    BY <1>3, <2>2, <2>3, <2>4
<1>4. QED
  BY <1>2, <1>3

CheckStep(k) ==
    \/ \E type \in Type : QueryRows(k, type)
    \/ ReadKeys(k)
    \/ InsertFindings(k)

LEMMA ChecksLeave ==
    ASSUME NEW k \in Checker, CheckStep(k)
    PROVE  /\ UNCHANGED <<ranges, outcomes, worker, deleted, short, disturbed,
                         taken>>
           /\ ~ InsertFindings(k) => UNCHANGED findings
BY DEF CheckStep, QueryRows, ReadKeys, InsertFindings

(* What a check has in hand: the answer to its query, or what is not known *)
(* of it. *)
LEMMA InHand ==
    ASSUME TypeOK, NEW k \in Checker, check[k].pc # "idle"
    PROVE  check[k].type \in Type /\ check[k].rows \in SUBSET Checked
BY DEF TypeOK, Check, NoCheck

Fresh(k) == {r \in check[k].rows : ~ Known(check[k].type, r)}

LEMMA CheckSteps ==
    ASSUME TypeOK, NEW k \in Checker, CheckStep(k)
    PROVE  \E c \in Check :
              /\ check' = [check EXCEPT ![k] = c]
              /\ c.pc = "keys" => c.rows \subseteq Rows(c.type)
              /\ c.pc = "insert" => /\ ReadKeys(k)
                                    /\ c.type = check[k].type
                                    /\ c.rows = Fresh(k)
<1>1. ASSUME NEW type \in Type, QueryRows(k, type)
      PROVE  \E c \in Check : /\ check' = [check EXCEPT ![k] = c]
                              /\ c.pc = "keys" /\ c.rows \subseteq Rows(c.type)
  <2>1. PICK rows \in Answers(type) :
           check' = [check EXCEPT ![k] =
                        [pc |-> "keys", type |-> type, rows |-> rows]]
    BY <1>1 DEF QueryRows
  <2>2. rows \subseteq Rows(type)
    BY DEF Answers
  <2>3. rows \subseteq Checked
    <3>1. ASSUME NEW r \in rows
          PROVE  r \in Checked
      BY <2>2, RowsType
    <3>2. QED
      BY <3>1
  <2>4. [pc |-> "keys", type |-> type, rows |-> rows] \in Check
    BY <2>3 DEF Check
  <2>5. QED
    BY <2>1, <2>2, <2>4
<1>2. CASE ReadKeys(k)
  <2>1. check[k].pc = "keys"
    BY <1>2 DEF ReadKeys
  <2>2. check[k].type \in Type /\ Fresh(k) \subseteq Checked
    BY <2>1, InHand DEF Fresh
  <2>3. [pc |-> "insert", type |-> check[k].type, rows |-> Fresh(k)] \in Check
    BY <2>2 DEF Check
  <2>4. NoCheck \in Check /\ NoCheck.pc = "idle"
    BY DEF Check, NoCheck
  <2>5. \/ check' = [check EXCEPT ![k] = NoCheck]
        \/ check' = [check EXCEPT ![k] =
               [pc |-> "insert", type |-> check[k].type, rows |-> Fresh(k)]]
    BY <1>2 DEF ReadKeys, Fresh
  <2>6. QED
    BY <1>2, <2>3, <2>4, <2>5
<1>3. CASE InsertFindings(k)
  <2>1. NoCheck \in Check /\ NoCheck.pc = "idle"
    BY DEF Check, NoCheck
  <2>2. check' = [check EXCEPT ![k] = NoCheck]
    BY <1>3 DEF InsertFindings
  <2>3. QED
    BY <2>1, <2>2
<1>4. QED
  BY <1>1, <1>2, <1>3 DEF CheckStep

(* The findings a check opens are identities that were free, each for a    *)
(* row it has in hand that is still there. *)
LEMMA InsertEffect ==
    ASSUME TypeOK, NEW k \in Checker, InsertFindings(k), NEW f \in Finding
    PROVE  \/ findings'[f] = findings[f]
           \/ \E r \in check[k].rows :
                 /\ f = Identity(check[k].type, r) /\ Refers(r)
                 /\ f.type = check[k].type /\ f.span = r[1] /\ ~ Live(f)
                 /\ findings'[f] = [range |-> r[2], status |-> "open", by |-> k]
<1> DEFINE rows == check[k].rows
           type == check[k].type
<1>1. CASE UNCHANGED findings
  BY <1>1
<1>2. CASE findings' # findings
  <2>1. /\ \A r \in rows : Refers(r)
        /\ \A r \in rows :
              \E g \in Finding : g.type = type /\ g.span = r[1] /\ Free(g)
        /\ findings' = Reported(k)
    BY <1>2 DEF InsertFindings
  <2>2. ASSUME NEW r \in rows
        PROVE  /\ Identity(type, r).type = type
               /\ Identity(type, r).span = r[1]
               /\ Free(Identity(type, r))
    BY <2>1 DEF Identity
  <2>3. CASE \E r \in rows : f = Identity(type, r)
    <3> DEFINE r == CHOOSE q \in rows : f = Identity(type, q)
    <3>1. r \in rows /\ f = Identity(type, r)
      BY <2>3
    <3>2. findings'[f] = [range |-> r[2], status |-> "open", by |-> k]
      BY <2>1, <2>3 DEF Reported
    <3>3. QED
      BY <2>1, <2>2, <3>1, <3>2 DEF Free
  <2>4. CASE ~ \E r \in rows : f = Identity(type, r)
    BY <2>1, <2>4 DEF Reported
  <2>5. QED
    BY <2>3, <2>4
<1>3. QED
  BY <1>1, <1>2

LEMMA TypeStep == TypeOK /\ [Next]_vars => TypeOK'
<1> SUFFICES ASSUME TypeOK, [Next]_vars
             PROVE  TypeOK'
  OBVIOUS
<1> USE DEF TypeOK
<1>1. ASSUME NEW w \in Worker, UNCHANGED <<check, taken>>,
             WorkerStep(w) \/ Crash(w) \/ LimitPasses(w)
      PROVE  TypeOK'
  BY <1>1, WorkerTypeStep
<1>2. ASSUME NEW c \in Span, ClaimExpires(c), UNCHANGED <<check, taken>>
      PROVE  TypeOK'
  <2>1. ranges' \in [Span -> Row]
    BY <1>2 DEF ClaimExpires, Row, Active
  <2>2. QED
    BY <1>2, <2>1 DEF ClaimExpires
<1>3. ASSUME NEW k \in Checker, CheckStep(k)
      PROVE  TypeOK'
  <2>1. check' \in [Checker -> Check]
    <3>1. PICK c \in Check : check' = [check EXCEPT ![k] = c]
      BY <1>3, CheckSteps
    <3>2. QED
      BY <3>1
  <2>2. findings' \in [Finding -> Entry \cup {NoFinding}]
    <3>1. CASE UNCHANGED findings
      BY <3>1
    <3>2. CASE ~ UNCHANGED findings
      <4>1. InsertFindings(k) /\ findings' = Reported(k)
        BY <1>3, <3>2, ChecksLeave DEF InsertFindings
      <4>2. check[k].pc # "idle"
        BY <4>1 DEF InsertFindings
      <4>3. ASSUME NEW f \in Finding
            PROVE  findings'[f] \in Entry \cup {NoFinding}
        <5>1. CASE findings'[f] = findings[f]
          BY <5>1
        <5>2. ASSUME NEW r \in check[k].rows,
                     findings'[f] = [range |-> r[2], status |-> "open", by |-> k]
              PROVE  findings'[f] \in Entry
          <6>1. r[2] \in Nat \cup {NoRange}
            BY <4>2, InHand DEF Checked
          <6>2. QED
            BY <5>2, <6>1 DEF Entry
        <5>3. QED
          BY <4>1, <5>1, <5>2, InsertEffect
      <4>4. QED
        BY <4>1, <4>3 DEF Reported
    <3>3. QED
      BY <3>1, <3>2
  <2>3. QED
    BY <1>3, <2>1, <2>2, ChecksLeave
<1>4. CASE ResolveOrphans
  BY <1>4 DEF ResolveOrphans
<1>5. ASSUME NEW f \in Finding, Repair(f)
      PROVE  TypeOK'
  BY <1>5, RepairTypeStep
<1>6. ASSUME NEW f \in Finding, Ignore(f)
      PROVE  TypeOK'
  BY <1>6, AuditAssumption DEF Ignore, Close
<1>7. ASSUME NEW c \in Span, DeleteRange(c)
      PROVE  TypeOK'
  <2>1. NoRow \in Row
    BY DEF NoRow, Row
  <2>2. ranges' \in [Span -> Row]
    BY <1>7, <2>1 DEF DeleteRange
  <2>3. findings' \in [Finding -> Entry \cup {NoFinding}]
    BY <1>7 DEF DeleteRange, Live, Entry
  <2>4. QED
    BY <1>7, <2>2, <2>3, AuditAssumption DEF DeleteRange
<1>8. ASSUME NEW i \in Index, DeleteOutcome(i)
      PROVE  TypeOK'
  <2>1. outcomes' \in [Index -> Outcome]
    BY <1>8 DEF DeleteOutcome, Outcome
  <2>2. QED
    BY <1>8, <2>1, AuditAssumption DEF DeleteOutcome
<1>9. CASE UNCHANGED vars
  BY <1>9 DEF vars
<1>10. QED
  BY <1>1, <1>2, <1>3, <1>4, <1>5, <1>6, <1>7, <1>8, <1>9
     DEF Next, LegacyNext, Operators, Retention, CheckStep

(* The types hold in every state the ranges and their audit can reach. *)
THEOREM AuditTypeCorrect == Spec => []TypeOK
BY TypeInit, TypeStep, PTL DEF Spec

---------------------------------------------------------------------------
(* A step of a worker, as the others and the row it works on see it *)

LEMMA OthersUntouched ==
    ASSUME TypeOK, NEW w \in Worker,
           WorkerStep(w) \/ Crash(w) \/ LimitPasses(w)
    PROVE  \A v \in Worker \ {w} : worker'[v] = worker[v]
<1>1. \E p : Become(w, p)
  BY DEF WorkerStep, Crash, LimitPasses, Start, ProbeTree, Seed, Reap, Claim,
         Heartbeat, Fetch, RateLimited, BatchFails, PersistEntry, Complete,
         MarkFailed, MarkPending
<1>2. QED
  BY <1>1 DEF Become, TypeOK

(* Only a claim gives a worker something to do. *)
LEMMA WorkStays ==
    ASSUME TypeOK, NEW w \in Worker,
           WorkerStep(w) \/ Crash(w) \/ LimitPasses(w), ~ Claim(w), Busy(w)'
    PROVE  Busy(w) /\ worker'[w].job = worker[w].job
<1> USE DEF TypeOK, Become, Busy, At, Idle
<1>1. CASE Start(w) \/ ProbeTree(w) \/ Seed(w) \/ Reap(w) \/ Crash(w) \/ LimitPasses(w)
  BY <1>1 DEF Start, ProbeTree, Seed, Reap, Crash, LimitPasses
<1>2. CASE Heartbeat(w) \/ RateLimited(w) \/ BatchFails(w)
  BY <1>2 DEF Heartbeat, RateLimited, BatchFails
<1>3. CASE \E size \in BatchSizes : Fetch(w, size)
  BY <1>3 DEF Fetch
<1>4. CASE PersistEntry(w)
  <2>1. worker'[w] = [worker[w] EXCEPT !.pos = worker[w].pos + 1]
    BY <1>4 DEF PersistEntry
  <2>2. /\ worker[w].pc = "persist"
        /\ worker[w] = [pc |-> "persist", job |-> worker[w].job,
                        pos |-> worker[w].pos, got |-> worker[w].got]
    BY <1>4, ProcessType DEF PersistEntry
  <2>3. QED
    BY <2>1, <2>2
<1>5. CASE Complete(w) \/ MarkFailed(w) \/ MarkPending(w)
  BY <1>5 DEF Complete, MarkFailed, MarkPending
<1>6. QED
  BY <1>1, <1>2, <1>3, <1>4, <1>5 DEF WorkerStep

LEMMA JobType ==
    ASSUME TypeOK, NEW w \in Worker, Busy(w)
    PROVE  worker[w].job \in Job /\ worker[w].job.span \in Span
BY ProcessType DEF TypeOK, Busy

(* What a step makes of a row, whatever it is a step of: it is a new row   *)
(* where there was none, or the old one with another status, or gone.      *)
LEMMA RowSteps ==
    ASSUME TypeOK, [Next]_vars, NEW c \in Span
    PROVE  \/ ranges'[c] = ranges[c]
           \/ /\ ranges[c].status = "absent" /\ ranges'[c].status = "pending"
              /\ ranges'[c].id = deleted
           \/ /\ ranges[c].status # "absent" /\ ranges'[c].status # "absent"
              /\ ranges'[c].id = ranges[c].id
           \/ DeleteRange(c) /\ ranges'[c].status = "absent"
<1> USE DEF TypeOK
<1>1. ASSUME NEW w \in Worker, WorkerStep(w)
      PROVE  \/ ranges'[c] = ranges[c]
             \/ /\ ranges[c].status = "absent" /\ ranges'[c].status = "pending"
                /\ ranges'[c].id = deleted
             \/ /\ ranges[c].status # "absent" /\ ranges'[c].status # "absent"
                /\ ranges'[c].id = ranges[c].id
  <2>1. CASE UNCHANGED ranges
    BY <2>1
  <2>2. CASE Seed(w)
    BY <2>2 DEF Seed, NewRow
  <2>3. CASE Reap(w)
    BY <2>3 DEF Reap, Reapable, Requeue, Row
  <2>4. CASE Claim(w)
    <3>1. CASE UNCHANGED ranges
      BY <3>1
    <3>2. ASSUME NEW d \in Span, ranges[d].status = "pending",
                 ranges' = [ranges EXCEPT ![d].status = "claimed"]
          PROVE  /\ ranges[c].status # "absent" => ranges'[c].status # "absent"
                 /\ ranges'[c].id = ranges[c].id
                 /\ ranges[c].status = "absent" => ranges'[c] = ranges[c]
      BY <3>2 DEF Row
    <3>3. QED
      BY <2>4, <3>1, <3>2 DEF Claim, Claimable
  <2>5. CASE Heartbeat(w) \/ Complete(w) \/ MarkFailed(w) \/ MarkPending(w)
    <3>1. worker[w].job.span \in Span
      BY <2>5, JobType DEF Heartbeat, Complete, MarkFailed, MarkPending, Busy
    <3>2. CASE UNCHANGED ranges
      BY <3>2
    <3>3. CASE \E s \in {"claimed", "complete", "failed", "pending"} :
                  ranges' = SetStatus(worker[w].job.span, worker[w].job.id, s)
      BY <3>1, <3>3, SetStatusEffect DEF Status, Active
    <3>4. QED
      BY <2>5, <3>2, <3>3
         DEF Heartbeat, Complete, MarkFailed, MarkPending, FailedStatus
  <2>6. QED
    BY <1>1, <2>1, <2>2, <2>3, <2>4, <2>5
       DEF WorkerStep, Start, ProbeTree, Fetch, RateLimited, BatchFails,
           PersistEntry
<1>2. ASSUME NEW w \in Worker, Crash(w) \/ LimitPasses(w)
      PROVE  ranges'[c] = ranges[c]
  BY <1>2 DEF Crash, LimitPasses
<1>3. ASSUME NEW d \in Span, ClaimExpires(d)
      PROVE  /\ ranges[c].status # "absent" => ranges'[c].status # "absent"
             /\ ranges'[c].id = ranges[c].id
             /\ ranges[c].status = "absent" => ranges'[c] = ranges[c]
  BY <1>3 DEF ClaimExpires, Row
<1>4. CASE (\E k \in Checker : CheckStep(k)) \/ ResolveOrphans
  BY <1>4, ChecksLeave DEF ResolveOrphans
<1>5. ASSUME NEW f \in Finding, Repair(f)
      PROVE  \/ ranges'[c] = ranges[c]
             \/ /\ ranges[c].status = "absent" /\ ranges'[c].status = "pending"
                /\ ranges'[c].id = deleted
             \/ /\ ranges[c].status # "absent" /\ ranges'[c].status # "absent"
                /\ ranges'[c].id = ranges[c].id
  <2>1. f.span \in Span
    BY DEF Finding
  <2>2. CASE RepairStale(f)
    <3>1. ranges' = PutBack(f, InProgress) /\ InProgress \in SUBSET Status
      BY <2>2 DEF RepairStale, InProgress, Status, Active
    <3>2. QED
      BY <3>1, PutBackEffect
  <2>3. CASE RepairFailed(f)
    <3>1. ranges' = PutBack(f, {"failed"}) /\ {"failed"} \in SUBSET Status
      BY <2>3 DEF RepairFailed, Status
    <3>2. QED
      BY <3>1, PutBackEffect
  <2>4. CASE RepairMissing(f)
    BY <2>1, <2>4 DEF RepairMissing, NewRow
  <2>5. CASE RepairObservation(f)
    BY <2>5 DEF RepairObservation
  <2>6. QED
    BY <1>5, <2>2, <2>3, <2>4, <2>5 DEF Repair
<1>6. ASSUME NEW f \in Finding, Ignore(f)
      PROVE  ranges'[c] = ranges[c]
  BY <1>6 DEF Ignore
<1>7. ASSUME NEW d \in Span, DeleteRange(d)
      PROVE  \/ ranges'[c] = ranges[c]
             \/ DeleteRange(c) /\ ranges'[c].status = "absent"
  BY <1>7 DEF DeleteRange, NoRow
<1>8. ASSUME NEW i \in Index, DeleteOutcome(i)
      PROVE  ranges'[c] = ranges[c]
  BY <1>8 DEF DeleteOutcome
<1>9. CASE UNCHANGED vars
  BY <1>9 DEF vars
<1>10. QED
  BY <1>1, <1>2, <1>3, <1>4, <1>5, <1>6, <1>7, <1>8, <1>9
     DEF Next, LegacyNext, Operators, Retention, CheckStep

---------------------------------------------------------------------------
(* One worker per range *)

(* As long as no claim outlived its timeout under its worker, the row of a *)
(* worker's job is the one it claimed, still claimed, and no other worker  *)
(* has it. *)
ClaimsHeld ==
    ~ disturbed => \A w \in Worker : Busy(w) =>
        /\ ranges[worker[w].job.span].id = worker[w].job.id
        /\ ranges[worker[w].job.span].status = "claimed"

ClaimsApart ==
    ~ disturbed => \A v, w \in Worker :
        Busy(v) /\ Busy(w) /\ worker[v].job.span = worker[w].job.span => v = w

(* A step that gives nobody a job and leaves alone the rows of those who   *)
(* keep theirs. *)
LEMMA ClaimsQuiet ==
    ASSUME ClaimsHeld, ClaimsApart, disturbed => disturbed',
           \A w \in Worker : Busy(w)' =>
              Busy(w) /\ worker'[w].job = worker[w].job,
           \A w \in Worker : ~ disturbed' /\ Busy(w)' =>
              LET c == worker[w].job.span
              IN  /\ ranges'[c].id = ranges[c].id
                  /\ ranges[c].status = "claimed" => ranges'[c].status = "claimed"
    PROVE  ClaimsHeld' /\ ClaimsApart'
<1>1. CASE disturbed'
  BY <1>1 DEF ClaimsHeld, ClaimsApart
<1>2. CASE ~ disturbed'
  <2>1. /\ \A w \in Worker : Busy(w) =>
              /\ ranges[worker[w].job.span].id = worker[w].job.id
              /\ ranges[worker[w].job.span].status = "claimed"
        /\ \A v, w \in Worker :
              Busy(v) /\ Busy(w) /\ worker[v].job.span = worker[w].job.span
              => v = w
    BY <1>2 DEF ClaimsHeld, ClaimsApart
  <2>2. ASSUME NEW w \in Worker, Busy(w)'
        PROVE  /\ ranges'[worker'[w].job.span].id = worker'[w].job.id
               /\ ranges'[worker'[w].job.span].status = "claimed"
    BY <1>2, <2>1, <2>2
  <2>3. ASSUME NEW v \in Worker, NEW w \in Worker, Busy(v)', Busy(w)',
               worker'[v].job.span = worker'[w].job.span
        PROVE  v = w
    BY <2>1, <2>3
  <2>4. QED
    BY <2>2, <2>3 DEF ClaimsHeld, ClaimsApart
<1>3. QED
  BY <1>1, <1>2

LEMMA WorkerClaimsStep ==
    ASSUME TypeOK, ClaimsHeld, ClaimsApart, NEW w \in Worker,
           WorkerStep(w) \/ Crash(w) \/ LimitPasses(w)
    PROVE  ClaimsHeld' /\ ClaimsApart'
<1> USE DEF TypeOK
<1>1. /\ \A v \in Worker \ {w} : worker'[v] = worker[v]
      /\ \A v \in Worker \ {w} : Busy(v)' => Busy(v)
  BY OthersUntouched DEF Busy
<1>2. disturbed' = disturbed
  BY DEF WorkerStep, Crash, LimitPasses, Start, ProbeTree, Seed, Reap, Claim,
         Heartbeat, Fetch, RateLimited, BatchFails, PersistEntry, Complete,
         MarkFailed, MarkPending
<1>3. ASSUME ~ Claim(w),
             \A v \in Worker : ~ disturbed /\ Busy(v)' =>
                LET c == worker[v].job.span
                IN  /\ ranges'[c].id = ranges[c].id
                    /\ ranges[c].status = "claimed" => ranges'[c].status = "claimed"
      PROVE  ClaimsHeld' /\ ClaimsApart'
  <2>1. \A v \in Worker : Busy(v)' => Busy(v) /\ worker'[v].job = worker[v].job
    BY <1>1, <1>3, WorkStays
  <2>2. QED
    BY <1>2, <1>3, <2>1, ClaimsQuiet
<1>4. CASE Claim(w)
  <2>1. CASE UNCHANGED ranges /\ Become(w, Idle(FALSE))
    <3>1. ~ Busy(w)'
      BY <2>1 DEF Become, Idle, Busy
    <3>2. \A v \in Worker : Busy(v)' => Busy(v) /\ worker'[v].job = worker[v].job
      BY <1>1, <3>1
    <3>3. QED
      BY <1>2, <2>1, <3>2, ClaimsQuiet
  <2>2. ASSUME NEW c \in Span, ranges[c].status = "pending",
               ranges' = [ranges EXCEPT ![c].status = "claimed"],
               Become(w, [pc |-> "start", job |->
                     [span |-> c, id |-> ranges[c].id,
                      finding |-> ranges[c].finding]])
        PROVE  ClaimsHeld' /\ ClaimsApart'
    <3>1. /\ ranges'[c].id = ranges[c].id /\ ranges'[c].status = "claimed"
          /\ \A d \in Span \ {c} : ranges'[d] = ranges[d]
      BY <2>2 DEF Row
    <3>2. worker'[w].job.span = c /\ worker'[w].job.id = ranges[c].id
      BY <2>2 DEF Become
    <3>3. ASSUME NEW v \in Worker \ {w}, Busy(v)', ~ disturbed'
          PROVE  /\ worker'[v].job.span \in Span \ {c}
                 /\ ranges'[worker'[v].job.span].id = worker'[v].job.id
                 /\ ranges'[worker'[v].job.span].status = "claimed"
      <4>1. Busy(v) /\ worker[v].job.span \in Span /\ worker'[v] = worker[v]
        BY <1>1, <3>3, JobType
      <4>2. /\ ranges[worker[v].job.span].status = "claimed"
            /\ ranges[worker[v].job.span].id = worker[v].job.id
        BY <1>2, <3>3, <4>1 DEF ClaimsHeld
      <4>3. QED
        BY <2>2, <3>1, <4>1, <4>2
    <3>4. ClaimsHeld'
      BY <3>1, <3>2, <3>3 DEF ClaimsHeld
    <3>5. ASSUME NEW u \in Worker, NEW v \in Worker, ~ disturbed',
                 Busy(u)', Busy(v)', worker'[u].job.span = worker'[v].job.span
          PROVE  u = v
      <4>1. CASE u = w \/ v = w
        BY <3>2, <3>3, <3>5, <4>1
      <4>2. CASE u # w /\ v # w
        BY <1>1, <1>2, <3>5, <4>2 DEF ClaimsApart
      <4>3. QED
        BY <4>1, <4>2
    <3>6. QED
      BY <3>4, <3>5 DEF ClaimsApart
  <2>3. QED
    BY <1>4, <2>1, <2>2 DEF Claim, Claimable
<1>5. CASE UNCHANGED ranges /\ ~ Claim(w)
  BY <1>3, <1>5
<1>6. CASE Seed(w) \/ Reap(w)
  <2>1. ~ Claim(w)
    BY <1>6 DEF Seed, Reap, Claim
  <2>2. \A c \in Span : ranges[c].status = "claimed" => ranges'[c] = ranges[c]
    BY <1>6 DEF Seed, Reap, Reapable
  <2>3. ASSUME NEW v \in Worker, ~ disturbed, Busy(v)'
        PROVE  LET c == worker[v].job.span
               IN  ranges'[c] = ranges[c]
    <3>1. Busy(v)
      BY <1>6, <2>1, <2>3, <1>1, WorkStays DEF WorkerStep
    <3>2. QED
      BY <2>2, <2>3, <3>1, JobType DEF ClaimsHeld
  <2>4. QED
    BY <1>3, <2>1, <2>3
<1>7. CASE Heartbeat(w)
  <2> DEFINE job == worker[w].job
  <2>1. ~ Claim(w) /\ job.span \in Span
    BY <1>7, JobType DEF Heartbeat, Claim, Busy
  <2>2. CASE UNCHANGED ranges
    BY <1>3, <2>1, <2>2
  <2>3. CASE ranges' = SetStatus(job.span, job.id, "claimed")
    <3>1. \A d \in Span :
             \/ ranges'[d] = ranges[d]
             \/ ranges'[d].status = "claimed" /\ ranges'[d].id = ranges[d].id
      BY <2>1, <2>3, SetStatusEffect DEF Status, Active
    <3>2. ASSUME NEW v \in Worker, Busy(v)'
          PROVE  worker[v].job.span \in Span
      BY <1>1, <1>7, <2>1, <3>2, WorkStays, JobType DEF WorkerStep
    <3>3. QED
      BY <1>3, <2>1, <3>1, <3>2
  <2>4. QED
    BY <1>7, <2>2, <2>3 DEF Heartbeat
<1>8. CASE Complete(w) \/ MarkFailed(w) \/ MarkPending(w)
  <2> DEFINE job == worker[w].job
  <2>1. ~ Claim(w) /\ Busy(w) /\ job.span \in Span /\ ~ Busy(w)'
    BY <1>8, JobType
       DEF Complete, MarkFailed, MarkPending, Claim, Busy, Become, Idle
  <2>2. PICK s \in {"complete", "failed", "pending"} :
           ranges' = SetStatus(job.span, job.id, s)
    BY <1>8 DEF Complete, MarkFailed, MarkPending, FailedStatus
  <2>3. \A d \in Span \ {job.span} : ranges'[d] = ranges[d]
    BY <2>1, <2>2, SetStatusEffect DEF Status, Active
  <2>4. ASSUME NEW v \in Worker, ~ disturbed, Busy(v)'
        PROVE  worker[v].job.span \in Span \ {job.span}
    <3>1. v # w /\ Busy(v)
      BY <1>1, <2>1, <2>4
    <3>2. QED
      BY <2>1, <2>4, <3>1, JobType DEF ClaimsApart
  <2>5. QED
    BY <1>3, <2>1, <2>3, <2>4
<1>9. QED
  <2>1. CASE Claim(w) \/ Seed(w) \/ Reap(w) \/ Heartbeat(w) \/ Complete(w)
               \/ MarkFailed(w) \/ MarkPending(w)
    BY <1>4, <1>6, <1>7, <1>8, <2>1
  <2>2. CASE \/ Start(w) \/ ProbeTree(w) \/ RateLimited(w) \/ BatchFails(w)
             \/ PersistEntry(w) \/ Crash(w) \/ LimitPasses(w)
             \/ \E size \in BatchSizes : Fetch(w, size)
    <3>1. UNCHANGED ranges
      BY <2>2 DEF Start, ProbeTree, RateLimited, BatchFails, PersistEntry,
                  Crash, LimitPasses, Fetch
    <3>2. QED
      BY <1>4, <1>5, <3>1
  <2>3. QED
    BY <2>1, <2>2 DEF WorkerStep

(* Steps that leave the workers alone, and every claimed row that somebody *)
(* works on. *)
LEMMA RowsQuiet ==
    ASSUME TypeOK, ClaimsHeld, ClaimsApart, UNCHANGED worker,
           disturbed => disturbed',
           \A c \in Span : ~ disturbed' /\ ranges[c].status = "claimed" =>
              \/ ranges'[c] = ranges[c]
              \/ ~ \E w \in Worker : WorksOn(w, c)
    PROVE  ClaimsHeld' /\ ClaimsApart'
<1>1. \A w \in Worker : Busy(w)' => Busy(w) /\ worker'[w].job = worker[w].job
  BY DEF Busy
<1>2. ASSUME NEW w \in Worker, ~ disturbed', Busy(w)'
      PROVE  ranges'[worker[w].job.span] = ranges[worker[w].job.span]
  <2>1. Busy(w) /\ worker[w].job.span \in Span
    BY <1>1, <1>2, JobType
  <2>2. /\ ranges[worker[w].job.span].status = "claimed"
        /\ WorksOn(w, worker[w].job.span)
    BY <1>2, <2>1 DEF ClaimsHeld, WorksOn
  <2>3. QED
    BY <1>2, <2>1, <2>2
<1>3. QED
  BY <1>1, <1>2, ClaimsQuiet

LEMMA ClaimsStep ==
    TypeOK /\ ClaimsHeld /\ ClaimsApart /\ [Next]_vars => ClaimsHeld' /\ ClaimsApart'
<1> SUFFICES ASSUME TypeOK, ClaimsHeld, ClaimsApart, [Next]_vars
             PROVE  ClaimsHeld' /\ ClaimsApart'
  OBVIOUS
<1>1. ASSUME NEW w \in Worker, WorkerStep(w) \/ Crash(w) \/ LimitPasses(w)
      PROVE  ClaimsHeld' /\ ClaimsApart'
  BY <1>1, WorkerClaimsStep
<1>2. ASSUME NEW c \in Span, ClaimExpires(c)
      PROVE  ClaimsHeld' /\ ClaimsApart'
  <2>1. /\ UNCHANGED worker
        /\ disturbed' = (disturbed \/ \E w \in Worker : WorksOn(w, c))
        /\ ranges' = [ranges EXCEPT ![c].status = "stale"]
    BY <1>2 DEF ClaimExpires
  <2>2. disturbed => disturbed'
    BY <2>1, Zenon
  <2>3. ~ disturbed' => ~ \E w \in Worker : WorksOn(w, c)
    BY <2>1, Zenon
  <2>4. \A d \in Span \ {c} : ranges'[d] = ranges[d]
    BY <2>1 DEF TypeOK
  <2>5. QED
    BY <2>1, <2>2, <2>3, <2>4, RowsQuiet
<1>3. ASSUME NEW f \in Finding, Repair(f)
      PROVE  ClaimsHeld' /\ ClaimsApart'
  <2>1. UNCHANGED worker
    BY <1>3 DEF Repair
  <2>2. CASE RepairStale(f)
    <3>1. /\ disturbed' = (disturbed \/ /\ ranges' # ranges
                                        /\ \E w \in Worker : WorksOn(w, f.span))
          /\ ranges' = PutBack(f, InProgress)
      BY <2>2 DEF RepairStale
    <3>2. disturbed => disturbed'
      BY <3>1, Zenon
    <3>3. ~ disturbed' => ranges' = ranges \/ ~ \E w \in Worker : WorksOn(w, f.span)
      BY <3>1, Zenon
    <3>4. \A d \in Span \ {f.span} : ranges'[d] = ranges[d]
      <4>1. InProgress \in SUBSET Status
        BY DEF InProgress, Status, Active
      <4>2. QED
        BY <3>1, <4>1, PutBackEffect
    <3>5. QED
      BY <2>1, <3>2, <3>3, <3>4, RowsQuiet
  <2>3. CASE RepairFailed(f)
    <3>1. ranges' = PutBack(f, {"failed"}) /\ {"failed"} \in SUBSET Status
      BY <2>3 DEF RepairFailed, Status
    <3>2. \A d \in Span : ranges[d].status = "claimed" => ranges'[d] = ranges[d]
      BY <3>1, PutBackEffect
    <3>3. disturbed => disturbed'
      BY <2>3 DEF RepairFailed
    <3>4. QED
      BY <2>1, <3>2, <3>3, RowsQuiet
  <2>4. CASE RepairMissing(f)
    <3>1. \A d \in Span : ranges[d].status = "claimed" => ranges'[d] = ranges[d]
      BY <2>4 DEF RepairMissing, TypeOK
    <3>2. disturbed => disturbed'
      BY <2>4 DEF RepairMissing
    <3>3. QED
      BY <2>1, <3>1, <3>2, RowsQuiet
  <2>5. CASE RepairObservation(f)
    BY <2>1, <2>5, RowsQuiet DEF RepairObservation
  <2>6. QED
    BY <1>3, <2>2, <2>3, <2>4, <2>5 DEF Repair
<1>4. ASSUME NEW c \in Span, DeleteRange(c)
      PROVE  ClaimsHeld' /\ ClaimsApart'
  <2>1. UNCHANGED worker /\ UNCHANGED disturbed
    BY <1>4 DEF DeleteRange
  <2>2. \A d \in Span : ranges[d].status = "claimed" => ranges'[d] = ranges[d]
    BY <1>4 DEF DeleteRange, TypeOK
  <2>3. QED
    BY <2>1, <2>2, RowsQuiet
<1>5. CASE \/ \E k \in Checker : CheckStep(k)
           \/ ResolveOrphans
           \/ \E f \in Finding : Ignore(f)
           \/ \E i \in Index : DeleteOutcome(i)
           \/ UNCHANGED vars
  <2>1. UNCHANGED worker /\ UNCHANGED disturbed /\ UNCHANGED ranges
    BY <1>5, ChecksLeave DEF ResolveOrphans, Ignore, DeleteOutcome, vars
  <2>2. QED
    BY <2>1, RowsQuiet
<1>6. QED
  BY <1>1, <1>2, <1>3, <1>4, <1>5
     DEF Next, LegacyNext, Operators, Retention, CheckStep

(* Two workers run the same legacy range only after a claim outlived its   *)
(* timeout under its worker, or after a repair took a live claim for a     *)
(* stale one. *)
THEOREM RangesHaveOneWorker == Spec => []OneWorkerPerRange
<1>1. Init => ClaimsHeld /\ ClaimsApart
  BY DEF Init, LegacyInit, ClaimsHeld, ClaimsApart, Busy, At
<1>2. ClaimsApart => OneWorkerPerRange
  BY DEF ClaimsApart, OneWorkerPerRange, WorksOn
<1>3. QED
  BY <1>1, <1>2, ClaimsStep, AuditTypeCorrect, PTL DEF Spec

---------------------------------------------------------------------------
(* A complete range has outcomes *)

LEMMA SmallestBatchIs ==
    SmallestBatch \in BatchSizes /\ \A n \in BatchSizes : SmallestBatch <= n
<1>1. \E n \in BatchSizes : \A m \in BatchSizes : n <= m
  BY LegacyAssumption, LeastNatural
<1>2. QED
  BY <1>1 DEF SmallestBatch

(* What a worker has gone through has outcomes, and unless the log has     *)
(* answered with less, it has asked for the smallest batch at least. *)
Answered ==
    \A w \in Worker : worker[w].pc = "persist" =>
        LET p == worker[w]
            c == p.job.span
        IN  /\ p.pos >= c[1] /\ p.pos <= p.got /\ p.got <= c[2] + 1
            /\ \A i \in c[1] .. p.pos - 1 : HasOutcome(i)
            /\ c \notin short => p.got > LastOf(p.job, SmallestBatch)

LEMMA OutcomesStay ==
    ASSUME TypeOK, [Next]_vars, NEW i \in Index, HasOutcome(i)
    PROVE  HasOutcome(i)'
<1>1. CASE UNCHANGED outcomes
  BY <1>1 DEF HasOutcome
<1>2. ASSUME NEW w \in Worker, PersistEntry(w)
      PROVE  HasOutcome(i)'
  BY <1>2 DEF PersistEntry, OutcomesOf, HasOutcome, TypeOK
<1>3. ASSUME NEW f \in Finding, RepairObservation(f)
      PROVE  HasOutcome(i)'
  BY <1>3 DEF RepairObservation, HasOutcome, TypeOK
<1>4. ASSUME NEW j \in Index, DeleteOutcome(j)
      PROVE  HasOutcome(i)'
  BY <1>4 DEF DeleteOutcome, HasOutcome, TypeOK
<1>5. QED
  <2>1. CASE LegacyNext
    BY <1>1, <1>2, <2>1
       DEF LegacyNext, WorkerStep, Start, ProbeTree, Seed, Reap, Claim,
           Heartbeat, Fetch, RateLimited, BatchFails, Complete, MarkFailed,
           MarkPending, Crash, LimitPasses, ClaimExpires
  <2>2. CASE Operators
    BY <1>1, <1>3, <2>2
       DEF Operators, QueryRows, ReadKeys, InsertFindings, ResolveOrphans, Ignore, Repair, RepairStale,
           RepairFailed, RepairMissing
  <2>3. CASE Retention
    BY <1>1, <1>4, <2>3 DEF Retention, DeleteRange
  <2>4. QED
    BY <1>1, <2>1, <2>2, <2>3 DEF Next, vars

LEMMA ShortGrows ==
    ASSUME [Next]_vars
    PROVE  short \subseteq short'
<1>1. CASE LegacyNext
  BY <1>1
     DEF LegacyNext, WorkerStep, Start, ProbeTree, Seed, Reap, Claim,
         Heartbeat, Fetch, RateLimited, BatchFails, PersistEntry, Complete,
         MarkFailed, MarkPending, Crash, LimitPasses, ClaimExpires
<1>2. CASE Operators
  BY <1>2 DEF Operators, QueryRows, ReadKeys, InsertFindings, ResolveOrphans, Ignore, Repair
<1>3. CASE Retention
  BY <1>3 DEF Retention, DeleteRange, DeleteOutcome
<1>4. QED
  BY <1>1, <1>2, <1>3 DEF Next, vars

(* Only the end of its batch completes a range. *)
LEMMA BatchCompletes ==
    ASSUME TypeOK, [Next]_vars, NEW c \in Span,
           ranges'[c].status = "complete", ranges[c].status # "complete"
    PROVE  \E w \in Worker : Complete(w) /\ worker[w].job.span = c
<1> USE DEF TypeOK
<1>1. ASSUME NEW w \in Worker, WorkerStep(w)
      PROVE  Complete(w) /\ worker[w].job.span = c
  <2>1. ~ UNCHANGED ranges
    OBVIOUS
  <2>2. ~ Seed(w) /\ ~ Reap(w)
    <3>1. CASE Seed(w)
      BY <3>1 DEF Seed, NewRow
    <3>2. CASE Reap(w)
      BY <3>2 DEF Reap, Requeue, Row
    <3>3. QED
      BY <3>1, <3>2
  <2>3. ~ Claim(w)
    <3>1. ASSUME NEW d \in Span, ranges' = [ranges EXCEPT ![d].status = "claimed"]
          PROVE  FALSE
      BY <3>1 DEF Row
    <3>2. QED
      BY <2>1, <3>1 DEF Claim
  <2>4. CASE Heartbeat(w) \/ MarkFailed(w) \/ MarkPending(w)
    <3>1. worker[w].job.span \in Span
      BY <2>4, JobType DEF Heartbeat, MarkFailed, MarkPending, Busy
    <3>2. PICK s \in {"claimed", "failed", "pending"} :
             ranges' = SetStatus(worker[w].job.span, worker[w].job.id, s)
      BY <2>1, <2>4 DEF Heartbeat, MarkFailed, MarkPending, FailedStatus
    <3>3. QED
      BY <3>1, <3>2, SetStatusEffect DEF Status, Active
  <2>5. CASE Complete(w)
    <3>1. /\ worker[w].job.span \in Span
          /\ ranges' = SetStatus(worker[w].job.span, worker[w].job.id, "complete")
      BY <2>5, JobType DEF Complete, Busy
    <3>2. QED
      BY <2>5, <3>1, SetStatusEffect DEF Status
  <2>6. QED
    BY <1>1, <2>1, <2>2, <2>3, <2>4, <2>5
       DEF WorkerStep, Start, ProbeTree, Fetch, RateLimited, BatchFails,
           PersistEntry
<1>2. ~ \E f \in Finding : Repair(f)
  <2> SUFFICES ASSUME NEW f \in Finding, Repair(f)
               PROVE  FALSE
    OBVIOUS
  <2>1. CASE \E from \in {InProgress, {"failed"}} : ranges' = PutBack(f, from)
    <3>1. InProgress \in SUBSET Status /\ {"failed"} \in SUBSET Status
      BY DEF InProgress, Status, Active
    <3>2. QED
      BY <2>1, <3>1, PutBackEffect
  <2>2. CASE RepairMissing(f)
    BY <2>2 DEF RepairMissing, NewRow, Finding
  <2>3. QED
    BY <2>1, <2>2 DEF Repair, RepairStale, RepairFailed, RepairObservation
<1>3. ASSUME NEW d \in Span, ClaimExpires(d) \/ DeleteRange(d)
      PROVE  FALSE
  BY <1>3 DEF ClaimExpires, DeleteRange, NoRow, Row
<1>4. ~ UNCHANGED ranges
  OBVIOUS
<1>5. QED
  BY <1>1, <1>2, <1>3, <1>4
     DEF Next, LegacyNext, Operators, Retention, Crash, LimitPasses, QueryRows,
         ReadKeys, InsertFindings, ResolveOrphans, Ignore, DeleteOutcome, vars

LEMMA AnsweredStep ==
    ASSUME TypeOK, Answered, [Next]_vars
    PROVE  Answered'
<1> USE DEF TypeOK
<1> DEFINE Good(v) ==
        /\ worker[v].pos >= worker[v].job.span[1]
        /\ worker[v].pos <= worker[v].got
        /\ worker[v].got <= worker[v].job.span[2] + 1
        /\ \A i \in worker[v].job.span[1] .. worker[v].pos - 1 : HasOutcome(i)
        /\ worker[v].job.span \notin short =>
              worker[v].got > LastOf(worker[v].job, SmallestBatch)
<1>1. ASSUME NEW v \in Worker, worker[v].pc = "persist"
      PROVE  /\ worker[v].job \in Job /\ worker[v].job.span \in Span
             /\ worker[v].job.span[1] \in Nat /\ worker[v].job.span[2] \in Nat
             /\ worker[v].job.span[1] <= worker[v].job.span[2]
             /\ worker[v].pos \in Nat /\ worker[v].got \in Nat
             /\ \A i \in worker[v].job.span[1] .. worker[v].job.span[2] : i \in Index
  <2>1. /\ worker[v].job \in Job /\ worker[v].job.span \in Span
        /\ worker[v].pos \in Nat /\ worker[v].got \in Nat
    BY <1>1, ProcessType
  <2>2. QED
    BY <2>1, SpanType
<1>2. ASSUME NEW v \in Worker, worker[v].pc = "persist"
      PROVE  Good(v)
  BY <1>2 DEF Answered
<1>3. ASSUME NEW v \in Worker, worker[v].pc = "persist", worker'[v] = worker[v]
      PROVE  Good(v)'
  <2>1. ASSUME NEW i \in worker[v].job.span[1] .. worker[v].pos - 1
        PROVE  HasOutcome(i)'
    <3>1. HasOutcome(i) /\ i \in Index
      BY <1>1, <1>2, <1>3
    <3>2. QED
      BY <3>1, OutcomesStay
  <2>2. worker[v].job.span \notin short' =>
           worker[v].got > LastOf(worker[v].job, SmallestBatch)
    BY <1>2, <1>3, ShortGrows
  <2>3. QED
    BY <1>2, <1>3, <2>1, <2>2 DEF LastOf
<1>4. ASSUME NEW w \in Worker, NEW size \in BatchSizes, Fetch(w, size)
      PROVE  Good(w)'
  <2> DEFINE job == worker[w].job
  <2>1. job \in Job /\ job.span \in Span
    BY <1>4, ProcessType DEF Fetch
  <2>2. /\ job.span[1] \in Nat /\ job.span[2] \in Nat /\ job.span[1] <= job.span[2]
        /\ size \in Nat /\ SmallestBatch \in Nat /\ SmallestBatch <= size
    BY <2>1, SpanType, SmallestBatchIs, LegacyAssumption
  <2>3. PICK got \in job.span[1] .. LastOf(job, size) + 1 :
           /\ Become(w, [pc |-> "persist", job |-> job, pos |-> job.span[1],
                         got |-> got])
           /\ short' = IF got > LastOf(job, size)
                       THEN short ELSE short \cup {job.span}
    BY <1>4 DEF Fetch
  <2>4. LastOf(job, SmallestBatch) <= LastOf(job, size)
    BY <2>2 DEF LastOf
  <2>5. LastOf(job, size) \in Int /\ LastOf(job, size) <= job.span[2]
        /\ LastOf(job, SmallestBatch) \in Int
    BY <2>2 DEF LastOf
  <2>6. /\ worker'[w].job = job /\ worker'[w].pos = job.span[1]
        /\ worker'[w].got = got
    BY <2>3 DEF Become
  <2>7. job.span \notin short' => got > LastOf(job, SmallestBatch)
    BY <2>2, <2>3, <2>4, <2>5
  <2>8. /\ got >= job.span[1] /\ got <= job.span[2] + 1
        /\ \A i \in job.span[1] .. job.span[1] - 1 : HasOutcome(i)'
    BY <2>2, <2>3, <2>5
  <2> HIDE DEF job
  <2>9. QED
    BY <2>2, <2>6, <2>7, <2>8 DEF LastOf
<1>5. ASSUME NEW w \in Worker, PersistEntry(w)
      PROVE  Good(w)'
  <2> DEFINE p == worker[w]
  <2>1. /\ p.pc = "persist" /\ p.pos < p.got
        /\ p = [pc |-> "persist", job |-> p.job, pos |-> p.pos, got |-> p.got]
    BY <1>5, ProcessType DEF PersistEntry
  <2>2. /\ worker'[w].job = p.job /\ worker'[w].pos = p.pos + 1
        /\ worker'[w].got = p.got
    BY <1>5, <2>1 DEF PersistEntry, Become
  <2>3. short' = short
    BY <1>5 DEF PersistEntry
  <2>4. /\ p.job.span[1] \in Nat /\ p.job.span[2] \in Nat
        /\ p.pos \in Nat /\ p.got \in Nat
        /\ \A i \in p.job.span[1] .. p.job.span[2] : i \in Index
    BY <1>1, <2>1
  <2>5. Good(w)
    BY <1>2, <2>1
  <2>6. p.pos \in Index
    BY <2>1, <2>4, <2>5
  <2>7. outcomes'[p.pos] # "none"
    <3>1. PICK outcome \in OutcomesOf(p.pos) :
             outcomes' = [outcomes EXCEPT ![p.pos] = outcome]
      BY <1>5 DEF PersistEntry
    <3>2. outcome # "none"
      BY DEF OutcomesOf
    <3>3. QED
      BY <2>6, <3>1, <3>2
  <2>8. ASSUME NEW i \in p.job.span[1] .. p.pos
        PROVE  HasOutcome(i)'
    <3>1. CASE i = p.pos
      BY <2>7, <3>1 DEF HasOutcome
    <3>2. CASE i # p.pos
      <4>1. i \in p.job.span[1] .. p.pos - 1 /\ i \in Index
        BY <2>1, <2>4, <2>5, <3>2
      <4>2. QED
        BY <2>5, <4>1, OutcomesStay
    <3>3. QED
      BY <3>1, <3>2
  <2>9. (p.pos + 1) - 1 = p.pos
    BY <2>4
  <2>10. p.job.span \notin short' => p.got > LastOf(p.job, SmallestBatch)
    BY <2>3, <2>5
  <2>11. p.pos + 1 >= p.job.span[1] /\ p.pos + 1 <= p.got /\ p.got <= p.job.span[2] + 1
    BY <2>1, <2>4, <2>5
  <2> HIDE DEF p
  <2>12. QED
    BY <2>2, <2>8, <2>9, <2>10, <2>11 DEF LastOf
<1>6. ASSUME NEW w \in Worker, WorkerStep(w) \/ Crash(w) \/ LimitPasses(w),
             worker'[w].pc = "persist", worker'[w] # worker[w]
      PROVE  PersistEntry(w) \/ \E size \in BatchSizes : Fetch(w, size)
  BY <1>6 DEF WorkerStep, Start, ProbeTree, Seed, Reap, Claim, Heartbeat,
              RateLimited, BatchFails, Complete, MarkFailed, MarkPending,
              Crash, LimitPasses, Become, At, Idle
<1>7. ASSUME NEW v \in Worker, worker'[v].pc = "persist"
      PROVE  Good(v)'
  <2>1. CASE worker'[v] = worker[v]
    <3>1. worker[v].pc = "persist"
      BY <1>7, <2>1
    <3>2. QED
      BY <1>3, <2>1, <3>1
  <2>2. CASE worker'[v] # worker[v]
    <3>1. PICK w \in Worker : WorkerStep(w) \/ Crash(w) \/ LimitPasses(w)
      BY <2>2 DEF Next, LegacyNext, ClaimExpires, Operators, Retention, QueryRows,
                  ReadKeys, InsertFindings, ResolveOrphans, Repair, Ignore,
                  DeleteRange, DeleteOutcome, vars
    <3>2. v = w
      BY <2>2, <3>1, OthersUntouched
    <3>3. QED
      BY <1>4, <1>5, <1>6, <1>7, <2>2, <3>1, <3>2
  <2>3. QED
    BY <2>1, <2>2
<1>8. QED
  BY <1>7 DEF Answered

LEMMA CompletedStep ==
    ASSUME TypeOK, Answered, CompletedHasBatch, [Next]_vars
    PROVE  CompletedHasBatch'
<1> SUFFICES ASSUME NEW c \in Span, ranges'[c].status = "complete",
                    c \notin short',
                    NEW i \in c[1] .. LastOf([span |-> c], SmallestBatch)
             PROVE  HasOutcome(i)'
  BY DEF CompletedHasBatch, LastOf
<1>1. c \notin short
  BY ShortGrows
<1>2. /\ c[1] \in Nat /\ c[2] \in Nat
      /\ \A j \in c[1] .. c[2] : j \in Index
      /\ SmallestBatch \in Nat
  BY SpanType, SmallestBatchIs, LegacyAssumption
<1>3. /\ i \in Index
      /\ LastOf([span |-> c], SmallestBatch) \in Int
  BY <1>2 DEF LastOf
<1>4. CASE ranges[c].status = "complete"
  <2>1. HasOutcome(i)
    BY <1>1, <1>4 DEF CompletedHasBatch
  <2>2. QED
    BY <1>3, <2>1, OutcomesStay
<1>5. CASE ranges[c].status # "complete"
  <2>1. PICK w \in Worker : Complete(w) /\ worker[w].job.span = c
    BY <1>5, BatchCompletes
  <2>2. worker[w].pc = "persist" /\ worker[w].pos = worker[w].got
    BY <2>1 DEF Complete, BatchDone
  <2>3. /\ \A j \in c[1] .. worker[w].pos - 1 : HasOutcome(j)
        /\ worker[w].got > LastOf(worker[w].job, SmallestBatch)
    BY <1>1, <2>1, <2>2 DEF Answered
  <2>4. LastOf(worker[w].job, SmallestBatch) = LastOf([span |-> c], SmallestBatch)
    BY <2>1 DEF LastOf
  <2>5. worker[w].pos \in Nat
    BY <2>2, ProcessType DEF TypeOK
  <2>6. i \in c[1] .. worker[w].pos - 1
    BY <1>2, <1>3, <2>2, <2>3, <2>4, <2>5
  <2>7. QED
    BY <1>3, <2>3, <2>6, OutcomesStay
<1>6. QED
  BY <1>4, <1>5

(* A complete range has outcomes for its first entries, a batch of them at *)
(* least, unless the log answered with less: neither a failure, nor a lost *)
(* claim, nor a repair completes a range that nobody has processed. *)
THEOREM CompletedIsProcessed == Spec => []CompletedHasBatch
<1>1. Init => Answered /\ CompletedHasBatch
  BY DEF Init, LegacyInit, Answered, CompletedHasBatch, At, NoRow
<1>2. TypeOK /\ Answered /\ CompletedHasBatch /\ [Next]_vars
         => Answered' /\ CompletedHasBatch'
  BY AnsweredStep, CompletedStep
<1>3. QED
  BY <1>1, <1>2, AuditTypeCorrect, PTL DEF Spec

---------------------------------------------------------------------------
(* Duplicate findings *)

(* A finding that has a key: the range it refers to, or its observation. *)
Keyed(f) == Live(f) /\ (f.type = "observation" \/ findings[f].range # NoRange)

(* A finding that refers to a range refers to the row that is there, and   *)
(* one about an observation refers to none. *)
KeysOfRows ==
    \A f \in Finding : Live(f) =>
        /\ f.type = "observation" => findings[f].range = NoRange
        /\ findings[f].range # NoRange =>
              /\ ranges[f.span].status # "absent"
              /\ ranges[f.span].id = findings[f].range

(* The rows there are, and those a check has in hand, have the id of the   *)
(* next row at most, and a smaller one if they are gone. *)
IdsOfPast ==
    \A c \in Span : ranges[c].status # "absent" => ranges[c].id <= deleted

RowOfPast(type, r) ==
    /\ type = "observation" <=> r[2] = NoRange
    /\ \/ r[2] < deleted
       \/ ranges[r[1]].status # "absent" /\ ranges[r[1]].id = r[2]

HandOfPast ==
    \A k \in Checker : check[k].pc # "idle" =>
        \A r \in check[k].rows : RowOfPast(check[k].type, r)

(* What a checker is about to report, it has not reported. *)
About(f, type, r) ==
    f.type = type /\ f.span = r[1] /\ findings[f].range = r[2]

HandIsNew ==
    \A k \in Checker : check[k].pc = "insert" =>
        \A r \in check[k].rows, f \in Finding :
            Keyed(f) /\ About(f, check[k].type, r) => findings[f].by # k

(* How a finding comes to have its key: it had it before, a check has      *)
(* inserted it, or a repair has made a row for it. *)
Opened(f, k, r) ==
    /\ InsertFindings(k) /\ r \in check[k].rows /\ Refers(r)
    /\ f = Identity(check[k].type, r) /\ f.type = check[k].type
    /\ f.span = r[1]
    /\ findings'[f].range = r[2] /\ findings'[f].by = k

Recreated(f) ==
    /\ RepairMissing(f) /\ f.type = "missing_outcomes"
    /\ UNCHANGED <<check, deleted>>
    /\ ranges[f.span].status = "absent"
    /\ findings'[f].range = deleted
    /\ ranges'[f.span].id = deleted /\ ranges'[f.span].status = "pending"

Kept(f) ==
    /\ Keyed(f) /\ findings'[f].range = findings[f].range
    /\ findings'[f].by = findings[f].by

LEMMA FindingSteps ==
    ASSUME TypeOK, KeysOfRows, [Next]_vars, NEW f \in Finding, Keyed(f)'
    PROVE  \/ Kept(f)
           \/ \E k \in Checker : \E r \in check[k].rows : Opened(f, k, r)
           \/ Recreated(f)
<1> USE DEF TypeOK, Keyed, Live
<1>1. CASE findings'[f] = findings[f]
  BY <1>1 DEF Kept
<1>2. ASSUME NEW k \in Checker, CheckStep(k), findings'[f] # findings[f]
      PROVE  \E r \in check[k].rows : Opened(f, k, r)
  <2>1. InsertFindings(k)
    BY <1>2, ChecksLeave
  <2>2. PICK r \in check[k].rows :
           /\ f = Identity(check[k].type, r) /\ Refers(r)
           /\ f.type = check[k].type /\ f.span = r[1]
           /\ findings'[f] = [range |-> r[2], status |-> "open", by |-> k]
    BY <1>2, <2>1, InsertEffect
  <2>3. findings'[f].range = r[2] /\ findings'[f].by = k
    BY <2>2
  <2>4. QED
    BY <2>1, <2>2, <2>3 DEF Opened
<1>3. ASSUME NEW g \in Finding, Repair(g), findings'[f] # findings[f]
      PROVE  Kept(f) \/ Recreated(f)
  <2>1. CASE findings' = Close(g)
    <3>1. findings' = [findings EXCEPT ![g] = NoFinding]
      BY <2>1 DEF Close
    <3>2. findings'[f] = NoFinding
      BY <1>3, <3>1
    <3>3. QED
      BY <3>2
  <2>2. CASE RepairMissing(g)
    <3>1. /\ f = g /\ findings[f] \in Entry /\ f.span \in Span
          /\ f.type = "missing_outcomes"
      BY <1>3, <2>2 DEF RepairMissing, Repair, Repairable, Finding
    <3>2. CASE ranges[f.span].status # "absent"
      <4>1. findings'[f] = [range  |-> findings[f].range,
                            status |-> "repair_attempted",
                            by |-> findings[f].by]
        BY <2>2, <3>1, <3>2 DEF RepairMissing
      <4>2. /\ findings'[f].range = findings[f].range
            /\ findings'[f].by = findings[f].by
        BY <4>1
      <4>3. Keyed(f)
        BY <1>3, <3>1, <4>2 DEF Repair, Repairable
      <4>4. QED
        BY <4>2, <4>3 DEF Kept
    <3>3. CASE ranges[f.span].status = "absent"
      <4>1. /\ findings'[f] = [range |-> deleted,
                               status |-> "repair_attempted",
                               by |-> findings[f].by]
            /\ ranges' = [ranges EXCEPT ![f.span] = NewRow(f)]
        BY <2>2, <3>1, <3>3 DEF RepairMissing
      <4>2. /\ findings'[f].range = deleted
            /\ ranges'[f.span].id = deleted
            /\ ranges'[f.span].status = "pending"
        BY <3>1, <4>1 DEF NewRow
      <4>3. UNCHANGED <<check, deleted>>
        BY <1>3 DEF Repair
      <4>4. QED
        BY <2>2, <3>1, <3>3, <4>2, <4>3 DEF Recreated
    <3>4. QED
      BY <3>2, <3>3
  <2>3. QED
    BY <1>3, <2>1, <2>2
       DEF Repair, RepairStale, RepairFailed, RepairObservation
<1>4. ASSUME NEW c \in Span, DeleteRange(c), findings'[f] # findings[f]
      PROVE  FALSE
  <2>1. /\ findings[f] \in Entry /\ findings[f].range = ranges[c].id
        /\ Live(f)
        /\ findings'[f] = [findings[f] EXCEPT !.range = NoRange]
    BY <1>4 DEF DeleteRange
  <2>2. findings'[f].range = NoRange /\ findings[f].range # NoRange
    BY <1>4, <2>1 DEF Entry
  <2>3. f.type = "observation"
    BY <2>2
  <2>4. QED
    BY <2>1, <2>2, <2>3 DEF KeysOfRows
<1>5. CASE LegacyNext
  <2>1. findings'[f] = findings[f] \/ findings'[f] = NoFinding
    BY <1>5
       DEF LegacyNext, WorkerStep, Start, ProbeTree, Seed, Reap, Claim,
           Heartbeat, Fetch, RateLimited, BatchFails, PersistEntry, Complete,
           Resolved, MarkFailed, MarkPending, Crash, LimitPasses, ClaimExpires
  <2>2. QED
    BY <1>1, <2>1
<1>6. CASE ResolveOrphans \/ \E g \in Finding : Ignore(g)
  <2>1. findings'[f] = findings[f] \/ findings'[f] = NoFinding
    BY <1>6 DEF ResolveOrphans, Ignore, Close
  <2>2. QED
    BY <1>1, <2>1
<1>7. CASE (\E i \in Index : DeleteOutcome(i)) \/ UNCHANGED vars
  BY <1>1, <1>7 DEF DeleteOutcome, vars
<1>8. QED
  BY <1>1, <1>2, <1>3, <1>4, <1>5, <1>6, <1>7
     DEF Next, Operators, Retention, CheckStep

(* A finding without a key stays without. *)
LEMMA KeysStep ==
    ASSUME TypeOK, KeysOfRows, HandOfPast, [Next]_vars
    PROVE  KeysOfRows'
<1> SUFFICES ASSUME NEW f \in Finding, Live(f)'
             PROVE  /\ f.type = "observation" => findings'[f].range = NoRange
                    /\ findings'[f].range # NoRange =>
                          /\ ranges'[f.span].status # "absent"
                          /\ ranges'[f.span].id = findings'[f].range
  BY DEF KeysOfRows
<1>0. f.span \in Span
  BY DEF Finding
<1>1. CASE Kept(f)
  <2>1. Live(f) /\ findings'[f].range = findings[f].range
    BY <1>1 DEF Kept, Keyed
  <2>2. f.type = "observation" => findings'[f].range = NoRange
    BY <2>1 DEF KeysOfRows
  <2>3. ASSUME findings'[f].range # NoRange
        PROVE  /\ ranges'[f.span].status # "absent"
               /\ ranges'[f.span].id = findings'[f].range
    <3>1. /\ ranges[f.span].status # "absent"
          /\ ranges[f.span].id = findings[f].range
      BY <2>1, <2>3 DEF KeysOfRows
    <3>2. ~ DeleteRange(f.span)
      <4> SUFFICES ASSUME DeleteRange(f.span)
                   PROVE  FALSE
        OBVIOUS
      <4>1. /\ findings[f] \in Entry
            /\ findings'[f] = [findings[f] EXCEPT !.range = NoRange]
        BY <2>1, <3>1 DEF DeleteRange, Live, TypeOK
      <4>2. QED
        BY <2>3, <4>1 DEF Entry
    <3>3. QED
      BY <1>0, <2>1, <3>1, <3>2, RowSteps
  <2>4. QED
    BY <2>2, <2>3
<1>2. ASSUME NEW k \in Checker, NEW r \in check[k].rows, Opened(f, k, r)
      PROVE  /\ f.type = "observation" => findings'[f].range = NoRange
             /\ findings'[f].range # NoRange =>
                   /\ ranges'[f.span].status # "absent"
                   /\ ranges'[f.span].id = findings'[f].range
  <2>1. check[k].pc # "idle" /\ UNCHANGED ranges
    BY <1>2 DEF Opened, InsertFindings
  <2>2. RowOfPast(check[k].type, r)
    BY <2>1 DEF HandOfPast
  <2>3. QED
    BY <1>2, <2>1, <2>2 DEF Opened, Refers, RowOfPast
<1>3. CASE Recreated(f)
  BY <1>3 DEF Recreated
<1>4. CASE ~ Keyed(f)'
  BY <1>4 DEF Keyed
<1>5. QED
  BY <1>1, <1>2, <1>3, <1>4, FindingSteps

LEMMA DeletedSteps ==
    ASSUME TypeOK, [Next]_vars
    PROVE  /\ deleted \in Nat /\ deleted' \in Nat /\ deleted <= deleted'
           /\ \A c \in Span : DeleteRange(c) => deleted' = deleted + 1
<1>1. deleted \in Nat
  BY AuditAssumption DEF TypeOK
<1>2. \A c \in Span : DeleteRange(c) => deleted' = deleted + 1
  BY DEF DeleteRange
<1>3. UNCHANGED deleted \/ \E c \in Span : DeleteRange(c)
  <2>1. CASE LegacyNext
    BY <2>1
       DEF LegacyNext, WorkerStep, Start, ProbeTree, Seed, Reap, Claim,
           Heartbeat, Fetch, RateLimited, BatchFails, PersistEntry, Complete,
           MarkFailed, MarkPending, Crash, LimitPasses, ClaimExpires
  <2>2. CASE Operators
    BY <2>2, ChecksLeave
       DEF Operators, CheckStep, ResolveOrphans, Ignore, Repair
  <2>3. CASE Retention
    BY <2>3 DEF Retention, DeleteOutcome
  <2>4. QED
    BY <2>1, <2>2, <2>3 DEF Next, vars
<1>4. QED
  BY <1>1, <1>2, <1>3

(* A check has in hand what it had, unless it makes a step. *)
LEMMA HandSteps ==
    ASSUME TypeOK, [Next]_vars, NEW k \in Checker
    PROVE  CheckStep(k) \/ check'[k] = check[k]
<1>1. ASSUME NEW j \in Checker, CheckStep(j), j # k
      PROVE  check'[k] = check[k]
  BY <1>1, CheckSteps DEF TypeOK
<1>2. CASE UNCHANGED check
  BY <1>2
<1>3. CASE LegacyNext /\ UNCHANGED <<check, taken>>
  BY <1>3
<1>4. QED
  BY <1>1, <1>2, <1>3
     DEF Next, Operators, Retention, ResolveOrphans, Repair, Ignore,
         DeleteRange, DeleteOutcome, CheckStep, vars

LEMMA IdsStep ==
    ASSUME TypeOK, IdsOfPast, [Next]_vars
    PROVE  IdsOfPast'
<1> SUFFICES ASSUME NEW c \in Span, ranges'[c].status # "absent"
             PROVE  ranges'[c].id <= deleted'
  BY DEF IdsOfPast
<1>1. ranges[c].id \in Nat
  BY DEF TypeOK, Row
<1>2. ranges[c].status # "absent" => ranges[c].id <= deleted
  BY DEF IdsOfPast
<1>3. QED
  BY <1>1, <1>2, RowSteps, DeletedSteps

LEMMA RowOfPastStays ==
    ASSUME TypeOK, IdsOfPast, [Next]_vars, NEW type, NEW r \in Checked,
           RowOfPast(type, r)
    PROVE  RowOfPast(type, r)'
<1>1. r[1] \in Span /\ r[2] \in Int
  BY DEF Checked, NoRange
<1>2. deleted \in Nat /\ deleted' \in Nat /\ deleted <= deleted'
  BY DeletedSteps
<1>3. CASE r[2] < deleted
  BY <1>1, <1>2, <1>3 DEF RowOfPast
<1>4. CASE ranges[r[1]].status # "absent" /\ ranges[r[1]].id = r[2]
  <2>1. r[2] <= deleted
    BY <1>1, <1>4 DEF IdsOfPast
  <2>2. DeleteRange(r[1]) => r[2] < deleted'
    BY <1>1, <1>2, <2>1, DeletedSteps
  <2>3. ~ DeleteRange(r[1]) =>
           ranges'[r[1]].status # "absent" /\ ranges'[r[1]].id = r[2]
    BY <1>1, <1>4, RowSteps
  <2>4. QED
    BY <2>2, <2>3 DEF RowOfPast
<1>5. QED
  BY <1>3, <1>4 DEF RowOfPast

LEMMA HandStep ==
    ASSUME TypeOK, IdsOfPast, HandOfPast, [Next]_vars
    PROVE  HandOfPast'
<1> SUFFICES ASSUME NEW k \in Checker, check'[k].pc # "idle",
                    NEW r \in check'[k].rows,
                    NEW type, type = check'[k].type
             PROVE  RowOfPast(type, r)'
  BY DEF HandOfPast
<1>1. ASSUME check[k].pc # "idle", r \in check[k].rows,
             type = check[k].type
      PROVE  RowOfPast(type, r)'
  <2>1. r \in Checked /\ RowOfPast(type, r)
    BY <1>1, InHand DEF HandOfPast
  <2>2. QED
    BY <2>1, RowOfPastStays
<1>2. CASE CheckStep(k)
  <2>1. PICK c \in Check :
           /\ check' = [check EXCEPT ![k] = c]
           /\ c.pc = "keys" => c.rows \subseteq Rows(c.type)
           /\ c.pc = "insert" => /\ ReadKeys(k)
                                 /\ c.type = check[k].type
                                 /\ c.rows = Fresh(k)
    BY <1>2, CheckSteps
  <2>2. check'[k] = c /\ c.pc \in {"keys", "insert"}
    BY <2>1 DEF TypeOK, Check, NoCheck
  <2>3. CASE c.pc = "keys"
    <3>1. c.type \in Type /\ r \in Rows(c.type)
      BY <2>1, <2>2, <2>3 DEF Check, NoCheck
    <3>2. /\ c.type = "observation" <=> r[2] = NoRange
          /\ \/ r[2] = NoRange
             \/ r[2] = ranges[r[1]].id /\ ranges[r[1]].status # "absent"
      BY <3>1, RowsType
    <3>3. UNCHANGED ranges /\ NoRange < deleted'
      BY <1>2, ChecksLeave, DeletedSteps DEF NoRange
    <3>4. QED
      BY <2>2, <3>2, <3>3 DEF RowOfPast, NoRange
  <2>4. CASE c.pc = "insert"
    <3>1. check[k].pc # "idle" /\ r \in check[k].rows
      BY <2>1, <2>2, <2>4 DEF ReadKeys, Fresh
    <3>2. QED
      BY <1>1, <2>1, <2>2, <2>4, <3>1
  <2>5. QED
    BY <2>2, <2>3, <2>4
<1>3. CASE check'[k] = check[k]
  BY <1>1, <1>3
<1>4. QED
  BY <1>2, <1>3, HandSteps

(* A row made by a repair has an id that no check has in hand. *)
LEMMA RecreatedIsNew ==
    ASSUME TypeOK, HandOfPast, NEW f \in Finding, Recreated(f),
           NEW k \in Checker, check[k].pc # "idle", NEW r \in check[k].rows,
           f.span = r[1]
    PROVE  findings'[f].range # r[2]
<1>1. RowOfPast(check[k].type, r) /\ deleted \in Nat
  BY AuditAssumption DEF HandOfPast, TypeOK
<1>2. r[2] < deleted
  BY <1>1 DEF RowOfPast, Recreated
<1>3. findings'[f].range = deleted
  BY DEF Recreated
<1>4. QED
  BY <1>1, <1>2, <1>3

LEMMA HandIsNewStep ==
    ASSUME TypeOK, KeysOfRows, HandOfPast, HandIsNew, [Next]_vars
    PROVE  HandIsNew'
<1> SUFFICES ASSUME NEW k \in Checker, check'[k].pc = "insert",
                    NEW r \in check'[k].rows, NEW f \in Finding, Keyed(f)',
                    f.type = check'[k].type, f.span = r[1],
                    findings'[f].range = r[2]
             PROVE  findings'[f].by # k
  BY DEF HandIsNew, About
<1>1. CASE check'[k] = check[k]
  <2>1. CASE Kept(f)
    <3>1. Keyed(f) /\ About(f, check[k].type, r)
      BY <1>1, <2>1 DEF Kept, About
    <3>2. findings[f].by # k
      BY <1>1, <3>1 DEF HandIsNew
    <3>3. QED
      BY <2>1, <3>2 DEF Kept
  <2>2. ASSUME NEW j \in Checker, NEW q \in check[j].rows, Opened(f, j, q)
        PROVE  findings'[f].by # k
    <3>1. check'[j].pc = "idle" /\ findings'[f].by = j
      BY <2>2 DEF Opened, InsertFindings, NoCheck, TypeOK
    <3>2. QED
      BY <3>1
  <2>3. ~ Recreated(f)
    BY <1>1, RecreatedIsNew
  <2>4. QED
    BY <2>1, <2>2, <2>3, FindingSteps
<1>2. CASE CheckStep(k)
  <2>1. PICK c \in Check :
           /\ check' = [check EXCEPT ![k] = c]
           /\ c.pc = "insert" => /\ ReadKeys(k)
                                 /\ c.type = check[k].type
                                 /\ c.rows = Fresh(k)
    BY <1>2, CheckSteps
  <2>2. check'[k] = c
    BY <2>1 DEF TypeOK
  <2>3. /\ ReadKeys(k) /\ r \in Fresh(k) /\ f.type = check[k].type
    BY <2>1, <2>2
  <2>4. UNCHANGED findings
    BY <2>3 DEF ReadKeys
  <2>5. ~ Known(check[k].type, r)
    BY <2>3 DEF Fresh
  <2>6. Live(f) /\ findings[f].range = r[2]
    BY <2>4 DEF Keyed, Live
  <2>7. FALSE
    BY <2>3, <2>5, <2>6 DEF Known
  <2>8. QED
    BY <2>7
<1>3. QED
  BY <1>1, <1>2, HandSteps

LEMMA DuplicatesStep ==
    ASSUME TypeOK, KeysOfRows, HandOfPast, HandIsNew, DuplicatesFromOverlap,
           [Next]_vars
    PROVE  DuplicatesFromOverlap'
<1> SUFFICES ASSUME NEW f \in Finding, NEW g \in Finding, f # g,
                    f.type = g.type, f.span = g.span, Keyed(f)', Keyed(g)',
                    findings'[f].range = findings'[g].range
             PROVE  findings'[f].by # findings'[g].by
  BY DEF DuplicatesFromOverlap, SameKey, Keyed
<1>1. CASE Kept(f) /\ Kept(g)
  <2>1. SameKey(f, g)
    BY <1>1 DEF Kept, Keyed, SameKey
  <2>2. findings[f].by # findings[g].by
    BY <2>1 DEF DuplicatesFromOverlap
  <2>3. QED
    BY <1>1, <2>2 DEF Kept
<1>2. ASSUME NEW a \in Finding, NEW b \in Finding, a.type = b.type,
             a.span = b.span, findings'[a].range = findings'[b].range,
             Kept(a), NEW k \in Checker, NEW r \in check[k].rows, Opened(b, k, r)
      PROVE  findings'[a].by # findings'[b].by
  <2>1. check[k].pc = "insert"
    BY <1>2 DEF Opened, InsertFindings
  <2>2. Keyed(a) /\ About(a, check[k].type, r)
    BY <1>2 DEF Kept, Opened, About
  <2>3. findings[a].by # k
    BY <2>1, <2>2 DEF HandIsNew
  <2>4. QED
    BY <1>2, <2>3 DEF Kept, Opened
<1>3. ASSUME NEW k \in Checker, NEW r \in check[k].rows, Opened(f, k, r),
             NEW j \in Checker, NEW q \in check[j].rows, Opened(g, j, q)
      PROVE  findings'[f].by # findings'[g].by
  <2> SUFFICES ASSUME j = k
               PROVE  FALSE
    BY <1>3 DEF Opened
  <2>1. check[k].pc # "idle"
    BY <1>3 DEF Opened, InsertFindings
  <2>2. r \in Checked /\ q \in Checked
    BY <2>1, InHand
  <2>3. r[1] = q[1] /\ r[2] = q[2]
    BY <1>3 DEF Opened
  <2>4. r = q
    BY <2>2, <2>3 DEF Checked
  <2>5. QED
    BY <1>3, <2>4 DEF Opened
<1>4. ASSUME NEW a \in Finding, NEW b \in Finding, a # b, a.span = b.span,
             Keyed(b)', findings'[a].range = findings'[b].range, Recreated(a)
      PROVE  FALSE
  <2>1. /\ findings' = [findings EXCEPT ![a] =
               [range |-> IF ranges[a.span].status # "absent"
                          THEN findings[a].range ELSE deleted,
                status |-> "repair_attempted", by |-> findings[a].by]]
        /\ ranges[a.span].status = "absent" /\ findings'[a].range = deleted
    BY <1>4 DEF Recreated, RepairMissing
  <2>2. findings'[b] = findings[b]
    BY <1>4, <2>1 DEF TypeOK
  <2>3. Live(b) /\ findings[b].range = deleted
    BY <1>4, <2>1, <2>2 DEF Keyed, Live
  <2>4. deleted # NoRange
    BY AuditAssumption DEF TypeOK, NoRange
  <2>5. QED
    BY <1>4, <2>1, <2>3, <2>4 DEF KeysOfRows
<1>5. QED
  <2>1. ~ Recreated(f) /\ ~ Recreated(g)
    BY <1>4
  <2>2. /\ Kept(f) \/ \E k \in Checker : \E r \in check[k].rows : Opened(f, k, r)
        /\ Kept(g) \/ \E k \in Checker : \E r \in check[k].rows : Opened(g, k, r)
    BY <2>1, FindingSteps
  <2>3. ASSUME NEW k \in Checker, NEW r \in check[k].rows, Opened(f, k, r), Kept(g)
        PROVE  findings'[f].by # findings'[g].by
    BY <1>2, <2>3
  <2>4. QED
    BY <1>1, <1>2, <1>3, <2>2, <2>3

(* However checks, repairs and retention take turns, two findings about    *)
(* the same type, span and range come from different checkers, whose       *)
(* checks ran side by side: a checker never reports twice.                 *)
THEOREM DuplicatesNeedOverlap == Spec => []DuplicatesFromOverlap
<1> DEFINE IInv == /\ KeysOfRows /\ IdsOfPast /\ HandOfPast /\ HandIsNew
                   /\ DuplicatesFromOverlap
<1>1. Init => IInv
  BY DEF Init, LegacyInit, KeysOfRows, IdsOfPast, HandOfPast, HandIsNew,
         DuplicatesFromOverlap, SameKey, Live, NoRow, NoCheck
<1>2. TypeOK /\ IInv /\ [Next]_vars => IInv'
  BY KeysStep, IdsStep, HandStep, HandIsNewStep, DuplicatesStep
<1>3. QED
  BY <1>1, <1>2, AuditTypeCorrect, PTL DEF Spec

---------------------------------------------------------------------------
(* The chunks *)

(* Division, multiples and remainders, with a divisor that is not zero. *)
LEMMA DivMod ==
    ASSUME NEW a \in Int, NEW n \in Nat \ {0}
    PROVE  /\ a % n \in 0 .. n - 1 /\ a \div n \in Int
           /\ a = n * (a \div n) + (a % n)
OBVIOUS

LEMMA AtLeastOne ==
    ASSUME NEW k \in Int, NEW n \in Nat \ {0}
    PROVE  /\ k >= 1 => n * k >= n
           /\ k <= -1 => n * k <= -n
<1>1. k >= 1 => n * (k - 1) >= 0
  OBVIOUS
<1>2. k <= -1 => n * (-1 - k) >= 0
  OBVIOUS
<1>3. n * (k - 1) = n * k - n /\ n * (-1 - k) = -n - n * k
  OBVIOUS
<1> DEFINE nk == n * k
<1>4. nk \in Int
  OBVIOUS
<1>5. QED
  BY <1>1, <1>2, <1>3, <1>4

LEMMA MultipleMod ==
    ASSUME NEW k \in Int, NEW n \in Nat \ {0}
    PROVE  (n * k) % n = 0
<1> DEFINE q == (n * k) \div n
           r == (n * k) % n
<1>1. n * k \in Int
  OBVIOUS
<1>2. /\ r \in 0 .. n - 1 /\ q \in Int /\ n * k = n * q + r
  BY <1>1, DivMod
<1> HIDE DEF q, r
<1>3. n * k - n * q = n * (k - q)
  BY <1>2, SMT
<1>4. n * (k - q) = r
  BY <1>1, <1>2, <1>3
<1>5. k - q = 0
  BY <1>2, <1>4, AtLeastOne
<1>6. QED
  BY <1>2, <1>4, <1>5

(* What remains of two multiples apart, and the multiple below a number. *)
LEMMA MultiplesApart ==
    ASSUME NEW a \in Int, NEW b \in Int, NEW n \in Nat \ {0},
           a % n = 0, b % n = 0, a < b
    PROVE  a + n <= b
<1> DEFINE p == a \div n
           q == b \div n
<1>1. p \in Int /\ q \in Int /\ a = n * p /\ b = n * q
  BY DivMod
<1> HIDE DEF p, q
<1>2. n * (q - p) = b - a
  BY <1>1, SMT
<1>3. n * (q - p) > 0 /\ q - p \in Int
  BY <1>1, <1>2
<1>4. ~ (q - p <= -1) /\ q - p # 0
  BY <1>1, <1>3, AtLeastOne
<1>5. QED
  BY <1>1, <1>2, <1>3, <1>4, AtLeastOne

LEMMA MultipleBelow ==
    ASSUME NEW a \in Int, NEW n \in Nat \ {0}
    PROVE  /\ a % n \in 0 .. n - 1
           /\ (a - (a % n)) % n = 0
<1>1. a % n \in 0 .. n - 1 /\ a \div n \in Int /\ a - (a % n) = n * (a \div n)
  BY DivMod
<1>2. QED
  BY <1>1, MultipleMod

LEMMA ChunkIs ==
    ASSUME NEW first \in Nat, NEW last \in Nat, NEW size \in Nat \ {0},
           NEW c \in Chunks(first, last, size)
    PROVE  /\ c[1] \in first .. last /\ c[2] \in first .. last
           /\ c = <<c[1], c[2]>> /\ (c[1] - first) % size = 0
           /\ c[2] = IF c[1] + size - 1 < last THEN c[1] + size - 1 ELSE last
           /\ c[1] <= c[2] /\ c[2] - c[1] < size
<1>1. /\ c \in (first .. last) \X (first .. last)
      /\ (c[1] - first) % size = 0
      /\ c[2] = IF c[1] + size - 1 < last THEN c[1] + size - 1 ELSE last
  BY DEF Chunks
<1>2. c[1] \in first .. last /\ c[2] \in first .. last /\ c = <<c[1], c[2]>>
  BY <1>1
<1>3. QED
  BY <1>1, <1>2

(* Two chunks that start apart do not meet. *)
LEMMA ChunksApart ==
    ASSUME NEW first \in Nat, NEW last \in Nat, NEW size \in Nat \ {0},
           NEW c \in Chunks(first, last, size),
           NEW d \in Chunks(first, last, size), c[1] < d[1]
    PROVE  c[2] < d[1]
<1>1. /\ c[1] \in Nat /\ d[1] \in first .. last
      /\ (c[1] - first) % size = 0 /\ (d[1] - first) % size = 0
      /\ c[2] = IF c[1] + size - 1 < last THEN c[1] + size - 1 ELSE last
  BY ChunkIs
<1>2. (c[1] - first) + size <= d[1] - first
  BY <1>1, MultiplesApart
<1>3. QED
  BY <1>1, <1>2

(* The chunk an index lies in. *)
LEMMA ChunkOfIndex ==
    ASSUME NEW first \in Nat, NEW last \in Nat, NEW size \in Nat \ {0},
           NEW i \in first .. last
    PROVE  \E c \in Chunks(first, last, size) : i \in c[1] .. c[2]
<1> DEFINE r == (i - first) % size
           s == i - r
           e == IF s + size - 1 < last THEN s + size - 1 ELSE last
<1>0. i - first \in Nat
  OBVIOUS
<1>1. r \in 0 .. size - 1 /\ ((i - first) - r) % size = 0
  <2>1. i - first \in Int
    BY <1>0
  <2> QED
    BY <2>1, MultipleBelow, Zenon
<1>2. r <= i - first
  <2>1. (i - first) \div size \in Int
        /\ i - first = size * ((i - first) \div size) + r
    BY DivMod
  <2>2. (i - first) \div size >= 0
    BY <1>0, <1>1, <2>1, AtLeastOne
  <2>3. size * ((i - first) \div size) >= 0
    BY <2>1, <2>2, AtLeastOne
  <2>4. QED
    BY <1>1, <2>1, <2>3
<1> HIDE DEF r
<1>3. s \in first .. last /\ (s - first) % size = 0
  <2>1. s - first = (i - first) - r
    BY <1>1
  <2>2. QED
    BY <1>1, <1>2, <2>1
<1>4. e \in first .. last /\ i \in s .. e
  BY <1>1, <1>3
<1> DEFINE c == <<s, e>>
<1>5. c \in Chunks(first, last, size)
  BY <1>3, <1>4 DEF Chunks
<1>6. c[1] = s /\ c[2] = e
  OBVIOUS
<1>7. QED
  BY <1>4, <1>5, <1>6

(* Whatever the interval and the length of a chunk, the chunks are a       *)
(* partition of the interval.                                              *)
LEMMA ChunksPartitionInterval ==
    ASSUME NEW first \in Nat, NEW last \in Nat, NEW size \in Nat \ {0}
    PROVE  /\ \A c \in Chunks(first, last, size) :
                 c[1] <= c[2] /\ c[2] - c[1] < size
           /\ UNION {c[1] .. c[2] : c \in Chunks(first, last, size)}
                 = first .. last
           /\ \A c, d \in Chunks(first, last, size) :
                 c # d => c[2] < d[1] \/ d[2] < c[1]
<1> DEFINE made == Chunks(first, last, size)
<1>1. \A c \in made : c[1] <= c[2] /\ c[2] - c[1] < size
  BY ChunkIs
<1>2. \A i \in UNION {c[1] .. c[2] : c \in made} : i \in first .. last
  <2> SUFFICES ASSUME NEW c \in made, NEW i \in c[1] .. c[2]
               PROVE  i \in first .. last
    OBVIOUS
  <2>1. QED
    BY ChunkIs
<1>3. \A i \in first .. last : i \in UNION {c[1] .. c[2] : c \in made}
  BY ChunkOfIndex
<1>4. ASSUME NEW c \in made, NEW d \in made, c # d
      PROVE  c[2] < d[1] \/ d[2] < c[1]
  <2>1. c[1] \in Nat /\ d[1] \in Nat
    BY ChunkIs
  <2>2. c[1] # d[1]
    BY <1>4, ChunkIs
  <2>3. c[1] < d[1] \/ d[1] < c[1]
    BY <2>1, <2>2
  <2>4. QED
    BY <2>3, ChunksApart
<1>5. QED
  BY <1>1, <1>2, <1>3, <1>4

(* However long a log has become and whatever the length of a chunk, the   *)
(* chunks a worker seeds partition the interval they are made for.         *)
THEOREM SeededChunksPartition == Spec => []ChunksPartition
<1>1. TypeOK => ChunksPartition
  <2> SUFFICES ASSUME TypeOK, NEW w \in Worker, worker[w].pc = "seeding",
                      NEW length \in {1, 3}, NEW first \in {0, 2},
                      NEW last \in first .. first + worker[w].size + 2
               PROVE  LET made == Chunks(first, last, length)
                      IN  /\ \A c \in made : c[1] <= c[2] /\ c[2] - c[1] < length
                          /\ UNION {c[1] .. c[2] : c \in made} = first .. last
                          /\ \A c, d \in made :
                                c # d => c[2] < d[1] \/ d[2] < c[1]
    BY DEF ChunksPartition
  <2>1. worker[w].size \in Nat
    BY ProcessType, LegacyAssumption DEF TypeOK
  <2>2. first \in Nat /\ last \in Nat /\ length \in Nat \ {0}
    BY <2>1
  <2>3. QED
    BY <2>2, ChunksPartitionInterval
<1>2. QED
  BY <1>1, AuditTypeCorrect, PTL
=============================================================================
