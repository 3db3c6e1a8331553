-------------------------- MODULE OperationsProofs --------------------------
(***************************************************************************)
(* Theorems of the components that keep the system running: the pruning    *)
(* runs of the profiles, the registry of the workers, the contention       *)
(* control and the storage settings.  They share no variable; each has its *)
(* own section.                                                            *)
(***************************************************************************)
EXTENDS ProfilePrune, WorkerRegistry, ContentionControl, StorageSettings,
        SequenceTheorems, TLAPS

---------------------------------------------------------------------------
(* ProfilePrune: two prunes do not work at the same time, and a retention  *)
(* that is reported as enforced was gone through.                          *)

HasRun(p) == pruner[p].pc \in {"work", "prune", "finalize"}

(* Who works holds the lock, as long as no lock was lost. *)
HoldsLock == ~ unguarded => \A p \in Pruner : AtWork(p) => lock = p

(* A run that somebody is still at is a row of its own. *)
RunsApart ==
    /\ \A p \in Pruner : HasRun(p) => pruner[p].run \in DOMAIN runs
    /\ \A p, q \in Pruner :
          HasRun(p) /\ HasRun(q) /\ pruner[p].run = pruner[q].run => p = q

(* What is known of the run r of somebody in the state s: it is running,   *)
(* it has missed nothing but certificates, whose failure is recorded, and  *)
(* no certificates before they were reached; and at its end, it will       *)
(* report anything else as failed. *)
OpenRun(s, r) ==
    /\ r.status = "running"
    /\ s.pc \in {"work", "prune"} =>
          /\ Accounted(r)
          /\ Certificates \in s.left => r.missed = {}
    /\ s.pc = "prune" => Certificates \in s.left
    /\ s.pc = "finalize" => s.failed \/ Accounted(r)

RunsOpen ==
    \A p \in Pruner : HasRun(p) => OpenRun(pruner[p], runs[pruner[p].run])

(* Every complete run is accounted for. *)
CompleteIsWhole ==
    \A i \in DOMAIN runs : runs[i].status = "complete" => Accounted(runs[i])

RunsInv == RunsApart /\ RunsOpen /\ CompleteIsWhole

---------------------------------------------------------------------------
(* The initial state of a pruner, and the state without a run, are states. *)
LEMMA PlainState ==
    /\ PrunerAt("idle") \in PrunerState
    /\ PrunerAt("release") \in PrunerState
  BY DEF PrunerAt, PrunerState

(* A sequence of runs with one of them exchanged for another is one as long. *)
LEMMA RunExchanged ==
    ASSUME NEW S, NEW old \in Seq(S), NEW i, NEW r, i \in DOMAIN old => r \in S
    PROVE  /\ [old EXCEPT ![i] = r] \in Seq(S)
           /\ Len([old EXCEPT ![i] = r]) = Len(old)
           /\ DOMAIN [old EXCEPT ![i] = r] = DOMAIN old
<1>. DEFINE new == [old EXCEPT ![i] = r]
<1>1. DOMAIN new = 1 .. Len(old) /\ Len(old) \in Nat
  OBVIOUS
<1>2. \A j \in 1 .. Len(old) : new[j] \in S
  OBVIOUS
<1>3. new \in [1 .. Len(old) -> S]
  BY <1>1, <1>2
<1>4. new \in Seq(S)
  BY <1>1, <1>3, IsASeq
<1>. QED
  BY <1>1, <1>4, LenProperties

(* The variables have the values of their types in every reachable state,  *)
(* for any number of invocations and categories. *)
THEOREM ProfileTypeCorrect == ProfileSpec => []ProfileTypeOK
<1>1. ProfileInit => ProfileTypeOK
  <2>. SUFFICES ASSUME ProfileInit PROVE ProfileTypeOK
    OBVIOUS
  <2>1. runs \in Seq(Run) /\ Len(runs) = 0
    BY EmptySeq DEF ProfileInit
  <2>2. pruner \in [Pruner -> PrunerState]
    BY PlainState DEF ProfileInit
  <2>3. /\ lock \in Pruner \cup {NoPruner}
        /\ fresh \in BOOLEAN /\ unguarded \in BOOLEAN
    BY DEF ProfileInit
  <2>4. Len(runs) <= MaxRuns
    BY <2>1, ProfileAssumption
  <2>. QED
    BY <2>1, <2>2, <2>3, <2>4 DEF ProfileTypeOK
<1>2. ASSUME ProfileTypeOK, [ProfileNext]_profileVars
      PROVE  ProfileTypeOK'
  <2>. USE <1>2, ProfileAssumption DEF ProfileTypeOK
  <2>0. \A i \in DOMAIN runs : runs[i] \in Run
    BY LenProperties
  <2>1. ASSUME NEW p \in Pruner, NEW mode \in Mode, ReadPlan(p, mode)
        PROVE  ProfileTypeOK'
    BY <2>1 DEF ReadPlan, MoveTo, PrunerState
  <2>2. ASSUME NEW p \in Pruner, TryLock(p)
        PROVE  ProfileTypeOK'
    <3>1. [pruner[p] EXCEPT !.pc = "insert"] \in PrunerState
      BY <2>2 DEF TryLock, PrunerState
    <3>. QED
      BY <2>2, <3>1, PlainState DEF TryLock, MoveTo
  <2>3. ASSUME NEW p \in Pruner, InsertRun(p)
        PROVE  ProfileTypeOK'
    <3>1. pruner[p].mode \in Mode /\ pruner[p].left \in SUBSET Category
      BY <2>3 DEF InsertRun, PrunerState
    <3>2. CASE pruner' = [pruner EXCEPT ![p] = PrunerAt("release")]
               /\ UNCHANGED <<runs, fresh>>
      BY <2>3, <3>2, PlainState DEF InsertRun
    <3>3. CASE ~ UNCHANGED <<runs, fresh>> \/ ~ (pruner' = [pruner EXCEPT ![p] = PrunerAt("release")])
      <4>1. /\ Len(runs) < MaxRuns
            /\ runs' = Append(runs, [mode |-> pruner[p].mode, status |-> "running",
                                     certs |-> "none", missed |-> {}])
            /\ fresh' = TRUE
            /\ pruner' = [pruner EXCEPT ![p] =
                   [pc |-> "work", run |-> Len(runs) + 1, left |-> pruner[p].left]]
            /\ UNCHANGED <<lock, unguarded>>
        BY <2>3, <3>3 DEF InsertRun, MoveTo
      <4>2. [pc |-> "work", run |-> Len(runs) + 1, left |-> pruner[p].left] \in PrunerState
        BY <3>1, <4>1 DEF PrunerState
      <4>. DEFINE r == [mode |-> pruner[p].mode, status |-> "running",
                        certs |-> "none", missed |-> {}]
      <4>4. r \in Run
        BY <3>1 DEF Run, RunStatus
      <4>5. runs' = Append(runs, r)
        BY <4>1
      <4>. HIDE DEF r
      <4>3. runs' \in Seq(Run) /\ Len(runs') <= MaxRuns
        BY <4>1, <4>4, <4>5
      <4>. QED
        BY <4>1, <4>2, <4>3
    <3>. QED
      BY <3>2, <3>3
  <2>4. ASSUME NEW p \in Pruner, ProcessCategory(p)
        PROVE  ProfileTypeOK'
    <3>. DEFINE left == pruner[p].left \ {FirstOf(pruner[p].left)}
    <3>1. pruner' = [pruner EXCEPT ![p] = [pruner[p] EXCEPT !.left = left]]
      BY <2>4 DEF ProcessCategory, MoveTo
    <3>2. left \in SUBSET Category /\ pruner[p].pc = "work"
      BY <2>4 DEF ProcessCategory, PrunerState
    <3>. HIDE DEF left
    <3>3. [pruner[p] EXCEPT !.left = left] \in PrunerState
      BY <3>2 DEF PrunerState
    <3>. QED
      BY <2>4, <3>1, <3>3 DEF ProcessCategory
  <2>5. ASSUME NEW p \in Pruner, CategoriesEnd(p)
        PROVE  ProfileTypeOK'
    <3>1. PICK failed \in BOOLEAN :
              MoveTo(p, [pc |-> "finalize", run |-> pruner[p].run, failed |-> failed])
      BY <2>5 DEF CategoriesEnd
    <3>2. [pc |-> "finalize", run |-> pruner[p].run, failed |-> failed] \in PrunerState
      BY <2>5 DEF CategoriesEnd, PrunerState
    <3>3. runs' \in Seq(Run) /\ Len(runs') = Len(runs)
      <4>. DEFINE old == runs[pruner[p].run]
                  r == [old EXCEPT !.missed = old.missed \cup pruner[p].left]
      <4>1. runs' = [runs EXCEPT ![pruner[p].run] = r]
        BY <2>5 DEF CategoriesEnd
      <4>2. pruner[p].run \in DOMAIN runs => r \in Run
        <5>1. pruner[p].left \in SUBSET Category
          BY <2>5 DEF CategoriesEnd, PrunerState
        <5>. QED
          BY <2>0, <5>1 DEF Run
      <4>. HIDE DEF r
      <4>3. /\ [runs EXCEPT ![pruner[p].run] = r] \in Seq(Run)
            /\ Len([runs EXCEPT ![pruner[p].run] = r]) = Len(runs)
        BY <4>2, RunExchanged
      <4>. QED
        BY <4>1, <4>3
    <3>. QED
      BY <2>5, <3>1, <3>2, <3>3 DEF CategoriesEnd, MoveTo
  <2>10. ASSUME NEW p \in Pruner, OpenCertPrune(p)
         PROVE  ProfileTypeOK'
    <3>1. [pruner[p] EXCEPT !.pc = "prune"] \in PrunerState
      BY <2>10 DEF OpenCertPrune, PrunerState
    <3>2. runs' \in Seq(Run) /\ Len(runs') = Len(runs)
      <4>. DEFINE r == [runs[pruner[p].run] EXCEPT !.certs = "running"]
      <4>1. runs' = [runs EXCEPT ![pruner[p].run] = r]
        BY <2>10 DEF OpenCertPrune
      <4>2. pruner[p].run \in DOMAIN runs => r \in Run
        <5>1. ASSUME NEW old \in Run PROVE [old EXCEPT !.certs = "running"] \in Run
          BY DEF Run, RunStatus
        <5>. QED
          BY <2>0, <5>1
      <4>. HIDE DEF r
      <4>3. /\ [runs EXCEPT ![pruner[p].run] = r] \in Seq(Run)
            /\ Len([runs EXCEPT ![pruner[p].run] = r]) = Len(runs)
        BY <4>2, RunExchanged
      <4>. QED
        BY <4>1, <4>3
    <3>. QED
      BY <2>10, <3>1, <3>2 DEF OpenCertPrune, MoveTo
  <2>11. ASSUME NEW p \in Pruner, CloseCertPrune(p)
         PROVE  ProfileTypeOK'
    <3>. DEFINE moved == [pc |-> "work", run |-> pruner[p].run,
                          left |-> pruner[p].left \ {Certificates}]
                old == runs[pruner[p].run]
    <3>1. moved \in PrunerState
      BY <2>11 DEF CloseCertPrune, PrunerState
    <3>2. pruner' = [pruner EXCEPT ![p] = moved] /\ UNCHANGED <<lock, fresh, unguarded>>
      BY <2>11 DEF CloseCertPrune, MoveTo
    <3>3. PICK r : /\ runs' = [runs EXCEPT ![pruner[p].run] = r]
                   /\ \/ r = [old EXCEPT !.certs = "complete"]
                      \/ r = [old EXCEPT !.certs = "failed",
                                         !.missed = old.missed \cup {Certificates}]
      BY <2>11 DEF CloseCertPrune
    <3>. HIDE DEF moved, old
    <3>4. pruner[p].run \in DOMAIN runs => r \in Run
      <4>. SUFFICES ASSUME pruner[p].run \in DOMAIN runs PROVE r \in Run
        OBVIOUS
      <4>1. old \in Run
        BY <2>0 DEF old
      <4>2. old.missed \cup {Certificates} \in SUBSET Category
        BY <4>1 DEF Run
      <4>3. CASE r = [old EXCEPT !.certs = "complete"]
        BY <4>1, <4>3 DEF Run, RunStatus
      <4>4. CASE r = [old EXCEPT !.certs = "failed",
                                 !.missed = old.missed \cup {Certificates}]
        <5>. DEFINE missed == old.missed \cup {Certificates}
        <5>1. r = [old EXCEPT !.certs = "failed", !.missed = missed]
          BY <4>4
        <5>. HIDE DEF missed
        <5>. QED
          BY <4>1, <4>2, <5>1 DEF Run, RunStatus, missed
      <4>. QED
        BY <3>3, <4>3, <4>4
    <3>5. /\ [runs EXCEPT ![pruner[p].run] = r] \in Seq(Run)
          /\ Len([runs EXCEPT ![pruner[p].run] = r]) = Len(runs)
      BY <3>4, RunExchanged
    <3>. QED
      BY <3>1, <3>2, <3>3, <3>5
  <2>6. ASSUME NEW p \in Pruner, FinalizeRun(p)
        PROVE  ProfileTypeOK'
    <3>1. runs' \in Seq(Run) /\ Len(runs') = Len(runs)
      <4>. DEFINE r == [runs[pruner[p].run] EXCEPT !.status = FinalStatus(pruner[p].failed)]
      <4>1. runs' = [runs EXCEPT ![pruner[p].run] = r] \/ runs' = runs
        BY <2>6 DEF FinalizeRun
      <4>2. pruner[p].run \in DOMAIN runs => r \in Run
        BY <2>0 DEF Run, RunStatus, FinalStatus
      <4>. HIDE DEF r
      <4>3. /\ [runs EXCEPT ![pruner[p].run] = r] \in Seq(Run)
            /\ Len([runs EXCEPT ![pruner[p].run] = r]) = Len(runs)
        BY <4>2, RunExchanged
      <4>. QED
        BY <4>1, <4>3
    <3>2. fresh' \in BOOLEAN
      BY <2>6 DEF FinalizeRun
    <3>. QED
      BY <2>6, <3>1, <3>2, PlainState DEF FinalizeRun, MoveTo
  <2>7. ASSUME NEW p \in Pruner, ReleaseLock(p) \/ PrunerDies(p)
        PROVE  ProfileTypeOK'
    BY <2>7, PlainState DEF ReleaseLock, PrunerDies, Unlocked, MoveTo
  <2>8. ASSUME NEW p \in Pruner, ConnectionLost(p)
        PROVE  ProfileTypeOK'
    BY <2>8 DEF ConnectionLost
  <2>9. CASE GracePasses \/ UNCHANGED profileVars
    BY <2>9 DEF GracePasses, profileVars
  <2>. QED
    BY <2>1, <2>2, <2>3, <2>4, <2>5, <2>6, <2>7, <2>8, <2>9, <2>10, <2>11
       DEF ProfileNext
<1>. QED
  BY <1>1, <1>2, PTL DEF ProfileSpec

---------------------------------------------------------------------------
(* The lock *)

(* No step lets somebody work without the lock. *)
LEMMA LockKept ==
    ASSUME ProfileTypeOK, HoldsLock, [ProfileNext]_profileVars
    PROVE  HoldsLock'
<1>. USE DEF ProfileTypeOK, HoldsLock, AtWork
<1>1. ASSUME NEW p \in Pruner, NEW mode \in Mode, ReadPlan(p, mode)
      PROVE  HoldsLock'
  BY <1>1 DEF ReadPlan, MoveTo
<1>2. ASSUME NEW p \in Pruner, TryLock(p)
      PROVE  HoldsLock'
  <2>1. \A q \in Pruner \ {p} : pruner'[q] = pruner[q]
    BY <1>2 DEF TryLock, MoveTo
  <2>2. CASE lock = NoPruner /\ lock' = p /\ UNCHANGED unguarded
    BY <2>1, <2>2, ProfileAssumption
  <2>3. CASE pruner' = [pruner EXCEPT ![p] = PrunerAt("release")]
             /\ UNCHANGED <<lock, unguarded>>
    BY <2>3 DEF PrunerAt
  <2>4. CASE unguarded' = TRUE
    BY <2>4
  <2>. QED
    BY <1>2, <2>2, <2>3, <2>4 DEF TryLock, LockFree, MoveTo
<1>3. ASSUME NEW p \in Pruner,
             \/ InsertRun(p) \/ ProcessCategory(p) \/ OpenCertPrune(p)
             \/ CloseCertPrune(p) \/ CategoriesEnd(p) \/ FinalizeRun(p)
      PROVE  HoldsLock'
  <2>1. AtWork(p) /\ UNCHANGED <<lock, unguarded>>
    BY <1>3 DEF InsertRun, ProcessCategory, OpenCertPrune, CloseCertPrune,
                CategoriesEnd, FinalizeRun
  <2>2. \A q \in Pruner \ {p} : pruner'[q] = pruner[q]
    BY <1>3 DEF InsertRun, ProcessCategory, OpenCertPrune, CloseCertPrune,
                CategoriesEnd, FinalizeRun, MoveTo
  <2>. QED
    BY <2>1, <2>2
<1>4. ASSUME NEW p \in Pruner, ReleaseLock(p) \/ PrunerDies(p)
      PROVE  HoldsLock'
  <2>1. /\ pruner' = [pruner EXCEPT ![p] = PrunerAt("idle")]
        /\ lock' = (IF lock = p THEN NoPruner ELSE lock)
        /\ UNCHANGED unguarded
    BY <1>4 DEF ReleaseLock, PrunerDies, Unlocked, MoveTo
  <2>2. ~ AtWork(p)'
    BY <2>1 DEF PrunerAt
  <2>3. \A q \in Pruner \ {p} : AtWork(q)' = AtWork(q)
    BY <2>1
  <2>. QED
    BY <2>1, <2>2, <2>3
<1>5. ASSUME NEW p \in Pruner, ConnectionLost(p)
      PROVE  HoldsLock'
  BY <1>5 DEF ConnectionLost
<1>6. CASE GracePasses \/ UNCHANGED profileVars
  BY <1>6 DEF GracePasses, profileVars
<1>. QED
  BY <1>1, <1>2, <1>3, <1>4, <1>5, <1>6 DEF ProfileNext

(* Two prunes of the profile never work at the same time, for any number   *)
(* of invocations, unless a lock was lost or could not be asked for. *)
THEOREM PrunesApart == ProfileSpec => []OneProfilePrune
<1>1. ProfileInit => HoldsLock
  BY DEF ProfileInit, HoldsLock, AtWork, PrunerAt
<1>2. HoldsLock => OneProfilePrune
  BY DEF HoldsLock, OneProfilePrune
<1>. QED
  BY <1>1, <1>2, LockKept, ProfileTypeCorrect, PTL DEF ProfileSpec

---------------------------------------------------------------------------
(* The runs *)

(* A step that moves nobody to a run, and leaves the runs alone, keeps     *)
(* what is known of them. *)
LEMMA RunsUntouched ==
    ASSUME RunsInv, UNCHANGED runs,
           \A q \in Pruner : pruner'[q] = pruner[q] \/ ~ HasRun(q)'
    PROVE  RunsInv'
  BY DEF RunsInv, RunsApart, RunsOpen, CompleteIsWhole, HasRun

(* Somebody at a run goes on with it, whose row may change on the way. *)
LEMMA RunMoved ==
    ASSUME RunsInv, NEW p \in Pruner, HasRun(p), HasRun(p)',
           \A q \in Pruner \ {p} : pruner'[q] = pruner[q],
           pruner'[p].run = pruner[p].run,
           NEW r, runs' = [runs EXCEPT ![pruner[p].run] = r],
           OpenRun(pruner'[p], r)
    PROVE  RunsInv'
<1>. DEFINE i == pruner[p].run
<1>1. /\ i \in DOMAIN runs /\ DOMAIN runs' = DOMAIN runs
      /\ runs'[i] = r /\ \A j \in DOMAIN runs \ {i} : runs'[j] = runs[j]
  BY DEF RunsInv, RunsApart
<1>2. pruner'[p].run = i
  OBVIOUS
<1>3. \A q \in Pruner \ {p} : HasRun(q) => pruner[q].run \in DOMAIN runs \ {i}
  BY DEF RunsInv, RunsApart
<1>. HIDE DEF i
<1>4. \A q \in Pruner \ {p} : HasRun(q)' => HasRun(q) /\ pruner'[q].run = pruner[q].run
  BY DEF HasRun
<1>5. RunsApart'
  BY <1>1, <1>2, <1>3, <1>4 DEF RunsInv, RunsApart
<1>6. RunsOpen'
  BY <1>1, <1>2, <1>3, <1>4 DEF RunsInv, RunsOpen
<1>7. CompleteIsWhole'
  BY <1>1 DEF RunsInv, CompleteIsWhole, OpenRun
<1>. QED
  BY <1>5, <1>6, <1>7 DEF RunsInv

(* No step lets two invocations share a row, or completes a run that is    *)
(* not accounted for. *)
LEMMA RunsKept ==
    ASSUME ProfileTypeOK, RunsInv, [ProfileNext]_profileVars
    PROVE  RunsInv'
<1>0. /\ \A p \in Pruner : HasRun(p) => pruner[p].run \in DOMAIN runs
      /\ DOMAIN runs = 1 .. Len(runs) /\ Len(runs) \in Nat
      /\ \A i \in DOMAIN runs : runs[i] \in Run
  BY LenProperties DEF ProfileTypeOK, RunsInv, RunsApart
<1>1. ASSUME NEW p \in Pruner, NEW mode \in Mode, ReadPlan(p, mode)
      PROVE  RunsInv'
  BY <1>1, RunsUntouched DEF ReadPlan, MoveTo, HasRun, ProfileTypeOK
<1>2. ASSUME NEW p \in Pruner, TryLock(p)
      PROVE  RunsInv'
  <2>1. UNCHANGED runs /\ \A q \in Pruner \ {p} : pruner'[q] = pruner[q]
    BY <1>2 DEF TryLock, MoveTo, ProfileTypeOK
  <2>2. [pruner[p] EXCEPT !.pc = "insert"].pc = "insert"
    BY <1>2 DEF TryLock, ProfileTypeOK, PrunerState
  <2>3. pruner'[p].pc \in {"insert", "release"}
    <3>1. \/ pruner' = [pruner EXCEPT ![p] = [pruner[p] EXCEPT !.pc = "insert"]]
          \/ pruner' = [pruner EXCEPT ![p] = PrunerAt("release")]
      BY <1>2 DEF TryLock, MoveTo
    <3>2. pruner \in [Pruner -> PrunerState]
      BY DEF ProfileTypeOK
    <3>3. pruner'[p] \in {[pruner[p] EXCEPT !.pc = "insert"], PrunerAt("release")}
      BY <3>1, <3>2
    <3>4. PrunerAt("release").pc = "release"
      BY DEF PrunerAt
    <3>. QED
      BY <2>2, <3>3, <3>4
  <2>4. ~ HasRun(p)'
    BY <2>3 DEF HasRun
  <2>. QED
    BY <2>1, <2>4, RunsUntouched
<1>3. ASSUME NEW p \in Pruner, InsertRun(p)
      PROVE  RunsInv'
  <2>1. CASE MoveTo(p, PrunerAt("release")) /\ UNCHANGED <<runs, fresh>>
    BY <2>1, RunsUntouched DEF MoveTo, PrunerAt, HasRun, ProfileTypeOK
  <2>2. CASE ~ (MoveTo(p, PrunerAt("release")) /\ UNCHANGED <<runs, fresh>>)
    <3>. DEFINE r == [mode |-> pruner[p].mode, status |-> "running",
                      certs |-> "none", missed |-> {}]
    <3>1. /\ runs' = Append(runs, r)
          /\ pruner' = [pruner EXCEPT ![p] =
                 [pc |-> "work", run |-> Len(runs) + 1, left |-> pruner[p].left]]
      BY <1>3, <2>2 DEF InsertRun, MoveTo
    <3>2. /\ DOMAIN runs' = 1 .. (Len(runs) + 1)
          /\ \A i \in 1 .. Len(runs) : runs'[i] = runs[i]
          /\ runs'[Len(runs) + 1] = r
      BY <3>1, <1>0 DEF ProfileTypeOK
    <3>3. /\ \A q \in Pruner \ {p} : pruner'[q] = pruner[q]
          /\ pruner'[p].pc = "work" /\ pruner'[p].run = Len(runs) + 1
      BY <3>1 DEF ProfileTypeOK
    <3>4. r.status = "running" /\ r.missed = {}
      OBVIOUS
    <3>. HIDE DEF r
    <3>5. RunsApart'
      BY <1>0, <3>2, <3>3 DEF RunsInv, RunsApart, HasRun
    <3>6. OpenRun(pruner'[p], r)
      BY <3>3, <3>4 DEF OpenRun, Accounted
    <3>7. RunsOpen'
      BY <1>0, <3>2, <3>3, <3>6 DEF RunsInv, RunsOpen, HasRun
    <3>8. CompleteIsWhole'
      BY <1>0, <3>2, <3>4 DEF RunsInv, CompleteIsWhole
    <3>. QED
      BY <3>5, <3>7, <3>8 DEF RunsInv
  <2>. QED
    BY <2>1, <2>2
<1>4. ASSUME NEW p \in Pruner, ProcessCategory(p)
      PROVE  RunsInv'
  <2>. DEFINE i == pruner[p].run
              left == pruner[p].left \ {FirstOf(pruner[p].left)}
  <2>1. pruner' = [pruner EXCEPT ![p] = [pruner[p] EXCEPT !.left = left]]
    BY <1>4 DEF ProcessCategory, MoveTo
  <2>2. HasRun(p) /\ pruner[p].pc = "work"
    BY <1>4 DEF ProcessCategory, HasRun
  <2>3. /\ pruner'[p].pc = "work" /\ pruner'[p].run = i
        /\ pruner'[p].left \subseteq pruner[p].left
        /\ \A q \in Pruner \ {p} : pruner'[q] = pruner[q]
    BY <2>1, <2>2 DEF ProfileTypeOK, PrunerState
  <2>4. runs' = [runs EXCEPT ![i] = runs[i]]
    BY <1>0, <1>4, <2>2 DEF ProcessCategory, ProfileTypeOK
  <2>5. OpenRun(pruner[p], runs[i])
    BY <2>2 DEF RunsInv, RunsOpen
  <2>6. OpenRun(pruner'[p], runs[i])
    BY <2>2, <2>3, <2>5 DEF OpenRun
  <2>. QED
    BY <2>2, <2>3, <2>4, <2>6, RunMoved DEF HasRun
<1>5. ASSUME NEW p \in Pruner, CategoriesEnd(p)
      PROVE  RunsInv'
  <2>. DEFINE i == pruner[p].run
              r == [runs[i] EXCEPT !.missed = runs[i].missed \cup pruner[p].left]
  <2>1. PICK failed \in BOOLEAN :
            /\ pruner[p].left # {} => failed
            /\ MoveTo(p, [pc |-> "finalize", run |-> i, failed |-> failed])
    BY <1>5 DEF CategoriesEnd
  <2>2. HasRun(p) /\ pruner[p].pc \in {"work", "prune"}
    BY <1>5 DEF CategoriesEnd, HasRun
  <2>3. /\ pruner'[p].pc = "finalize" /\ pruner'[p].run = i
        /\ pruner'[p].failed = failed
        /\ \A q \in Pruner \ {p} : pruner'[q] = pruner[q]
    BY <2>1 DEF MoveTo, ProfileTypeOK
  <2>4. runs' = [runs EXCEPT ![i] = r]
    BY <1>5 DEF CategoriesEnd
  <2>5. OpenRun(pruner[p], runs[i]) /\ runs[i] \in Run
    BY <1>0, <2>2 DEF RunsInv, RunsOpen
  <2>6. /\ r.status = runs[i].status /\ r.certs = runs[i].certs
        /\ r.missed = runs[i].missed \cup pruner[p].left
    BY <2>5 DEF Run
  <2>. HIDE DEF i, r
  <2>7. OpenRun(pruner'[p], r)
    BY <2>1, <2>2, <2>3, <2>5, <2>6 DEF OpenRun, Accounted
  <2>8. i = pruner[p].run
    BY DEF i
  <2>. QED
    BY <2>2, <2>3, <2>4, <2>7, <2>8, RunMoved DEF HasRun
<1>10. ASSUME NEW p \in Pruner, OpenCertPrune(p)
       PROVE  RunsInv'
  <2>. DEFINE i == pruner[p].run
              r == [runs[i] EXCEPT !.certs = "running"]
  <2>1. pruner' = [pruner EXCEPT ![p] = [pruner[p] EXCEPT !.pc = "prune"]]
    BY <1>10 DEF OpenCertPrune, MoveTo
  <2>2. HasRun(p) /\ pruner[p].pc = "work" /\ Certificates \in pruner[p].left
    BY <1>10 DEF OpenCertPrune, AtCertificates, HasRun
  <2>3. /\ pruner'[p].pc = "prune" /\ pruner'[p].run = i
        /\ pruner'[p].left = pruner[p].left
        /\ \A q \in Pruner \ {p} : pruner'[q] = pruner[q]
    BY <2>1, <2>2 DEF ProfileTypeOK, PrunerState
  <2>4. runs' = [runs EXCEPT ![i] = r]
    BY <1>10 DEF OpenCertPrune
  <2>5. OpenRun(pruner[p], runs[i]) /\ runs[i] \in Run
    BY <1>0, <2>2 DEF RunsInv, RunsOpen
  <2>6. r.status = runs[i].status /\ r.missed = runs[i].missed
    BY <2>5 DEF Run
  <2>. HIDE DEF i, r
  <2>7. OpenRun(pruner'[p], r)
    BY <2>2, <2>3, <2>5, <2>6 DEF OpenRun, Accounted
  <2>8. i = pruner[p].run
    BY DEF i
  <2>. QED
    BY <2>2, <2>3, <2>4, <2>7, <2>8, RunMoved DEF HasRun
<1>11. ASSUME NEW p \in Pruner, CloseCertPrune(p)
       PROVE  RunsInv'
  <2>. DEFINE i == pruner[p].run
              left == pruner[p].left \ {Certificates}
  <2>1. pruner' = [pruner EXCEPT ![p] = [pc |-> "work", run |-> i, left |-> left]]
    BY <1>11 DEF CloseCertPrune, MoveTo
  <2>2. HasRun(p) /\ pruner[p].pc = "prune"
    BY <1>11 DEF CloseCertPrune, HasRun
  <2>3. /\ pruner'[p].pc = "work" /\ pruner'[p].run = i
        /\ Certificates \notin pruner'[p].left
        /\ \A q \in Pruner \ {p} : pruner'[q] = pruner[q]
    BY <2>1 DEF ProfileTypeOK
  <2>4. PICK r : /\ runs' = [runs EXCEPT ![i] = r]
                 /\ \/ r = [runs[i] EXCEPT !.certs = "complete"]
                    \/ r = [runs[i] EXCEPT !.certs = "failed",
                               !.missed = runs[i].missed \cup {Certificates}]
    BY <1>11 DEF CloseCertPrune
  <2>5. OpenRun(pruner[p], runs[i]) /\ runs[i] \in Run
    BY <1>0, <2>2 DEF RunsInv, RunsOpen
  <2>6. /\ r.status = runs[i].status
        /\ \/ r.missed = runs[i].missed
           \/ r.missed = runs[i].missed \cup {Certificates} /\ r.certs = "failed"
    BY <2>4, <2>5 DEF Run
  <2>7. runs[i].missed = {}
    BY <2>2, <2>5 DEF OpenRun
  <2>. HIDE DEF i, left
  <2>8. OpenRun(pruner'[p], r)
    BY <2>2, <2>3, <2>5, <2>6, <2>7 DEF OpenRun, Accounted
  <2>9. i = pruner[p].run
    BY DEF i
  <2>. QED
    BY <2>2, <2>3, <2>4, <2>8, <2>9, RunMoved DEF HasRun
<1>6. ASSUME NEW p \in Pruner, FinalizeRun(p)
      PROVE  RunsInv'
  <2>. DEFINE i == pruner[p].run
  <2>1. HasRun(p) /\ i \in DOMAIN runs /\ pruner[p].pc = "finalize"
    BY <1>0, <1>6 DEF FinalizeRun, HasRun
  <2>2. /\ \A q \in Pruner \ {p} : pruner'[q] = pruner[q]
        /\ ~ HasRun(p)'
    BY <1>6 DEF FinalizeRun, MoveTo, HasRun, PrunerAt, ProfileTypeOK
  <2>3. CASE UNCHANGED runs
    BY <2>2, <2>3, RunsUntouched
  <2>4. CASE runs' = [runs EXCEPT ![i].status = FinalStatus(pruner[p].failed)]
    <3>1. DOMAIN runs' = DOMAIN runs
      BY <2>4 DEF ProfileTypeOK
    <3>2. /\ \A j \in DOMAIN runs \ {i} : runs'[j] = runs[j]
          /\ runs'[i].missed = runs[i].missed /\ runs'[i].certs = runs[i].certs
          /\ runs'[i].status = FinalStatus(pruner[p].failed)
      BY <1>0, <2>1, <2>4 DEF Run
    <3>. HIDE DEF i
    <3>3. i = pruner[p].run
      BY DEF i
    <3>4. RunsApart'
      BY <2>2, <3>1 DEF RunsInv, RunsApart, HasRun
    <3>5. RunsOpen'
      BY <1>0, <2>1, <2>2, <3>2, <3>3 DEF RunsInv, RunsApart, RunsOpen, HasRun
    <3>6. pruner[p].failed \/ Accounted(runs[i])
      BY <2>1, <3>3 DEF RunsInv, RunsOpen, OpenRun
    <3>7. Accounted(runs[i]) => Accounted(runs'[i])
      BY <3>2 DEF Accounted
    <3>8. CompleteIsWhole'
      BY <2>1, <3>1, <3>2, <3>6, <3>7 DEF RunsInv, CompleteIsWhole, FinalStatus
    <3>. QED
      BY <3>4, <3>5, <3>8 DEF RunsInv
  <2>. QED
    BY <1>6, <2>3, <2>4 DEF FinalizeRun
<1>7. ASSUME NEW p \in Pruner, ReleaseLock(p) \/ PrunerDies(p)
      PROVE  RunsInv'
  BY <1>7, RunsUntouched
     DEF ReleaseLock, PrunerDies, MoveTo, HasRun, PrunerAt, ProfileTypeOK
<1>8. ASSUME NEW p \in Pruner, ConnectionLost(p)
      PROVE  RunsInv'
  BY <1>8, RunsUntouched DEF ConnectionLost
<1>9. CASE GracePasses \/ UNCHANGED profileVars
  BY <1>9, RunsUntouched DEF GracePasses, profileVars
<1>. QED
  BY <1>1, <1>2, <1>3, <1>4, <1>5, <1>6, <1>7, <1>8, <1>9, <1>10, <1>11
     DEF ProfileNext

(* A finished run that makes the retention count as enforced has gone      *)
(* through every category it was to prune, or else only the certificates   *)
(* are missing and their failure is in ct_prune_runs; for any number of    *)
(* runs, invocations and categories. *)
THEOREM EnforcedIsTrue == ProfileSpec => []EnforcedMeansPruned
<1>1. ProfileInit => RunsInv
  BY DEF ProfileInit, RunsInv, RunsApart, RunsOpen, CompleteIsWhole, HasRun, PrunerAt
<1>2. ProfileTypeOK /\ RunsInv => EnforcedMeansPruned
  BY LenProperties
     DEF ProfileTypeOK, RunsInv, CompleteIsWhole, EnforcedMeansPruned, Enforced
<1>. QED
  BY <1>1, <1>2, RunsKept, ProfileTypeCorrect, PTL DEF ProfileSpec

---------------------------------------------------------------------------
(* WorkerRegistry: nothing revives the row of a process that is gone.      *)

(* A snapshot loop that reaps is where its cycle begins: no other step of  *)
(* it leaves the transaction open behind. *)
ReapsAtCycle ==
    \A r \in Snapshotter : r # Operator /\ reap[r].open => process[r].pc = "cycle"

RegistryInv == RegistryTypeOK /\ ReapsAtCycle

Status == {"starting", "processing", "idle", "error", "stopped"}

---------------------------------------------------------------------------
(* A row that is given another status, or is renewed, is a row. *)
LEMMA RowChanged ==
    ASSUME NEW row \in WorkerRow, NEW status \in Status
    PROVE  /\ [row EXCEPT !.status = status] \in WorkerRow
           /\ [row EXCEPT !.stale = TRUE] \in WorkerRow
           /\ [row EXCEPT !.status = status, !.stale = FALSE] \in WorkerRow
           /\ [row EXCEPT !.status = status].status = status
  BY DEF WorkerRow, Status

(* A change of some of the rows in place leaves as many rows. *)
LEMMA RowsChanged ==
    ASSUME NEW old \in Seq(WorkerRow), NEW new, new = [i \in DOMAIN old |-> new[i]],
           \A i \in DOMAIN old : new[i] \in WorkerRow
    PROVE  new \in Seq(WorkerRow) /\ Len(new) = Len(old)
<1>1. DOMAIN old = 1 .. Len(old) /\ Len(old) \in Nat
  BY LenProperties
<1>2. DOMAIN new = 1 .. Len(old) /\ \A i \in 1 .. Len(old) : new[i] \in WorkerRow
  BY <1>1
<1>3. new \in [1 .. Len(old) -> WorkerRow]
  BY <1>2
<1>4. new \in Seq(WorkerRow)
  BY <1>1, <1>3, IsASeq
<1>. QED
  BY <1>1, <1>2, <1>4, LenProperties

(* The rows are as many, and are rows, after a heartbeat. *)
LEMMA BeatenRows ==
    ASSUME NEW w, rows \in Seq(WorkerRow), NEW status \in Status
    PROVE  /\ Beaten(w, status) \in Seq(WorkerRow)
           /\ Len(Beaten(w, status)) = Len(rows)
           /\ DOMAIN Beaten(w, status) = DOMAIN rows
<1>. DEFINE new == Beaten(w, status)
<1>1. new = [i \in DOMAIN rows |-> new[i]] /\ DOMAIN new = DOMAIN rows
  BY DEF Beaten
<1>2. \A i \in DOMAIN rows : rows[i] \in WorkerRow
  BY LenProperties
<1>3. \A i \in DOMAIN rows : new[i] \in WorkerRow
  BY <1>2, RowChanged DEF Beaten
<1>. HIDE DEF new
<1>4. new \in Seq(WorkerRow) /\ Len(new) = Len(rows)
  BY <1>1, <1>3, RowsChanged
<1>. QED
  BY <1>1, <1>4 DEF new

(* A process that is not off has a row, wherever in its loop it goes. *)
LEMMA ProcessMoves ==
    ASSUME NEW p \in Process, p.pc # "off",
           NEW pc \in {"cycle", "work", "failed", "asleep", "ending"}
    PROVE  [p EXCEPT !.pc = pc] \in Process
  BY DEF Process, Off

---------------------------------------------------------------------------
(* No step of a worker, a reaper or time breaks the invariant. *)
LEMMA RegistryStep ==
    ASSUME RegistryInv, [RegistryNext]_registryVars
    PROVE  RegistryInv'
<1>0. /\ rows \in Seq(WorkerRow) /\ Len(rows) <= MaxRows /\ Len(rows) \in Nat
      /\ DOMAIN rows = 1 .. Len(rows)
      /\ \A i \in DOMAIN rows : rows[i] \in WorkerRow
      /\ process \in [Worker -> Process]
      /\ reap \in [Reaper -> [open : BOOLEAN, ids : SUBSET (1 .. MaxRows)]]
      /\ \A r \in Snapshotter : r \in Worker /\ r \in Reaper
      /\ MaxRows \in Nat
  BY RegistryAssumption, LenProperties DEF RegistryInv, RegistryTypeOK, Reaper
<1>1. ASSUME NEW w \in Worker, Register(w)
      PROVE  RegistryInv'
  <2>1. [worker |-> w, status |-> "starting", stale |-> FALSE] \in WorkerRow
    BY DEF WorkerRow
  <2>2. rows' \in Seq(WorkerRow) /\ Len(rows') = Len(rows) + 1
    BY <1>0, <1>1, <2>1 DEF Register
  <2>3. [pc |-> "cycle", row |-> Len(rows) + 1] \in Process
    BY <1>0, <1>1 DEF Register, Process
  <2>4. process' \in [Worker -> Process]
    BY <1>0, <1>1, <2>3 DEF Register
  <2>5. RegistryTypeOK'
    BY <1>0, <1>1, <2>2, <2>4 DEF Register, RegistryTypeOK
  <2>6. ReapsAtCycle'
    BY <1>0, <1>1 DEF Register, RegistryInv, ReapsAtCycle
  <2>. QED
    BY <2>5, <2>6 DEF RegistryInv
<1>2. ASSUME NEW w \in Worker, NEW status \in Status,
             NEW to \in {"work", "asleep"},
             \/ w \notin Snapshotter /\ Beat(w, "cycle", status, to)
             \/ Beat(w, "work", status, to) \/ Beat(w, "failed", status, to)
      PROVE  RegistryInv'
  <2>1. /\ process[w].pc \in {"cycle", "work", "failed"}
        /\ rows' = Beaten(w, status)
        /\ process' = [process EXCEPT ![w].pc = to] /\ UNCHANGED reap
        /\ w \in Snapshotter => process[w].pc # "cycle"
    BY <1>2 DEF Beat, AtPc
  <2>2. process' \in [Worker -> Process]
    BY <1>0, <2>1, ProcessMoves
  <2>3. RegistryTypeOK'
    BY <1>0, <2>1, <2>2, BeatenRows DEF RegistryTypeOK
  <2>4. ReapsAtCycle'
    BY <1>0, <2>1 DEF RegistryInv, ReapsAtCycle
  <2>. QED
    BY <2>3, <2>4 DEF RegistryInv
<1>3. ASSUME NEW w \in Worker, WorkFails(w)
      PROVE  RegistryInv'
  <2>1. process' \in [Worker -> Process]
    BY <1>0, <1>3, ProcessMoves DEF WorkFails, AtPc
  <2>2. RegistryTypeOK'
    BY <1>0, <1>3, <2>1 DEF WorkFails, RegistryTypeOK, NoReap
  <2>3. ReapsAtCycle'
    BY <1>0, <1>3 DEF WorkFails, AtPc, RegistryInv, ReapsAtCycle, NoReap
  <2>. QED
    BY <2>2, <2>3 DEF RegistryInv
<1>4. ASSUME NEW w \in Worker, Wake(w) \/ Cancel(w)
      PROVE  RegistryInv'
  <2>1. PICK pc \in {"cycle", "ending"} : process' = [process EXCEPT ![w].pc = pc]
    BY <1>4 DEF Wake, Cancel, AtPc
  <2>2. process[w].pc \in {"work", "failed", "asleep"} /\ UNCHANGED <<rows, reap>>
    BY <1>4 DEF Wake, Cancel
  <2>3. process' \in [Worker -> Process]
    BY <1>0, <2>1, <2>2, ProcessMoves
  <2>4. RegistryTypeOK'
    BY <1>0, <2>2, <2>3 DEF RegistryTypeOK
  <2>5. ReapsAtCycle'
    BY <1>0, <2>1, <2>2 DEF RegistryInv, ReapsAtCycle
  <2>. QED
    BY <2>4, <2>5 DEF RegistryInv
<1>5. ASSUME NEW w \in Worker, MarkStopped(w)
      PROVE  RegistryInv'
  <2>1. process' \in [Worker -> Process]
    BY <1>0, <1>5 DEF MarkStopped, Process
  <2>2. rows' \in Seq(WorkerRow) /\ Len(rows') = Len(rows)
    <3>1. CASE rows' = [rows EXCEPT ![process[w].row].status = "stopped"]
      <4>1. \A i \in DOMAIN rows : rows'[i] \in WorkerRow
        BY <1>0, <3>1, RowChanged DEF Status
      <4>2. rows' = [i \in DOMAIN rows |-> rows'[i]]
        BY <1>0, <3>1
      <4>. QED
        BY <1>0, <4>1, <4>2, RowsChanged
    <3>. QED
      BY <1>0, <1>5, <3>1 DEF MarkStopped
  <2>3. RegistryTypeOK'
    BY <1>0, <1>5, <2>1, <2>2 DEF MarkStopped, RegistryTypeOK
  <2>4. ReapsAtCycle'
    BY <1>0, <1>5 DEF MarkStopped, RegistryInv, ReapsAtCycle
  <2>. QED
    BY <2>3, <2>4 DEF RegistryInv
<1>6. ASSUME NEW w \in Worker, Killed(w)
      PROVE  RegistryInv'
  <2>1. process' \in [Worker -> Process]
    BY <1>0, <1>6 DEF Killed, Process
  <2>2. RegistryTypeOK'
    BY <1>0, <1>6, <2>1 DEF Killed, RegistryTypeOK, NoReap
  <2>3. ReapsAtCycle'
    BY <1>0, <1>6 DEF Killed, RegistryInv, ReapsAtCycle, NoReap
  <2>. QED
    BY <2>2, <2>3 DEF RegistryInv
<1>7. ASSUME NEW i \in DOMAIN rows, RowAges(i)
      PROVE  RegistryInv'
  <2>1. rows' = [rows EXCEPT ![i].stale = TRUE] /\ UNCHANGED <<process, reap>>
    BY <1>7 DEF RowAges
  <2>2. rows' = [j \in DOMAIN rows |-> rows'[j]]
    BY <1>0, <2>1
  <2>3. \A j \in DOMAIN rows : rows'[j] \in WorkerRow
    BY <1>0, <2>1, RowChanged DEF Status
  <2>4. rows' \in Seq(WorkerRow) /\ Len(rows') = Len(rows)
    BY <1>0, <2>2, <2>3, RowsChanged
  <2>. QED
    BY <1>0, <2>1, <2>4 DEF RegistryInv, RegistryTypeOK, ReapsAtCycle
<1>8. ASSUME NEW r \in Reaper, ReapSelect(r)
      PROVE  RegistryInv'
  <2>1. PICK ids \in SUBSET (1 .. MaxRows) :
            reap' = [reap EXCEPT ![r] = [open |-> TRUE, ids |-> ids]]
    <3>. DEFINE ids == {i \in DOMAIN rows : Stale(i)}
                           \ (IF r = Operator THEN {} ELSE RowOf(r))
    <3>1. reap' = [reap EXCEPT ![r] = [open |-> TRUE, ids |-> ids]]
      BY <1>8 DEF ReapSelect
    <3>2. ids \in SUBSET (1 .. MaxRows)
      BY <1>0
    <3>. QED
      BY <3>1, <3>2
  <2>2. UNCHANGED <<rows, process>> /\ (r # Operator => process[r].pc = "cycle")
    BY <1>8 DEF ReapSelect
  <2>3. RegistryTypeOK'
    BY <1>0, <2>1, <2>2 DEF RegistryTypeOK
  <2>4. ReapsAtCycle'
    BY <1>0, <2>1, <2>2 DEF RegistryInv, ReapsAtCycle
  <2>. QED
    BY <2>3, <2>4 DEF RegistryInv
<1>9. ASSUME NEW r \in Reaper, ReapUpdate(r)
      PROVE  RegistryInv'
  <2>. DEFINE base == IF r = Operator THEN rows ELSE Beaten(r, "processing")
  <2>1. /\ reap[r].open
        /\ rows' = [i \in DOMAIN rows |->
               IF i \in reap[r].ids THEN [base[i] EXCEPT !.status = "stopped"]
                                    ELSE base[i]]
        /\ reap' = [reap EXCEPT ![r] = NoReap]
        /\ IF r = Operator THEN UNCHANGED process
                           ELSE process' = [process EXCEPT ![r].pc = "work"]
    BY <1>9 DEF ReapUpdate, AtPc
  <2>2. \A i \in DOMAIN rows : base[i] \in WorkerRow
    BY <1>0, BeatenRows, LenProperties DEF Status
  <2>3. rows' \in Seq(WorkerRow) /\ Len(rows') = Len(rows)
    <3>. HIDE DEF base
    <3>1. rows' = [i \in DOMAIN rows |-> rows'[i]]
      BY <2>1
    <3>2. \A i \in DOMAIN rows : rows'[i] \in WorkerRow
      BY <2>1, <2>2, RowChanged DEF Status
    <3>. QED
      BY <1>0, <3>1, <3>2, RowsChanged
  <2>. HIDE DEF base
  <2>4. r # Operator => r \in Snapshotter /\ process[r].pc = "cycle"
    BY <2>1 DEF RegistryInv, ReapsAtCycle, Reaper
  <2>5. process' \in [Worker -> Process]
    <3>1. CASE r # Operator
      <4>1. r \in Worker /\ [process[r] EXCEPT !.pc = "work"] \in Process
        BY <1>0, <2>4, <3>1, ProcessMoves
      <4>. QED
        BY <1>0, <2>1, <3>1, <4>1
    <3>2. CASE r = Operator
      BY <1>0, <2>1, <3>2
    <3>. QED
      BY <3>1, <3>2
  <2>6. RegistryTypeOK'
    BY <1>0, <2>1, <2>3, <2>5 DEF RegistryTypeOK, NoReap
  <2>7. ReapsAtCycle'
    BY <1>0, <2>1, <2>4 DEF RegistryInv, ReapsAtCycle, NoReap
  <2>. QED
    BY <2>6, <2>7 DEF RegistryInv
<1>10. CASE UNCHANGED registryVars
  BY <1>10 DEF registryVars, RegistryInv, RegistryTypeOK, ReapsAtCycle
<1>. QED
  BY <1>1, <1>2, <1>3, <1>4, <1>5, <1>6, <1>7, <1>8, <1>9, <1>10
     DEF RegistryNext, WorkerActs, BeginCycle, EndCycle, Status

(* The rows, the processes and the reapers' transactions keep their types, *)
(* for any number of workers and reapers. *)
THEOREM RegistryInvariant == RegistrySpec => []RegistryInv
<1>1. RegistryInit => RegistryInv
  <2>. SUFFICES ASSUME RegistryInit PROVE RegistryInv
    OBVIOUS
  <2>1. rows \in Seq(WorkerRow) /\ Len(rows) = 0
    BY EmptySeq DEF RegistryInit
  <2>2. process \in [Worker -> Process]
    BY DEF RegistryInit, Process
  <2>3. reap \in [Reaper -> [open : BOOLEAN, ids : SUBSET (1 .. MaxRows)]]
    BY DEF RegistryInit, NoReap
  <2>4. ReapsAtCycle
    BY DEF RegistryInit, NoReap, ReapsAtCycle, Reaper
  <2>. QED
    BY <2>1, <2>2, <2>3, <2>4, RegistryAssumption DEF RegistryInv, RegistryTypeOK
<1>. QED
  BY <1>1, RegistryStep, PTL DEF RegistrySpec

---------------------------------------------------------------------------
(* A heartbeat is written to the row of a process that is there. *)
LEMMA BeatsOwnRow ==
    ASSUME RegistryInv, NEW w \in Worker, process[w].pc # "off",
           NEW status, NEW i \in DOMAIN rows, i \notin Owned
    PROVE  Beaten(w, status)[i] = rows[i]
<1>1. process[w] # Off
  BY DEF Off
<1>2. i # process[w].row
  BY <1>1 DEF Owned, Alive
<1>. QED
  BY <1>2 DEF Beaten, RowOf

(* Nothing brings back the row of a process that is gone, for any number   *)
(* of workers, restarts and reapers. *)
THEOREM GoneStays == RegistrySpec => GoneStaysStopped
<1>. DEFINE Stays == \A i \in DOMAIN rows :
                rows[i].status = "stopped" /\ i \notin Owned => rows'[i].status = "stopped"
<1>1. ASSUME RegistryInv, [RegistryNext]_registryVars
      PROVE  [Stays]_registryVars
  <2>. SUFFICES ASSUME RegistryNext, NEW i \in DOMAIN rows,
                       rows[i].status = "stopped", i \notin Owned
                PROVE  rows'[i].status = "stopped"
    BY <1>1
  <2>0. /\ rows \in Seq(WorkerRow) /\ rows[i] \in WorkerRow
        /\ DOMAIN rows = 1 .. Len(rows) /\ Len(rows) \in Nat
    BY <1>1, LenProperties DEF RegistryInv, RegistryTypeOK
  <2>1. ASSUME NEW w \in Worker, Register(w)
        PROVE  rows'[i].status = "stopped"
    BY <2>0, <2>1 DEF Register
  <2>2. ASSUME NEW w \in Worker, BeginCycle(w) \/ EndCycle(w)
        PROVE  rows'[i].status = "stopped"
    <3>1. PICK status : rows' = Beaten(w, status) /\ process[w].pc # "off"
      BY <2>2 DEF BeginCycle, EndCycle, Beat
    <3>. QED
      BY <1>1, <3>1, BeatsOwnRow
  <2>3. ASSUME NEW w \in Worker, WorkFails(w) \/ Wake(w) \/ Cancel(w) \/ Killed(w)
        PROVE  rows'[i].status = "stopped"
    BY <2>3 DEF WorkFails, Wake, Cancel, Killed
  <2>4. ASSUME NEW w \in Worker, MarkStopped(w)
        PROVE  rows'[i].status = "stopped"
    <3>1. CASE rows' = [rows EXCEPT ![process[w].row].status = "stopped"]
      <4>1. rows'[i] \in {rows[i], [rows[i] EXCEPT !.status = "stopped"]}
        BY <2>0, <3>1
      <4>2. [rows[i] EXCEPT !.status = "stopped"].status = "stopped"
        BY <2>0 DEF WorkerRow
      <4>. QED
        BY <4>1, <4>2
    <3>. QED
      BY <2>4, <3>1 DEF MarkStopped
  <2>5. ASSUME NEW j \in DOMAIN rows, RowAges(j)
        PROVE  rows'[i].status = "stopped"
    BY <2>0, <2>5 DEF RowAges
  <2>6. ASSUME NEW r \in Reaper, ReapSelect(r)
        PROVE  rows'[i].status = "stopped"
    BY <2>6 DEF ReapSelect
  <2>7. ASSUME NEW r \in Reaper, ReapUpdate(r)
        PROVE  rows'[i].status = "stopped"
    <3>. DEFINE base == IF r = Operator THEN rows ELSE Beaten(r, "processing")
    <3>1. rows'[i] = IF i \in reap[r].ids THEN [base[i] EXCEPT !.status = "stopped"]
                                          ELSE base[i]
      BY <2>7 DEF ReapUpdate
    <3>2. base[i] = rows[i]
      <4>1. CASE r # Operator
        <5>1. r \in Worker /\ process[r].pc # "off"
          BY <1>1, <2>7, <4>1, RegistryAssumption
             DEF ReapUpdate, RegistryInv, ReapsAtCycle, Reaper
        <5>. QED
          BY <1>1, <4>1, <5>1, BeatsOwnRow
      <4>. QED
        BY <4>1
    <3>. HIDE DEF base
    <3>. QED
      BY <2>0, <3>1, <3>2 DEF WorkerRow
  <2>. QED
    BY <2>1, <2>2, <2>3, <2>4, <2>5, <2>6, <2>7 DEF RegistryNext, WorkerActs
<1>. QED
  BY <1>1, RegistryInvariant, PTL DEF RegistrySpec, GoneStaysStopped

---------------------------------------------------------------------------
(* ContentionControl: the pacing stays within its bounds, and pressure     *)
(* never loosens it.                                                       *)

(* A cap is the minimum at least, or some worker never asks for more. *)
Justified(cap) ==
    cap = NoCap \/ cap >= MinBatch \/ \E w \in Batcher : cap >= Requested[w]

ContentionInv ==
    /\ ContentionTypeOK
    /\ Justified(shared.cap)
    /\ \A w \in Batcher : pace[w].size \in 1 .. Requested[w]

---------------------------------------------------------------------------
LEMMA Ordered ==
    ASSUME NEW a \in Int, NEW b \in Int
    PROVE  /\ Lesser(a, b) \in {a, b} /\ Lesser(a, b) <= a /\ Lesser(a, b) <= b
           /\ Greater(a, b) \in {a, b} /\ Greater(a, b) >= a /\ Greater(a, b) >= b
  BY DEF Lesser, Greater

(* A quotient of natural numbers is one. *)
LEMMA Quotient ==
    ASSUME NEW a \in Nat, NEW b \in Nat \ {0}
    PROVE  a \div b \in Nat
  OBVIOUS

(* The moving average is a natural number. *)
LEMMA AverageIsNat ==
    ASSUME NEW s \in SharedState, NEW ratio \in Nat
    PROVE  Rounded(Blend(s, ratio)) \in Nat
<1>1. AlphaInverse \in Nat \ {0} /\ s.ema \in Nat
  BY ContentionAssumption DEF SharedState
<1>2. Blend(s, ratio) \in Nat
  <2>1. ratio * AlphaInverse \in Nat
    BY <1>1
  <2>2. AlphaInverse - 1 \in Nat
    BY <1>1
  <2>3. s.ema * (AlphaInverse - 1) \in Nat
    BY <1>1, <2>2
  <2>4. s.ema * (AlphaInverse - 1) + ratio \in Nat
    BY <2>3
  <2>. QED
    BY <2>1, <2>4 DEF Blend
<1>3. 2 * Blend(s, ratio) + AlphaInverse \in Nat /\ 2 * AlphaInverse \in Nat \ {0}
  BY <1>1, <1>2
<1>. QED
  BY <1>3, Quotient DEF Rounded

(* A cap that is reduced. *)
LEMMA Reduced ==
    ASSUME NEW s \in SharedState, NEW w \in Batcher
    PROVE  LET cap == ReduceBatchCap(s, Requested[w])
           IN  /\ cap \in Nat /\ Justified(cap)
               /\ s.cap \notin {NoCap, 0} => cap <= Greater(s.cap, MinBatch)
<1>. DEFINE starting == IF s.cap \in {NoCap, 0} THEN Requested[w] ELSE s.cap
            half == starting \div 2
            cap == Lesser(Greater(MinBatch, half), Requested[w])
<1>1. /\ Requested[w] \in Nat /\ MinBatch \in Nat
      /\ s.cap \in Nat \cup {NoCap} /\ NoCap \in Int
  BY ContentionAssumption DEF SharedState, NoCap
<1>2. starting \in Nat
  BY <1>1
<1>. HIDE DEF starting
<1>3. half \in Nat /\ half <= starting
  BY <1>2
<1>. HIDE DEF half
<1>4. /\ Greater(MinBatch, half) \in {MinBatch, half}
      /\ Greater(MinBatch, half) >= MinBatch
  BY <1>1, <1>3, Ordered
<1>5. /\ cap \in {Greater(MinBatch, half), Requested[w]}
      /\ cap <= Greater(MinBatch, half) /\ cap <= Requested[w]
  BY <1>1, <1>3, <1>4, Ordered
<1>6. cap \in Nat
  BY <1>1, <1>3, <1>4, <1>5
<1>7. Justified(cap)
  BY <1>1, <1>4, <1>5 DEF Justified
<1>8. s.cap \notin {NoCap, 0} => cap <= Greater(s.cap, MinBatch)
  <2>1. SUFFICES ASSUME s.cap \notin {NoCap, 0}
                 PROVE  cap <= Greater(s.cap, MinBatch)
    OBVIOUS
  <2>2. s.cap \in Nat /\ half <= s.cap
    BY <1>1, <1>3, <2>1 DEF starting
  <2>3. Greater(s.cap, MinBatch) >= s.cap /\ Greater(s.cap, MinBatch) >= MinBatch
        /\ Greater(s.cap, MinBatch) \in Nat
    BY <1>1, <2>2, Ordered
  <2>. HIDE DEF cap
  <2>. QED
    BY <1>1, <1>3, <1>4, <1>5, <1>6, <2>2, <2>3
<1>. QED
  BY <1>6, <1>7, <1>8 DEF ReduceBatchCap, half, starting

(* What is merged into a state that is within its bounds is so. *)
LEMMA Merged ==
    ASSUME NEW s \in SharedState, Justified(s.cap), NEW ratio \in Nat, NEW w \in Batcher
    PROVE  LET next == NextShared(s, ratio, Requested[w])
           IN  next \in SharedState /\ Justified(next.cap)
<1>. DEFINE next == NextShared(s, ratio, Requested[w])
            ema == Rounded(Blend(s, ratio))
<1>1. /\ s.sleep \in 0 .. MaxSleep /\ s.cap \in Nat \cup {NoCap}
      /\ s.streak \in 0 .. RecoveryWindows - 1
      /\ Requested[w] \in Nat /\ BatchGrowth \in Nat /\ MinBatch \in Nat
      /\ SleepStep \in Nat /\ MaxSleep \in Nat /\ RecoveryWindows \in Nat \ {0}
      /\ \A v \in Batcher : Requested[v] \in Nat
  BY ContentionAssumption DEF SharedState
<1>2. ema \in Nat
  BY AverageIsNat
<1>. HIDE DEF ema
<1>3. CASE High(s, ratio)
  <2>1. next = [ema |-> ema, sleep |-> IncreaseSleep(s),
                cap |-> ReduceBatchCap(s, Requested[w]), streak |-> 0, stale |-> FALSE]
    BY <1>3 DEF NextShared, ema
  <2>2. IncreaseSleep(s) \in 0 .. MaxSleep
    BY <1>1, Ordered DEF IncreaseSleep
  <2>. QED
    BY <1>1, <1>2, <2>1, <2>2, Reduced DEF SharedState
<1>4. CASE ~ High(s, ratio) /\ ratio > LowRatio
  <2>1. next = [s EXCEPT !.ema = ema, !.streak = 0]
    BY <1>4, ContentionAssumption DEF NextShared, ema
  <2>2. next \in SharedState /\ next.cap = s.cap
    <3>1. 0 \in 0 .. RecoveryWindows - 1
      BY <1>1
    <3>2. [s EXCEPT !.ema = ema, !.streak = 0] \in SharedState
      BY <1>2, <3>1 DEF SharedState
    <3>3. [s EXCEPT !.ema = ema, !.streak = 0].cap = s.cap
      BY DEF SharedState
    <3>. HIDE DEF next
    <3>. QED
      BY <2>1, <3>2, <3>3
  <2>. QED
    BY <2>2
<1>5. CASE ~ High(s, ratio) /\ ratio <= LowRatio /\ s.streak + 1 < RecoveryWindows
  <2>1. next = [s EXCEPT !.ema = ema, !.streak = s.streak + 1]
    BY <1>5, ContentionAssumption DEF NextShared, ema
  <2>2. s.streak + 1 \in 0 .. RecoveryWindows - 1
    BY <1>1, <1>5
  <2>3. next \in SharedState /\ next.cap = s.cap
    BY <1>1, <1>2, <2>1, <2>2 DEF SharedState
  <2>. QED
    BY <2>3
<1>6. CASE ~ High(s, ratio) /\ ~ (ratio > LowRatio)
           /\ ~ (ratio <= LowRatio /\ s.streak + 1 < RecoveryWindows)
  <2>1. next = [ema |-> ema, sleep |-> Greater(0, s.sleep - SleepStep),
                cap |-> RelaxBatchCap(s, Requested[w]), streak |-> 0, stale |-> FALSE]
    BY <1>6 DEF NextShared, ema
  <2>2. Greater(0, s.sleep - SleepStep) \in 0 .. MaxSleep
    BY <1>1, Ordered
  <2>3. /\ RelaxBatchCap(s, Requested[w]) \in Nat \cup {NoCap}
        /\ Justified(RelaxBatchCap(s, Requested[w]))
    <3>1. CASE RelaxBatchCap(s, Requested[w]) = NoCap
      BY <3>1 DEF Justified
    <3>2. CASE s.cap # NoCap /\ RelaxBatchCap(s, Requested[w]) = s.cap + BatchGrowth
      <4>1. s.cap \in Nat /\ s.cap + BatchGrowth \in Nat /\ s.cap + BatchGrowth >= s.cap
        BY <1>1, <3>2
      <4>2. Justified(s.cap + BatchGrowth)
        BY <1>1, <3>2, <4>1 DEF Justified
      <4>. QED
        BY <3>2, <4>1, <4>2
    <3>. QED
      BY <3>1, <3>2 DEF RelaxBatchCap
  <2>. QED
    BY <1>1, <1>2, <2>1, <2>2, <2>3 DEF SharedState
<1>. QED
  BY <1>1, <1>3, <1>4, <1>5, <1>6, ContentionAssumption

(* What is worked with when the state is stale is within its bounds too. *)
LEMMA NormalizedIsState ==
    ASSUME ContentionInv
    PROVE  Normalized \in SharedState /\ Justified(Normalized.cap)
  BY ContentionAssumption
     DEF ContentionInv, ContentionTypeOK, Normalized, Baseline, SharedState, Justified

(* Whatever the cap, a worker gets a batch that it can work with. *)
LEMMA SizeInBounds ==
    ASSUME NEW w \in Batcher, NEW cap \in Nat \cup {NoCap}
    PROVE  SizeFor(w, cap) \in 1 .. Requested[w]
<1>1. Requested[w] \in Nat \ {0}
  BY ContentionAssumption
<1>2. CASE cap = NoCap \/ cap >= Requested[w]
  BY <1>1, <1>2 DEF SizeFor
<1>3. CASE cap # NoCap /\ ~ (cap >= Requested[w])
  <2>1. cap \in Nat /\ cap < Requested[w]
    BY <1>1, <1>3
  <2>2. Greater(1, cap) \in 1 .. Requested[w]
    BY <1>1, <2>1 DEF Greater
  <2>. QED
    BY <1>3, <2>2 DEF SizeFor
<1>. QED
  BY <1>2, <1>3

(* Every step keeps the pacing within its bounds. *)
LEMMA ContentionStep ==
    ASSUME ContentionInv, [ContentionNext]_contentionVars
    PROVE  ContentionInv'
<1>0. /\ shared \in SharedState /\ pace \in [Batcher -> Pace] /\ lastRatio \in Nat
  BY DEF ContentionInv, ContentionTypeOK
<1>1. ASSUME NEW w \in Batcher, AskDirective(w)
      PROVE  ContentionInv'
  <2>1. PICK sleep, cap :
            /\ pace' = [pace EXCEPT ![w] =
                   [pc |-> "work", sleep |-> sleep, size |-> SizeFor(w, cap)]]
            /\ sleep \in 0 .. MaxSleep /\ cap \in Nat \cup {NoCap}
    <3>1. CASE pace' = [pace EXCEPT ![w] =
              [pc |-> "work", sleep |-> Normalized.sleep,
               size |-> SizeFor(w, Normalized.cap)]]
      BY <3>1, NormalizedIsState DEF SharedState
    <3>2. CASE pace' = [pace EXCEPT ![w] =
              [pc |-> "work", sleep |-> MaxSleep,
               size |-> SizeFor(w, Lesser(Requested[w], MinBatch))]]
      <4>1. Lesser(Requested[w], MinBatch) \in Nat /\ MaxSleep \in 0 .. MaxSleep
        BY ContentionAssumption DEF Lesser
      <4>. QED
        BY <3>2, <4>1
    <3>. QED
      BY <1>1, <3>1, <3>2 DEF AskDirective
  <2>2. SizeFor(w, cap) \in 1 .. Requested[w] /\ SizeFor(w, cap) \in Nat
    BY <2>1, SizeInBounds, ContentionAssumption
  <2>3. [pc |-> "work", sleep |-> sleep, size |-> SizeFor(w, cap)] \in Pace
    BY <2>1, <2>2 DEF Pace
  <2>4. UNCHANGED <<shared, lastRatio>>
    BY <1>1 DEF AskDirective
  <2>. QED
    BY <1>0, <2>1, <2>2, <2>3, <2>4 DEF ContentionInv, ContentionTypeOK, Justified
<1>2. ASSUME NEW w \in Batcher, NEW ratio \in Ratio, Submit(w, ratio)
      PROVE  ContentionInv'
  <2>1. /\ shared' = NextShared(Normalized, ratio, Requested[w])
        /\ lastRatio' = ratio
        /\ pace' = [pace EXCEPT ![w].pc = "ask"]
    BY <1>2 DEF Submit
  <2>2. ratio \in Nat
    BY ContentionAssumption
  <2>3. shared' \in SharedState /\ Justified(shared'.cap)
    BY <2>1, <2>2, NormalizedIsState, Merged
  <2>4. pace' \in [Batcher -> Pace] /\ \A v \in Batcher : pace'[v].size = pace[v].size
    BY <1>0, <2>1 DEF Pace
  <2>. QED
    BY <2>1, <2>2, <2>3, <2>4 DEF ContentionInv, ContentionTypeOK, Justified
<1>3. ASSUME NEW w \in Batcher, SubmitFails(w)
      PROVE  ContentionInv'
  <2>1. pace' \in [Batcher -> Pace] /\ \A v \in Batcher : pace'[v].size = pace[v].size
    BY <1>0, <1>3 DEF SubmitFails, Pace
  <2>. QED
    BY <1>3, <2>1 DEF SubmitFails, ContentionInv, ContentionTypeOK, Justified
<1>4. CASE PacingAges
  <2>1. shared' \in SharedState /\ shared'.cap = shared.cap /\ UNCHANGED <<pace, lastRatio>>
    BY <1>0, <1>4 DEF PacingAges, SharedState
  <2>. QED
    BY <2>1 DEF ContentionInv, ContentionTypeOK, Justified
<1>5. CASE UNCHANGED contentionVars
  BY <1>5 DEF contentionVars, ContentionInv, ContentionTypeOK, Justified
<1>. QED
  BY <1>1, <1>2, <1>3, <1>4, <1>5 DEF ContentionNext

(* Whatever the fairness, the shared row and the directives keep their types, *)
(* and a cap its justification.                                            *)
LEMMA ContentionInvariant ==
    ContentionInit /\ [][ContentionNext]_contentionVars => []ContentionInv
<1>1. ContentionInit => ContentionInv
  BY ContentionAssumption
     DEF ContentionInit, ContentionInv, ContentionTypeOK, SharedState, Pace,
         Baseline, Justified
<1>. QED
  BY <1>1, ContentionStep, PTL

(* The sleep, the cap and every batch stay within their bounds, for any    *)
(* workers, batch sizes and ratios. *)
THEOREM PacingInBounds == ContentionSpec => []PacingBounded
<1>1. ContentionInv => PacingBounded
  BY ContentionAssumption
     DEF ContentionInv, ContentionTypeOK, SharedState, Pace, PacingBounded, Justified
<1>. QED
  BY <1>1, ContentionInvariant, PTL DEF ContentionSpec

---------------------------------------------------------------------------
(* An observation above the high ratio neither shortens the sleep nor      *)
(* raises a cap past the minimum, for any workers and batch sizes. *)
THEOREM PressureTightens == ContentionSpec => PressureNeverLoosens
<1>. DEFINE Tighter ==
        (lastRatio' > HighRatio /\ shared' # shared /\ ~ shared.stale /\ ~ shared'.stale) =>
            /\ shared'.sleep >= shared.sleep
            /\ shared.cap # NoCap => shared'.cap <= Greater(shared.cap, MinBatch)
<1>1. ASSUME ContentionInv, [ContentionNext]_contentionVars
      PROVE  [Tighter]_contentionVars
  <2>. SUFFICES ASSUME ContentionNext, lastRatio' > HighRatio, shared' # shared,
                       ~ shared.stale, ~ shared'.stale
                PROVE  /\ shared'.sleep >= shared.sleep
                       /\ shared.cap # NoCap =>
                              shared'.cap <= Greater(shared.cap, MinBatch)
    BY <1>1
  <2>1. PICK w \in Batcher, ratio \in Ratio : Submit(w, ratio)
    <3>1. PacingAges => shared'.stale
      BY <1>1 DEF PacingAges, ContentionInv, ContentionTypeOK, SharedState
    <3>. QED
      BY <3>1 DEF ContentionNext, AskDirective, SubmitFails
  <2>2. /\ shared \in SharedState /\ Normalized = shared
        /\ shared' = NextShared(shared, ratio, Requested[w]) /\ ratio > HighRatio
    BY <1>1, <2>1 DEF Submit, Normalized, ContentionInv, ContentionTypeOK
  <2>3. /\ shared'.sleep = IncreaseSleep(shared)
        /\ shared'.cap = ReduceBatchCap(shared, Requested[w])
    BY <2>2 DEF NextShared, High
  <2>4. shared'.sleep >= shared.sleep
    BY <2>2, <2>3, ContentionAssumption DEF IncreaseSleep, Lesser, SharedState
  <2>5. ASSUME shared.cap # NoCap
        PROVE  shared'.cap <= Greater(shared.cap, MinBatch)
    <3>1. shared.cap # 0
      BY <1>1, <2>2, <2>5, ContentionAssumption DEF ContentionInv, Justified, SharedState
    <3>. QED
      BY <2>2, <2>3, <2>5, <3>1, Reduced
  <2>. QED
    BY <2>4, <2>5
<1>. QED
  BY <1>1, ContentionInvariant, PTL DEF ContentionSpec, PressureNeverLoosens

---------------------------------------------------------------------------
(* StorageSettings: after a change that met no other one, the history      *)
(* agrees with the settings in force.                                      *)

(* What was committed, and what is open, has its time. *)
TimesPast ==
    /\ \A r \in settings : r.at < now
    /\ \A c \in Client : Open(c) => change[c].at < now

(* A change that meets no other one comes after all that was committed,    *)
(* and clears all that is in the history. *)
AloneIsLast ==
    \A c \in Client : Open(c) /\ change[c].alone =>
        /\ \A d \in Client : Open(d) => d = c
        /\ \A r \in settings : r.at < change[c].at
        /\ change[c].pc # "clear" => change[c].cleared = Seen

SomeCurrent == settings # {} => Current # {}

InForce ==
    settled /\ settings # {} =>
        \E r \in settings : /\ Current = {r.payload.keys}
                            /\ \A s \in settings : s # r => s.at < r.at

SettingsInv == SettingsTypeOK /\ TimesPast /\ AloneIsLast /\ SomeCurrent /\ InForce

---------------------------------------------------------------------------
(* The rows, the history and the open changes keep their types, for any    *)
(* number of clients and settings. *)
THEOREM SettingsTypeCorrect == SettingsSpec => []SettingsTypeOK
<1>1. SettingsInit => SettingsTypeOK
  BY SettingsAssumption DEF SettingsInit, SettingsTypeOK, NoHistory, Change
<1>2. ASSUME SettingsTypeOK, [SettingsNext]_settingsVars
      PROVE  SettingsTypeOK'
  <2>. USE <1>2, SettingsAssumption DEF SettingsTypeOK
  <2>1. ASSUME NEW c \in Client, NEW p \in Payload, NEW by \in {"api", "bootstrap"},
               OpenChange(c, p, by)
        PROVE  SettingsTypeOK'
    <3>1. now \in 1 .. MaxUpdates /\ now' \in 1 .. MaxUpdates + 1
      BY <2>1 DEF OpenChange
    <3>2. \A a \in BOOLEAN : [pc |-> "clear", payload |-> p, by |-> by,
                              at |-> now, alone |-> a] \in Change
      BY <3>1 DEF Change
    <3>3. \A d \in Client : Open(d) => [change[d] EXCEPT !.alone = FALSE] \in Change
      <4>. SUFFICES ASSUME NEW d \in Client, Open(d)
                    PROVE  [change[d] EXCEPT !.alone = FALSE] \in Change
        OBVIOUS
      <4>1. CASE change[d] \in [pc : {"clear"}, payload : Payload,
                 by : {"api", "bootstrap"}, at : 1 .. MaxUpdates, alone : BOOLEAN]
        BY <4>1 DEF Change
      <4>2. CASE change[d] \in [pc : {"clearing", "upsert", "commit"}, payload : Payload,
                 by : {"api", "bootstrap"}, at : 1 .. MaxUpdates, alone : BOOLEAN,
                 cleared : SUBSET SettingsHash]
        BY <4>2 DEF Change
      <4>. QED
        BY <4>1, <4>2 DEF Change, Open, NoChange
    <3>4. change' \in [Client -> Change]
      BY <2>1, <3>2, <3>3 DEF OpenChange
    <3>. QED
      BY <2>1, <3>1, <3>4 DEF OpenChange
  <2>2. ASSUME NEW c \in Client, ClearBegins(c)
        PROVE  SettingsTypeOK'
    <3>. DEFINE t == [pc |-> "clearing", payload |-> change[c].payload,
                      by |-> change[c].by, at |-> change[c].at,
                      alone |-> change[c].alone, cleared |-> Seen]
    <3>1. t \in Change
      BY <2>2 DEF ClearBegins, Change, NoChange, Seen
    <3>2. change' = [change EXCEPT ![c] = t]
      BY <2>2 DEF ClearBegins, ToClear
    <3>. HIDE DEF t
    <3>. QED
      BY <2>2, <3>1, <3>2 DEF ClearBegins
  <2>3. ASSUME NEW c \in Client, ClearEnds(c) \/ UpsertHistory(c)
        PROVE  SettingsTypeOK'
    <3>1. PICK pc \in {"upsert", "commit"} : change' = [change EXCEPT ![c].pc = pc]
      BY <2>3 DEF ClearEnds, UpsertHistory
    <3>2. [change[c] EXCEPT !.pc = pc] \in Change
      BY <2>3 DEF ClearEnds, UpsertHistory, Change, NoChange
    <3>. QED
      BY <2>3, <3>1, <3>2 DEF ClearEnds, UpsertHistory
  <2>4. ASSUME NEW c \in Client, CommitChange(c)
        PROVE  SettingsTypeOK'
    <3>1. /\ change[c].payload \in Payload /\ change[c].at \in 1 .. MaxUpdates
          /\ change[c].by \in {"api", "bootstrap"} /\ change[c].alone \in BOOLEAN
      BY <2>4 DEF CommitChange, Change, NoChange
    <3>2. settings' \subseteq SettingsRow
      BY <2>4, <3>1 DEF CommitChange, SettingsRow
    <3>3. ASSUME NEW k \in SettingsHash
          PROVE  Recorded(c, k) \in
                    [state : {"absent", "old", "current"},
                     metrics : {0} \cup {p.metrics : p \in Payload}]
      BY <3>1 DEF Recorded, Refreshed
    <3>4. change' \in [Client -> Change]
      BY <2>4 DEF CommitChange, Change
    <3>. QED
      BY <2>4, <3>1, <3>2, <3>3, <3>4 DEF CommitChange
  <2>5. ASSUME NEW c \in Client, AbortChange(c)
        PROVE  SettingsTypeOK'
    BY <2>5 DEF AbortChange, Change
  <2>6. CASE UNCHANGED settingsVars
    BY <2>6 DEF settingsVars
  <2>. QED
    BY <2>1, <2>2, <2>3, <2>4, <2>5, <2>6
       DEF SettingsNext, UpdateSettings, BootstrapSettings
<1>. QED
  BY <1>1, <1>2, PTL DEF SettingsSpec

---------------------------------------------------------------------------
(* A step that commits nothing, and opens nothing, keeps the invariant. *)
LEMMA NothingCommitted ==
    ASSUME SettingsTypeOK, SettingsInv, NEW c \in Client,
           UNCHANGED <<settings, history, now, settled>>,
           \A d \in Client \ {c} : change'[d] = change[d],
           Open(c)' => /\ Open(c)
                       /\ change'[c].at = change[c].at
                       /\ change'[c].alone = change[c].alone
                       /\ change'[c].pc # "clear" =>
                             change'[c].cleared = IF change[c].pc = "clear" THEN Seen
                                                  ELSE change[c].cleared,
           SettingsTypeOK'
    PROVE  SettingsInv'
<1>1. TimesPast'
  BY DEF SettingsInv, TimesPast, Open
<1>2. AloneIsLast'
  BY DEF SettingsInv, AloneIsLast, Open, Seen
<1>3. SomeCurrent' /\ InForce'
  BY DEF SettingsInv, SomeCurrent, InForce, Current
<1>. QED
  BY <1>1, <1>2, <1>3 DEF SettingsInv

(* Every step keeps the invariant. *)
LEMMA SettingsStep ==
    ASSUME SettingsInv, SettingsTypeOK', [SettingsNext]_settingsVars
    PROVE  SettingsInv'
<1>0. /\ SettingsTypeOK
      /\ change \in [Client -> Change]
      /\ \A r \in settings : r.at \in Int
      /\ now \in Int
      /\ \A c \in Client : Open(c) => change[c].at \in Int
  <2>1. SettingsTypeOK
    BY DEF SettingsInv
  <2>2. change \in [Client -> Change] /\ now \in Int
    BY <2>1, SettingsAssumption DEF SettingsTypeOK
  <2>3. \A r \in settings : r.at \in Int
    BY <2>1, SettingsAssumption DEF SettingsTypeOK, SettingsRow
  <2>4. \A x \in Change : x.pc # "none" => x.at \in Int
    BY SettingsAssumption DEF Change, NoChange
  <2>. QED
    BY <2>1, <2>2, <2>3, <2>4 DEF Open
<1>1. ASSUME NEW c \in Client, NEW p \in Payload, NEW by \in {"api", "bootstrap"},
             OpenChange(c, p, by)
      PROVE  SettingsInv'
  <2>. DEFINE alone == \A d \in Client : ~ Open(d)
  <2>1. /\ now' = now + 1 /\ UNCHANGED <<settings, history, settled>>
        /\ ~ Open(c)
        /\ change'[c] = [pc |-> "clear", payload |-> p, by |-> by,
                         at |-> now, alone |-> alone]
    BY <1>0, <1>1 DEF OpenChange
  <2>2. ASSUME NEW d \in Client \ {c}
        PROVE  /\ Open(d)' = Open(d)
               /\ Open(d) => change'[d].at = change[d].at /\ change'[d].alone = FALSE
    <3>1. change'[d] = IF Open(d) THEN [change[d] EXCEPT !.alone = FALSE]
                                  ELSE change[d]
      BY <1>0, <1>1 DEF OpenChange
    <3>. QED
      BY <1>0, <3>1 DEF Open, Change, NoChange
  <2>3. /\ change'[c].pc = "clear" /\ change'[c].at = now
        /\ change'[c].alone = alone
    BY <2>1
  <2>. HIDE DEF alone
  <2>4. TimesPast'
    <3>1. \A r \in settings' : r.at < now'
      BY <1>0, <2>1 DEF SettingsInv, TimesPast
    <3>2. \A d \in Client \ {c} : Open(d)' => change'[d].at < now'
      <4>. SUFFICES ASSUME NEW d \in Client \ {c}, Open(d)'
                    PROVE  change'[d].at < now'
        OBVIOUS
      <4>1. Open(d) /\ change'[d].at = change[d].at
        BY <2>2
      <4>2. change[d].at < now
        BY <4>1 DEF SettingsInv, TimesPast
      <4>. QED
        BY <1>0, <2>1, <4>1, <4>2
    <3>3. change'[c].at < now'
      BY <1>0, <2>1, <2>3
    <3>. QED
      BY <3>1, <3>2, <3>3 DEF TimesPast
  <2>5. AloneIsLast'
    <3>. SUFFICES ASSUME NEW d \in Client, Open(d)', change'[d].alone
                  PROVE  /\ \A e \in Client : Open(e)' => e = d
                         /\ \A r \in settings' : r.at < change'[d].at
                         /\ change'[d].pc # "clear" => change'[d].cleared = Seen'
      BY DEF AloneIsLast
    <3>1. d = c
      BY <2>2
    <3>2. \A e \in Client \ {c} : ~ Open(e)'
      BY <2>2, <2>3, <3>1 DEF alone
    <3>. QED
      BY <2>1, <2>3, <3>1, <3>2 DEF SettingsInv, TimesPast
  <2>6. SomeCurrent' /\ InForce'
    BY <2>1 DEF SettingsInv, SomeCurrent, InForce, Current
  <2>. QED
    BY <2>4, <2>5, <2>6 DEF SettingsInv
<1>2. ASSUME NEW c \in Client, ClearBegins(c)
      PROVE  SettingsInv'
  <2>1. /\ change[c].pc = "clear"
        /\ change'[c].at = change[c].at /\ change'[c].alone = change[c].alone
        /\ change'[c].cleared = Seen
        /\ \A d \in Client \ {c} : change'[d] = change[d]
        /\ UNCHANGED <<settings, history, now, settled>>
    BY <1>0, <1>2 DEF ClearBegins, ToClear
  <2>. QED
    BY <1>0, <2>1, NothingCommitted DEF Open
<1>3. ASSUME NEW c \in Client, ClearEnds(c) \/ UpsertHistory(c)
      PROVE  SettingsInv'
  <2>1. PICK pc \in {"upsert", "commit"} : change' = [change EXCEPT ![c].pc = pc]
    BY <1>3 DEF ClearEnds, UpsertHistory
  <2>2. change[c].pc \in {"clearing", "upsert"}
    BY <1>3 DEF ClearEnds, UpsertHistory
  <2>3. /\ change'[c].at = change[c].at /\ change'[c].alone = change[c].alone
        /\ change'[c].cleared = change[c].cleared
        /\ \A d \in Client \ {c} : change'[d] = change[d]
        /\ UNCHANGED <<settings, history, now, settled>>
    BY <1>0, <1>3, <2>1 DEF ClearEnds, UpsertHistory
  <2>. QED
    BY <1>0, <2>2, <2>3, NothingCommitted DEF Open
<1>4. ASSUME NEW c \in Client, AbortChange(c)
      PROVE  SettingsInv'
  <2>1. /\ ~ Open(c)'
        /\ \A d \in Client \ {c} : change'[d] = change[d]
        /\ UNCHANGED <<settings, history, now, settled>>
    BY <1>0, <1>4 DEF AbortChange, Open, NoChange
  <2>. QED
    BY <1>0, <2>1, NothingCommitted
<1>5. ASSUME NEW c \in Client, CommitChange(c)
      PROVE  SettingsInv'
  <2>. DEFINE t == change[c]
              row == [payload |-> t.payload, at |-> t.at, by |-> t.by]
  <2>1. /\ Open(c) /\ t.pc = "commit" /\ ~ Open(c)'
        /\ \A d \in Client \ {c} : change'[d] = change[d]
        /\ settings' = settings \cup {row}
        /\ history' = [k \in SettingsHash |-> Recorded(c, k)]
        /\ settled' = t.alone /\ UNCHANGED now
    BY <1>0, <1>5 DEF CommitChange, Open, NoChange
  <2>2. t.payload \in Payload /\ t.payload.keys \in SettingsHash
    BY <1>0, <2>1 DEF Change, NoChange, SettingsHash
  <2>3. history'[t.payload.keys].state = "current"
    BY <1>0, <2>1, <2>2 DEF Recorded, Refreshed, SettingsTypeOK
  <2>4. SomeCurrent'
    BY <2>2, <2>3 DEF SomeCurrent, Current
  <2>5. row.at = t.at /\ row.payload = t.payload
    OBVIOUS
  <2>6. InForce'
    <3>. SUFFICES ASSUME t.alone PROVE InForce'
      BY <2>1 DEF InForce
    <3>1. t.cleared = Seen /\ \A r \in settings : r.at < t.at
      BY <2>1 DEF SettingsInv, AloneIsLast
    <3>2. ASSUME NEW k \in SettingsHash, k # t.payload.keys
          PROVE  history'[k].state # "current"
      BY <1>0, <2>1, <3>1, <3>2 DEF Recorded, Seen, SettingsTypeOK
    <3>3. Current' = {t.payload.keys}
      BY <2>2, <2>3, <3>2 DEF Current
    <3>4. \A s \in settings' : s # row => s.at < row.at
      BY <2>1, <2>5, <3>1
    <3>. QED
      BY <2>1, <2>5, <3>3, <3>4 DEF InForce
  <2>7. TimesPast'
    <3>. HIDE DEF row
    <3>1. t.at < now
      BY <2>1 DEF SettingsInv, TimesPast
    <3>2. \A d \in Client : Open(d)' => Open(d) /\ change'[d] = change[d]
      BY <2>1 DEF Open
    <3>. QED
      BY <2>1, <2>5, <3>1, <3>2 DEF SettingsInv, TimesPast
  <2>8. AloneIsLast'
    <3>. SUFFICES ASSUME NEW d \in Client, Open(d)', change'[d].alone
                  PROVE  FALSE
      BY DEF AloneIsLast
    <3>1. d # c /\ Open(d) /\ change[d].alone
      BY <2>1 DEF Open
    <3>. QED
      BY <2>1, <3>1 DEF SettingsInv, AloneIsLast
  <2>. QED
    BY <2>4, <2>6, <2>7, <2>8 DEF SettingsInv
<1>6. CASE UNCHANGED settingsVars
  <2>1. UNCHANGED <<settings, history, change, now, settled>>
    BY <1>6 DEF settingsVars
  <2>2. TimesPast' /\ AloneIsLast'
    BY <2>1 DEF SettingsInv, TimesPast, AloneIsLast, Seen, Open
  <2>3. SomeCurrent' /\ InForce'
    BY <2>1 DEF SettingsInv, SomeCurrent, InForce, Current
  <2>. QED
    BY <2>2, <2>3 DEF SettingsInv
<1>. QED
  BY <1>1, <1>2, <1>3, <1>4, <1>5, <1>6, SettingsAssumption
     DEF SettingsNext, UpdateSettings, BootstrapSettings

(* From the first change on some configuration is current, and after a     *)
(* change that met no other one it is the one in force, for any number of  *)
(* clients, however their changes overlapped and failed before. *)
THEOREM SettledAgrees == SettingsSpec => []SettledIsCurrent
<1>1. SettingsInit /\ SettingsTypeOK => SettingsInv
  BY DEF SettingsInit, SettingsInv, TimesPast, AloneIsLast, SomeCurrent, InForce,
         Open, NoChange
<1>2. SettingsInv => SettledIsCurrent
  <2>. SUFFICES ASSUME SettingsInv, settings # {}
                PROVE  Current # {} /\ (settled => Current = {Active.payload.keys})
    BY DEF SettledIsCurrent
  <2>1. Current # {}
    BY DEF SettingsInv, SomeCurrent
  <2>2. ASSUME settled PROVE Current = {Active.payload.keys}
    <3>1. PICK r \in settings : /\ Current = {r.payload.keys}
                                /\ \A s \in settings : s # r => s.at < r.at
      BY <2>2 DEF SettingsInv, InForce
    <3>2. \A s \in settings : s.at \in Int
      BY DEF SettingsInv, SettingsTypeOK, SettingsRow
    <3>3. \A s \in settings : s.at <= r.at
      BY <3>1, <3>2
    <3>4. \A x \in settings : (\A s \in settings : s.at <= x.at) => x = r
      BY <3>1, <3>2
    <3>5. Active = r
      BY <3>3, <3>4 DEF Active
    <3>. QED
      BY <3>1, <3>5
  <2>. QED
    BY <2>1, <2>2
<1>. QED
  BY <1>1, <1>2, SettingsStep, SettingsTypeCorrect, PTL DEF SettingsSpec

=============================================================================
