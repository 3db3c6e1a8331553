--------------------------- MODULE ServicesProofs ---------------------------
(***************************************************************************)
(* The composition of the services implements each of them: every behaviour*)
(* of MCServices is one of every component, so that what is proved of the  *)
(* components holds beside each other.  None of it depends on the values   *)
(* MCServices gives to the constants of its run.                           *)
(***************************************************************************)
EXTENDS MCServices, EntryStoreProofs, OperationsProofs, ReportingProofs

---------------------------------------------------------------------------
(* A step is one of the component that moves and leaves the others alone.  *)
LEMMA EachStep ==
    ASSUME [Next]_vars
    PROVE  /\ [StoreNext]_storeVars /\ [ProfileNext]_profileVars
           /\ [RegistryNext]_registryVars /\ [SettingsNext]_settingsVars
           /\ [ContentionNext]_contentionVars /\ [PagingNext]_pagingVars
           /\ [SnapshotsNext]_snapshotVars /\ [MetricsNext]_metricsVars
           /\ UNCHANGED <<part, figures>>
<1>1. CASE Next
  BY <1>1, Zenon DEF Next, NotStore, NotProfile, NotRegistry, NotSettings,
             NotContention, NotPaging, NotSnapshots, NotMetrics
<1>2. CASE UNCHANGED vars
  BY <1>2 DEF vars
<1> QED
  BY <1>1, <1>2

(* The services side by side are a behaviour of each of them. *)
THEOREM ServicesImplement ==
    Spec => /\ StoreSpec /\ ProfileSpec /\ RegistrySpec /\ SettingsSpec
            /\ ContentionInit /\ [][ContentionNext]_contentionVars
            /\ PagingSpec /\ SnapshotsSpec /\ MetricsSpec
<1>1. Init => /\ StoreInit /\ ProfileInit /\ RegistryInit /\ SettingsInit
              /\ ContentionInit /\ PagingInit /\ SnapshotsInit /\ MetricsInit
  BY DEF Init
<1>2. [Next]_vars =>
         /\ [StoreNext]_storeVars /\ [ProfileNext]_profileVars
         /\ [RegistryNext]_registryVars /\ [SettingsNext]_settingsVars
         /\ [ContentionNext]_contentionVars /\ [PagingNext]_pagingVars
         /\ [SnapshotsNext]_snapshotVars /\ [MetricsNext]_metricsVars
  BY EachStep
<1> QED
  BY <1>1, <1>2, PTL DEF Spec, StoreSpec, ProfileSpec, RegistrySpec,
     SettingsSpec, PagingSpec, SnapshotsSpec, MetricsSpec

(* Every variable of every service keeps its type, for any values of the   *)
(* constants. *)
THEOREM ServicesTypeCorrect == Spec => []ServicesTypeOK
<1> DEFINE FiguresOK == part = "projection" => figures \in Figures
<1>1. Init => FiguresOK
  BY DEF Init, ProjectionInit
<1>2. FiguresOK /\ [Next]_vars => FiguresOK'
  BY EachStep
<1>3. Spec => []FiguresOK
  <2> HIDE DEF FiguresOK
  <2> QED
    BY <1>1, <1>2, PTL DEF Spec
<1>4. /\ RegistryInv => RegistryTypeOK
      /\ ContentionInv => ContentionTypeOK
      /\ WalkOn => PagingTypeOK
      /\ SnapshotsInv => SnapshotsTypeOK
      /\ MetricsInv => MetricsTypeOK
  BY DEF RegistryInv, ContentionInv, WalkOn, SnapshotsInv, MetricsInv
<1>5. /\ StoreTypeOK /\ ProfileTypeOK /\ RegistryTypeOK /\ SettingsTypeOK
      /\ ContentionTypeOK /\ PagingTypeOK /\ SnapshotsTypeOK /\ MetricsTypeOK
      /\ FiguresOK
      => ServicesTypeOK
  BY DEF ServicesTypeOK
<1> HIDE DEF FiguresOK
<1> QED
  BY <1>3, <1>4, <1>5, ServicesImplement, StoreTypeCorrect, ProfileTypeCorrect,
     RegistryInvariant, SettingsTypeCorrect, ContentionInvariant,
     PagingInvariant, SnapshotsInvariant, MetricsInvariant, PTL
(* What is proved of the services one by one holds beside each other: in   *)
(* particular no step of any of them breaks an invariant of another.       *)
THEOREM ServicesSafe ==
    Spec => /\ []StoredIsWhole /\ []LatestIsBest /\ []NoWaitCycle
            /\ []OneProfilePrune /\ []EnforcedMeansPruned /\ []SettledIsCurrent
            /\ []PacingBounded /\ []PagedOnce /\ []ServedFresh /\ []CountedOnce
            /\ PrunesOnlySuperseded /\ GoneStaysStopped
<1>1. ContentionInv => PacingBounded
  BY ContentionAssumption
     DEF ContentionInv, ContentionTypeOK, SharedState, Pace, PacingBounded, Justified
<1> QED
  BY <1>1, ServicesImplement, ContentionInvariant, StoredEntriesAreWhole,
     SummaryIsLatest, WorkersNeverDeadlock, PrunesApart, EnforcedIsTrue,
     SettledAgrees, SearchesArePagedOnce, ServedIsFresh, CertificatesCountedOnce,
     PrunedIsSuperseded, GoneStays, PTL
=============================================================================
