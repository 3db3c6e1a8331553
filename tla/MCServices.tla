----------------------------- MODULE MCServices -----------------------------
(* The components that share no rows with each other, model-checked in one *)
(* run: a behaviour is one of the component that `part` names, while the   *)
(* others rest in their initial state.                                     *)
EXTENDS EntryStore, ProfilePrune, WorkerRegistry, StorageSettings,
        ContentionControl, HostnamePaging, StatsSnapshots, StorageProjection,
        IngestionMetrics, TLC

VARIABLE part

vars == <<storeVars, profileVars, registryVars, settingsVars, contentionVars,
          pagingVars, snapshotVars, figures, metricsVars, part>>

Part == {"store", "profile", "registry", "settings", "contention", "paging",
         "snapshots", "projection", "metrics"}

(* The figures of no database. *)
NoFigures == CHOOSE f \in Figures : Planned(f) = {} /\ f.settings = <<>>

Init ==
    /\ part \in Part
    /\ StoreInit /\ ProfileInit /\ RegistryInit /\ SettingsInit
    /\ ContentionInit /\ PagingInit
    /\ SnapshotsInit /\ MetricsInit
    /\ part # "paging" => dated = [h \in HostId |-> NoRow]
    /\ IF part = "projection" THEN ProjectionInit ELSE figures = NoFigures

(* What the steps of one component leave alone. *)
NotStore      == UNCHANGED storeVars
NotProfile    == UNCHANGED profileVars
NotRegistry   == UNCHANGED registryVars
NotSettings   == UNCHANGED settingsVars
NotContention == UNCHANGED contentionVars
NotPaging     == UNCHANGED pagingVars
NotSnapshots  == UNCHANGED snapshotVars
NotMetrics    == UNCHANGED metricsVars

(* Every plan of the run has the certificates and a category after them;   *)
(* one of the invocations is the maintenance loop, which deletes, and the  *)
(* others are dry runs of operators.                                       *)
PlansRead ==
    LET loop == CHOOSE p \in Pruner : TRUE
    IN  \A p \in Pruner : pruner'[p].pc = "lock" =>
            /\ pruner'[p].left = Category
            /\ pruner'[p].mode = "execute" <=> p = loop

Next ==
    /\ UNCHANGED <<part, figures>>
    /\ \/ /\ part = "store" /\ StoreNext
          /\ NotProfile /\ NotRegistry /\ NotSettings /\ NotContention
          /\ NotPaging /\ NotSnapshots /\ NotMetrics
       \/ /\ part = "profile" /\ ProfileNext /\ PlansRead
          /\ NotStore /\ NotRegistry /\ NotSettings /\ NotContention
          /\ NotPaging /\ NotSnapshots /\ NotMetrics
       \/ /\ part = "registry" /\ RegistryNext
          /\ NotStore /\ NotProfile /\ NotSettings /\ NotContention
          /\ NotPaging /\ NotSnapshots /\ NotMetrics
       \/ /\ part = "settings" /\ SettingsNext
          /\ NotStore /\ NotProfile /\ NotRegistry /\ NotContention
          /\ NotPaging /\ NotSnapshots /\ NotMetrics
       \/ /\ part = "contention" /\ ContentionNext
          /\ NotStore /\ NotProfile /\ NotRegistry /\ NotSettings
          /\ NotPaging /\ NotSnapshots /\ NotMetrics
       \/ /\ part = "paging" /\ PagingNext
          /\ NotStore /\ NotProfile /\ NotRegistry /\ NotSettings
          /\ NotContention /\ NotSnapshots /\ NotMetrics
       \/ /\ part = "snapshots" /\ SnapshotsNext
          /\ NotStore /\ NotProfile /\ NotRegistry /\ NotSettings
          /\ NotContention /\ NotPaging /\ NotMetrics
       \/ /\ part = "metrics" /\ MetricsNext
          /\ NotStore /\ NotProfile /\ NotRegistry /\ NotSettings
          /\ NotContention /\ NotPaging /\ NotSnapshots

(* The conditions of the registry ask nothing of a registry that rests; a  *)
(* worker's next batch is always possible, so those of the pacing are for  *)
(* its own part. *)
Spec == /\ Init /\ [][Next]_vars
        /\ RegistryFairness
        /\ part = "contention" => ContentionFairness

---------------------------------------------------------------------------
(* The variables of every component have the values its program gives them. *)
ServicesTypeOK ==
    /\ StoreTypeOK /\ ProfileTypeOK /\ RegistryTypeOK /\ SettingsTypeOK
    /\ ContentionTypeOK /\ PagingTypeOK /\ SnapshotsTypeOK /\ MetricsTypeOK
    /\ part = "projection" => figures \in Figures

---------------------------------------------------------------------------
(* The parameters of the run *)

MCCert(fp, notAfter, names) ==
    [fp |-> fp, notAfter |-> notAfter, notBefore |-> 1, names |-> names]

(* Two certificates that differ in nothing but the fingerprint, and a      *)
(* renewal of one hostname. *)
MCEntry == {[index |-> 1, cert |-> MCCert(1, 1, {1, 2})],
            [index |-> 2, cert |-> MCCert(2, 1, {1, 2})],
            [index |-> 3, cert |-> MCCert(3, 2, {1})]}

(* Two configurations, one of them with two retentions of the metrics. *)
MCBootstrap == [keys |-> 1, metrics |-> 1]
MCArchive   == {[keys |-> 2, metrics |-> 1]}
MCPayload   == MCArchive \cup {MCBootstrap, [keys |-> 2, metrics |-> 2]}

(* One worker asks for large batches, the others for single entries. *)
MCRequested == [w \in Batcher |-> IF w = CHOOSE x \in Batcher : TRUE
                                  THEN 6 ELSE 1]

(* A range of a single entry, as a repair of one index makes, and a longer *)
(* one. *)
MCRangeLength == <<1, 3>>
=============================================================================
