-------------------------- MODULE StorageSettings --------------------------
(***************************************************************************)
(* The storage settings of the instance: the rows of ct_instance_settings, *)
(* of which the latest is in force, and the history of the configurations  *)
(* that have been seen.  Written by the API (certsapi/settings), and on    *)
(* first use by the bootstrap (instance_settings.py).                      *)
(*                                                                         *)
(* READ COMMITTED: the update that clears is_current sees the rows that    *)
(* were committed when it began, and waits for those that are locked.      *)
(***************************************************************************)
EXTENDS Integers, FiniteSets

CONSTANTS
    Client,     \* requests and commands that run side by side
    Payload,    \* settings: [keys, metrics]; keys is what the hash covers
    Archive,    \* the payloads of the archive profile
    Bootstrap,  \* the payload of the environment
    MaxUpdates  \* bound: times that are taken for updated_at

ASSUME SettingsAssumption ==
    Archive \subseteq Payload /\ Bootstrap \in Payload /\ MaxUpdates \in Nat

VARIABLES
    settings,  \* rows of ct_instance_settings
    history,   \* ct_storage_profile_history, by settings_hash
    change,    \* the transaction of each client
    now,       \* datetime.now()
    settled    \* history: the last change to commit met no other one

settingsVars == <<settings, history, change, now, settled>>

---------------------------------------------------------------------------
SettingsHash == {p.keys : p \in Payload}

SettingsRow == [payload : Payload, at : 1 .. MaxUpdates,
                by : {"api", "bootstrap"}]

NoHistory == [state |-> "absent", metrics |-> 0]

NoChange == [pc |-> "none"]

Change ==
    {NoChange}
    \cup [pc : {"clear"}, payload : Payload, by : {"api", "bootstrap"},
          at : 1 .. MaxUpdates, alone : BOOLEAN]
    \cup [pc : {"clearing", "upsert", "commit"}, payload : Payload,
          by : {"api", "bootstrap"}, at : 1 .. MaxUpdates, alone : BOOLEAN,
          cleared : SUBSET SettingsHash]

SettingsTypeOK ==
    /\ settings \subseteq SettingsRow
    /\ history \in [SettingsHash ->
          [state : {"absent", "old", "current"},
           metrics : {0} \cup {p.metrics : p \in Payload}]]
    /\ change \in [Client -> Change]
    /\ now \in 1 .. MaxUpdates + 1 /\ settled \in BOOLEAN

SettingsInit ==
    /\ settings = {}
    /\ history = [k \in SettingsHash |-> NoHistory]
    /\ change = [c \in Client |-> NoChange]
    /\ now = 1
    /\ settled = TRUE

(* get_active_settings *)
Active == CHOOSE r \in settings : \A s \in settings : s.at <= r.at

Seen == {k \in SettingsHash : history[k].state # "absent"}

Open(c) == change[c].pc # "none"

---------------------------------------------------------------------------
OpenChange(c, p, by) ==
    LET alone == \A d \in Client : ~ Open(d)
    IN  /\ ~ Open(c) /\ now <= MaxUpdates /\ now' = now + 1
        /\ change' = [d \in Client |->
               IF d = c THEN [pc |-> "clear", payload |-> p, by |-> by,
                              at |-> now, alone |-> alone]
               ELSE IF Open(d) THEN [change[d] EXCEPT !.alone = FALSE]
               ELSE change[d]]
        /\ UNCHANGED <<settings, history, settled>>

(* SettingsService.update_settings, to the flush of the new row *)
UpdateSettings(c, p) ==
    \E archive_explicit_optin \in BOOLEAN :
        /\ p \in Archive => archive_explicit_optin
        /\ OpenChange(c, p, "api")

(* bootstrap_settings_from_env *)
BootstrapSettings(c) == settings = {} /\ OpenChange(c, Bootstrap, "bootstrap")

(* Fault: the other rows keep the flag. *)
OwnRowOnly(c) == Seen \cap {change[c].payload.keys}

(* The rows the update sees *)
ToClear(c) == Seen

ClearBegins(c) ==
    /\ change[c].pc = "clear"
    /\ change' = [change EXCEPT ![c] =
           [pc |-> "clearing", payload |-> @.payload, by |-> @.by, at |-> @.at,
            alone |-> @.alone, cleared |-> ToClear(c)]]
    /\ UNCHANGED <<settings, history, now, settled>>

(* The rows that are locked, or inserted, by a change. *)
Holds(c) == CASE change[c].pc = "upsert" -> change[c].cleared
              [] change[c].pc = "commit" ->
                     change[c].cleared \cup {change[c].payload.keys}
              [] OTHER -> {}

NotHeld(c, keys) == \A d \in Client \ {c} : Holds(d) \cap keys = {}

ClearEnds(c) ==
    /\ change[c].pc = "clearing" /\ NotHeld(c, change[c].cleared)
    /\ change' = [change EXCEPT ![c].pc = "upsert"]
    /\ UNCHANGED <<settings, history, now, settled>>

(* The insert waits for another one of the same hash. *)
UpsertHistory(c) ==
    /\ change[c].pc = "upsert" /\ NotHeld(c, {change[c].payload.keys})
    /\ change' = [change EXCEPT ![c].pc = "commit"]
    /\ UNCHANGED <<settings, history, now, settled>>

(* Fault: a row that exists only has its last_seen_at renewed. *)
SeenAgain(h) == [h EXCEPT !.state = "old"]

(* on_conflict_do_update *)
Refreshed(h) == [h EXCEPT !.state = "current"]

Recorded(c, k) ==
    LET t == change[c]
    IN  CASE k # t.payload.keys /\ k \in t.cleared ->
                 [history[k] EXCEPT !.state = "old"]
          [] k # t.payload.keys /\ k \notin t.cleared -> history[k]
          [] k = t.payload.keys /\ k \in Seen -> Refreshed(history[k])
          [] k = t.payload.keys /\ k \notin Seen ->
                 [state |-> "current", metrics |-> t.payload.metrics]

CommitChange(c) ==
    LET t == change[c]
    IN  /\ t.pc = "commit"
        /\ settings' = settings \cup {[payload |-> t.payload, at |-> t.at,
                                       by |-> t.by]}
        /\ history' = [k \in SettingsHash |-> Recorded(c, k)]
        /\ change' = [change EXCEPT ![c] = NoChange]
        /\ settled' = t.alone
        /\ UNCHANGED now

(* The request fails, or its process is gone. *)
AbortChange(c) ==
    /\ Open(c)
    /\ change' = [change EXCEPT ![c] = NoChange]
    /\ UNCHANGED <<settings, history, now, settled>>

SettingsNext ==
    \E c \in Client :
        \/ \E p \in Payload : UpdateSettings(c, p)
        \/ BootstrapSettings(c)
        \/ ClearBegins(c) \/ ClearEnds(c) \/ UpsertHistory(c)
        \/ CommitChange(c) \/ AbortChange(c)

SettingsSpec == SettingsInit /\ [][SettingsNext]_settingsVars

---------------------------------------------------------------------------
(* Properties *)

Current == {k \in SettingsHash : history[k].state = "current"}

(* From the first change on some configuration is current, also between    *)
(* changes that overlap and after those that fail; and after a change that *)
(* met no other one, whatever overlapping changes left before it, the one  *)
(* current row of the history is the settings in force.                    *)
SettledIsCurrent ==
    settings # {} =>
        /\ Current # {}
        /\ settled => Current = {Active.payload.keys}
=============================================================================
