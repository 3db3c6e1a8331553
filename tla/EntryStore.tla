----------------------------- MODULE EntryStore -----------------------------
(***************************************************************************)
(* How an entry of a log is stored (entry_persistence.py, writer.py,       *)
(* cert_writer.py, retry.py), beside the pruner of expired certificates    *)
(* (_cli_prune_impl.py) and the rebuild of the summaries of the hostnames  *)
(* (_cli_rebuild_impl.py).                                                 *)
(*                                                                         *)
(* The database is READ COMMITTED.  What a writer has changed is in its    *)
(* record until it commits, and the rows it has changed are locked: a      *)
(* hostname from its upsert on, a new certificate from its insert on.  An  *)
(* insert that refers to a certificate keeps it from being deleted.        *)
(***************************************************************************)
EXTENDS Integers, FiniteSets

CONSTANTS
    Writer,      \* ingestion workers
    Entry,       \* entries: [index, cert]
    Cutoff,      \* certificates that end before are expired
    CertModes,   \* cert_storage_mode of the workers
    MaxRetries,  \* ct_deadlock_max_retries
    HostBatch,   \* hostnames in a batch of the rebuild
    MaxClock     \* bound: transactions that take a time of their own

CertRecord == [fp : Nat \ {0}, notAfter : Nat, notBefore : Nat,
               names : SUBSET (Nat \ {0})]

(* The fingerprint tells the certificates apart. *)
ASSUME StoreAssumption ==
    /\ IsFiniteSet(Writer)
    /\ Entry \subseteq [index : Nat, cert : CertRecord] /\ IsFiniteSet(Entry)
    /\ IsFiniteSet(UNION {e.cert.names : e \in Entry})
    /\ \A d, e \in Entry : d.cert.fp = e.cert.fp => d.cert = e.cert
    /\ MaxRetries \in Nat /\ HostBatch \in Nat \ {0}
    /\ Cutoff \in Nat /\ MaxClock \in Nat \ {0}

VARIABLES
    certs,      \* certificates: the id of the row, 0 without one
    joins,      \* certificate_hostnames
    hosts,      \* hostnames with the summary of their latest certificate
    observed,   \* entries with a row in ct_log_observations
    stored,     \* ct_entry_outcomes
    writer,     \* the transaction of each worker
    prune,      \* the ids the pruner has selected
    rebuild,    \* the batch of the rebuild
    clock,      \* datetime.now() of the next transaction
    repinned,   \* history: selected ids that became the latest again
    overtaken   \* history: a hostname was joined under the rebuild

storeVars == <<certs, joins, hosts, observed, stored, writer, prune, rebuild,
               clock, repinned, overtaken>>

---------------------------------------------------------------------------
Cert == {e.cert : e \in Entry}
Host == UNION {c.names : c \in Cert}

NoCert == [fp |-> 0, notAfter |-> 0, notBefore |-> 0, names |-> {}]
NoSummary == [cert |-> NoCert, at |-> 0]
Summary == [cert : Cert, at : 1 .. MaxClock] \cup {NoSummary}

Resting == [pc |-> "resting"]

(* What a worker has done to a hostname and not committed; what the        *)
(* rebuild found for one. *)
Over(values) == UNION {[names -> values] : names \in SUBSET Host}

Transaction ==
    [pc : {"cert", "host", "failed"}, entry : Entry, skip : BOOLEAN,
     tries : 0 .. MaxRetries, at : 1 .. MaxClock, id : 0 .. MaxClock,
     new : BOOLEAN, joined : SUBSET Host, left : SUBSET Host,
     touched : Over(Summary)]

Batch == [pc : {"update"}, at : 1 .. MaxClock, after : Host \cup {0},
          ranked : Over(Cert)]
         \cup [pc : {"next"}, after : Host \cup {0}]

Least(names) == CHOOSE h \in names : \A g \in names : h <= g

StoreTypeOK ==
    /\ certs \in [Cert -> 0 .. MaxClock]
    /\ joins \subseteq Cert \X Host
    /\ hosts \in [Host -> Summary]
    /\ observed \subseteq Entry
    /\ stored \in [Entry -> {"none", "stored", "write_error"}]
    /\ writer \in [Writer -> Transaction \cup {Resting}]
    /\ prune \subseteq Cert \X (1 .. MaxClock) /\ repinned \subseteq prune
    /\ rebuild \in Batch \cup {Resting}
    /\ clock \in 1 .. MaxClock /\ overtaken \in BOOLEAN

StoreInit ==
    /\ certs = [c \in Cert |-> 0]
    /\ joins = {}
    /\ hosts = [h \in Host |-> NoSummary]
    /\ observed = {}
    /\ stored = [e \in Entry |-> "none"]
    /\ writer = [w \in Writer |-> Resting]
    /\ prune = {}
    /\ rebuild = Resting
    /\ clock = 1
    /\ repinned = {} /\ overtaken = FALSE

InTransaction(w) == writer[w].pc \in {"cert", "host"}

(* The hostnames a writer has changed, and holds a lock on. *)
Touched(w) == IF InTransaction(w) THEN DOMAIN writer[w].touched ELSE {}

(* The new certificate it has inserted. *)
Inserts(w, c) == /\ writer[w].pc = "host"
                 /\ writer[w].new /\ writer[w].entry.cert = c

---------------------------------------------------------------------------
(* persist_entry_with_retry *)

(* flags_for_mode: only the mode none keeps no certificates. *)
SkipCert(mode) == mode = "none"

Opened(entry, skip, tries) ==
    [pc |-> IF skip THEN "host" ELSE "cert", entry |-> entry, skip |-> skip,
     tries |-> tries, at |-> clock, id |-> 0, new |-> FALSE,
     joined |-> {}, left |-> entry.cert.names,
     touched |-> [h \in {} |-> NoSummary]]

Tick == clock < MaxClock /\ clock' = clock + 1

StoreBegin(w, e) ==
    /\ writer[w].pc = "resting" /\ Tick
    /\ \E mode \in CertModes :
          writer' = [writer EXCEPT ![w] = Opened(e, SkipCert(mode), 0)]
    /\ UNCHANGED <<certs, joins, hosts, observed, stored, prune, rebuild,
                   repinned, overtaken>>

(* upsert_certificate.  A row that vanishes between the insert that finds  *)
(* it and the select fails the entry, as it does in UpsertHost. *)
UpsertCert(w) ==
    LET t == writer[w]
        c == t.entry.cert
    IN  /\ t.pc = "cert"
        /\ ~ \E v \in Writer : Inserts(v, c)
        /\ writer' = [writer EXCEPT ![w] =
               IF certs[c] = 0
               THEN [t EXCEPT !.pc = "host", !.new = TRUE, !.id = t.at]
               ELSE [t EXCEPT !.pc = "host", !.id = certs[c]]]
        /\ UNCHANGED <<certs, joins, hosts, observed, stored, prune, rebuild,
                       clock, repinned, overtaken>>

(* Fault: the later observation wins whatever the dates. *)
SupersedesBySight(c, at, old) == old = NoSummary \/ at > old.at

(* should_update_latest_cert *)
Supersedes(c, at, old) ==
    \/ old = NoSummary
    \/ c.notAfter > old.cert.notAfter
    \/ /\ c.notAfter = old.cert.notAfter
       /\ \/ c.notBefore > old.cert.notBefore
          \/ /\ c.notBefore = old.cert.notBefore
             /\ \/ at > old.at
                \/ at = old.at /\ c.fp < old.cert.fp

(* Fault: the names in the order of the certificate. *)
AsListed(w, left) == IF writer[w].entry.cert.fp = 1 THEN Least(left)
                     ELSE CHOOSE h \in left : \A g \in left : g <= h

(* normalize_hostnames sorts them. *)
NextName(w, left) == Least(left)

Dangling(t) == ~ t.skip /\ ~ t.new /\ certs[t.entry.cert] # t.id

(* upsert_hostname, which locks the row before it compares, and            *)
(* upsert_certificate_hostname. *)
UpsertHost(w) ==
    LET t == writer[w]
        c == t.entry.cert
        h == NextName(w, t.left)
        kept == IF Supersedes(c, t.at, hosts[h])
                THEN [cert |-> c, at |-> t.at] ELSE hosts[h]
    IN  /\ t.pc = "host" /\ t.left # {}
        /\ ~ \E v \in Writer \ {w} : h \in Touched(v)
        /\ writer' = [writer EXCEPT ![w] =
               IF Dangling(t) THEN [t EXCEPT !.pc = "failed"]
               ELSE [t EXCEPT
                        !.left = t.left \ {h},
                        !.joined = IF t.skip \/ <<c, h>> \in joins
                                   THEN t.joined ELSE t.joined \cup {h},
                        !.touched = [g \in Touched(w) \cup {h} |->
                            IF g = h THEN kept ELSE t.touched[g]]]]
        /\ UNCHANGED <<certs, joins, hosts, observed, stored, prune, rebuild,
                       clock, repinned, overtaken>>

(* Fault: the outcome is committed although the entry is not. *)
NamesSkipped(t) == t.pc = "host"

NamesDone(t) == t.pc = "host" /\ t.left = {}

(* The selected certificates that this step makes the latest. *)
NewlyPinned == {r \in prune : \E h \in Host : /\ hosts'[h].cert = r[1]
                                              /\ hosts[h].cert # r[1]}

(* The observation, the outcome, and the commit. *)
StoreCommit(w) ==
    LET t == writer[w]
        c == t.entry.cert
        e == t.entry
    IN  /\ t.pc = "host" /\ NamesDone(t)
        /\ IF Dangling(t) /\ e \notin observed
           THEN /\ writer' = [writer EXCEPT ![w].pc = "failed"]
                /\ UNCHANGED <<certs, joins, hosts, observed, stored,
                               repinned, overtaken>>
           ELSE /\ writer' = [writer EXCEPT ![w] = Resting]
                /\ certs' = IF t.new THEN [certs EXCEPT ![c] = t.id] ELSE certs
                /\ joins' = joins \cup {<<c, h>> : h \in t.joined}
                /\ hosts' = [h \in Host |->
                       IF h \in DOMAIN t.touched THEN t.touched[h]
                                                 ELSE hosts[h]]
                /\ observed' = observed \cup {e}
                /\ stored' = [stored EXCEPT ![e] = "stored"]
                /\ repinned' = repinned \cup NewlyPinned
                /\ overtaken' = (overtaken \/
                       /\ rebuild.pc = "update"
                       /\ t.joined \cap DOMAIN rebuild.ranked # {})
        /\ UNCHANGED <<prune, rebuild, clock>>

(* The row a writer waits for is held by another one. *)
WaitsFor(w, v) ==
    LET t == writer[w]
    IN  /\ v # w
        /\ \/ t.pc = "cert" /\ Inserts(v, t.entry.cert)
           \/ /\ t.pc = "host" /\ t.left # {}
              /\ NextName(w, t.left) \in Touched(v)

(* run_with_db_retry: a transaction that waits may be ended by the         *)
(* database, for a deadlock; it starts again while it has retries. *)
StoreRetry(w) ==
    LET t == writer[w]
    IN  /\ \E v \in Writer : WaitsFor(w, v)
        /\ \/ /\ t.tries < MaxRetries /\ Tick
              /\ writer' = [writer EXCEPT ![w] =
                                Opened(t.entry, t.skip, t.tries + 1)]
           \/ /\ t.tries = MaxRetries
              /\ writer' = [writer EXCEPT ![w].pc = "failed"]
              /\ UNCHANGED clock
        /\ UNCHANGED <<certs, joins, hosts, observed, stored, prune, rebuild,
                       repinned, overtaken>>

(* persist_failure_outcome *)
StoreFailure(w) ==
    /\ writer[w].pc = "failed"
    /\ stored' = [stored EXCEPT ![writer[w].entry] = "write_error"]
    /\ writer' = [writer EXCEPT ![w] = Resting]
    /\ UNCHANGED <<certs, joins, hosts, observed, prune, rebuild, clock,
                   repinned, overtaken>>

StoreCrash(w) ==
    /\ writer[w].pc # "resting"
    /\ writer' = [writer EXCEPT ![w] = Resting]
    /\ UNCHANGED <<certs, joins, hosts, observed, stored, prune, rebuild,
                   clock, repinned, overtaken>>

---------------------------------------------------------------------------
(* run_prune_expired_certs: one batch *)

(* Fault: the summaries of the hostnames are not consulted. *)
AnyExpired(c) == certs[c] # 0 /\ c.notAfter < Cutoff

(* find_prunable_certificate_ids *)
Prunable(c) == /\ certs[c] # 0 /\ c.notAfter < Cutoff
               /\ \A h \in Host : hosts[h].cert # c

PruneSelect ==
    /\ prune = {}
    /\ prune' \in SUBSET {<<c, certs[c]>> : c \in {d \in Cert : Prunable(d)}}
    /\ prune' # {}
    /\ repinned' = {}
    /\ UNCHANGED <<certs, joins, hosts, observed, stored, writer, rebuild,
                   clock, overtaken>>

(* delete_certificates_batch, to the commit: it waits for those who refer  *)
(* to a row; join rows and observations go with the certificate. *)
PruneDelete ==
    LET gone == {c \in Cert : <<c, certs[c]>> \in prune}
    IN  /\ prune # {}
        /\ ~ \E w \in Writer : /\ InTransaction(w) /\ writer[w].joined # {}
                               /\ <<writer[w].entry.cert, writer[w].id>> \in prune
        /\ certs' = [c \in Cert |-> IF c \in gone THEN 0 ELSE certs[c]]
        /\ joins' = {j \in joins : j[1] \notin gone}
        /\ observed' = {e \in observed : e.cert \notin gone}
        /\ prune' = {} /\ repinned' = {}
        /\ UNCHANGED <<hosts, stored, writer, rebuild, clock, overtaken>>

(* run_prune_observations *)
PruneObservation(e) ==
    /\ e \in observed
    /\ observed' = observed \ {e}
    /\ UNCHANGED <<certs, joins, hosts, stored, writer, prune, rebuild, clock,
                   repinned, overtaken>>

---------------------------------------------------------------------------
(* run_rebuild_hostname_latest_certs *)

CertsOf(h) == {j[1] : j \in {i \in joins : i[2] = h}}

Best(found) ==
    CHOOSE c \in found : \A d \in found \ {c} :
        \/ c.notAfter > d.notAfter
        \/ /\ c.notAfter = d.notAfter
           /\ \/ c.notBefore > d.notBefore
              \/ c.notBefore = d.notBefore /\ c.fp < d.fp

(* The next hostnames, and the best of the certificates each has. *)
RebuildRank ==
    LET after == IF rebuild.pc = "resting" THEN 0 ELSE rebuild.after
        left  == {h \in Host : h > after /\ hosts[h] # NoSummary}
        batch == {h \in left : Cardinality({g \in left : g < h}) < HostBatch}
        ranked == {h \in batch : CertsOf(h) # {}}
    IN  /\ rebuild.pc \in {"resting", "next"} /\ Tick
        /\ rebuild' = [pc |-> "update", at |-> clock,
                       after |-> IF batch = {} THEN after
                                 ELSE CHOOSE h \in batch :
                                        \A g \in batch : g <= h,
                       ranked |-> [h \in ranked |-> Best(CertsOf(h))]]
        /\ UNCHANGED <<certs, joins, hosts, observed, stored, writer, prune,
                       repinned, overtaken>>

(* The update waits for the rows.  It ends with a batch that changed none. *)
RebuildUpdate ==
    LET ranked == DOMAIN rebuild.ranked
    IN  /\ rebuild.pc = "update"
        /\ \A w \in Writer : Touched(w) \cap ranked = {}
        /\ hosts' = [h \in Host |->
               IF h \in ranked THEN [cert |-> rebuild.ranked[h],
                                     at |-> rebuild.at]
                               ELSE hosts[h]]
        /\ rebuild' = IF ranked = {} THEN Resting
                      ELSE [pc |-> "next", after |-> rebuild.after]
        /\ repinned' = repinned \cup NewlyPinned
        /\ UNCHANGED <<certs, joins, observed, stored, writer, prune, clock,
                       overtaken>>

---------------------------------------------------------------------------
StoreNext ==
    \/ \E w \in Writer :
          \/ \E e \in Entry : StoreBegin(w, e)
          \/ UpsertCert(w) \/ UpsertHost(w) \/ StoreCommit(w)
          \/ StoreRetry(w) \/ StoreFailure(w) \/ StoreCrash(w)
    \/ PruneSelect \/ PruneDelete
    \/ \E e \in Entry : PruneObservation(e)
    \/ RebuildRank \/ RebuildUpdate

StoreSpec == StoreInit /\ [][StoreNext]_storeVars

---------------------------------------------------------------------------
(* Properties *)

(* An entry reported as stored is stored whole: each of its hostnames has  *)
(* a summary, and as long as its certificate is there every hostname that  *)
(* was joined to it still is; no crash, retry or pruning leaves half.      *)
StoredIsWhole ==
    \A e \in Entry : stored[e] = "stored" =>
        /\ \A h \in e.cert.names : hosts[h] # NoSummary
        /\ certs[e.cert] # 0 => \A h \in e.cert.names : <<e.cert, h>> \in joins

(* The summary of a hostname is never behind a certificate the hostname is *)
(* joined to, in whatever order concurrent workers store them, unless a    *)
(* worker has joined one to it between the reading of the rebuild and its  *)
(* writing.                                                                *)
LatestIsBest ==
    ~ overtaken => \A j \in joins :
        LET latest == hosts[j[2]].cert
        IN  /\ hosts[j[2]] # NoSummary
            /\ \/ latest.notAfter > j[1].notAfter
               \/ /\ latest.notAfter = j[1].notAfter
                  /\ latest.notBefore >= j[1].notBefore

(* normalizer.py:62: the hostnames are written in a deterministic order,   *)
(* so that workers never wait for each other in a circle: of any of them,  *)
(* one waits for none of the others. *)
NoWaitCycle ==
    \A group \in (SUBSET Writer) \ {{}} :
        \E w \in group : \A v \in group : ~ WaitsFor(w, v)

(* The pruner deletes the latest certificate of a hostname only if a       *)
(* worker or the rebuild has made it the latest after the pruner had       *)
(* looked. *)
PrunesOnlySuperseded ==
    [][\A c \in Cert : certs[c] # 0 /\ certs'[c] = 0 =>
          \/ \A h \in Host : hosts[h].cert # c
          \/ <<c, certs[c]>> \in repinned]_storeVars
=============================================================================
