--------------------------- MODULE EntryStoreProofs ---------------------------
(***************************************************************************)
(* Theorems of the entry store, for any workers, entries, certificates and *)
(* hostnames.                                                              *)
(***************************************************************************)
EXTENDS EntryStore, FiniteData

---------------------------------------------------------------------------
(* The constants and the operators on them *)

LEMMA CertsAre ==
    /\ Cert \subseteq CertRecord /\ IsFiniteSet(Cert)
    /\ \A e \in Entry : e.cert \in Cert
    /\ \A c \in Cert : c.names \subseteq Host
    /\ \A c, d \in Cert : c.fp = d.fp => c = d
<1>1. \A e \in Entry : e.cert \in CertRecord /\ e.cert \in Cert
  BY StoreAssumption DEF Cert
<1>2. IsFiniteSet(Cert)
  <2> DEFINE f == [e \in Entry |-> e.cert]
  <2>1. f \in Surjection(Entry, Cert)
    BY DEF Surjection, Cert
  <2>2. QED
    BY <2>1, StoreAssumption, FS_Surjection
<1>3. \A c, d \in Cert : c.fp = d.fp => c = d
  BY StoreAssumption DEF Cert
<1>4. QED
  BY <1>1, <1>2, <1>3 DEF Cert, Host

LEMMA CertFields ==
    ASSUME NEW c \in Cert
    PROVE  /\ c.fp \in Nat \ {0} /\ c.notAfter \in Nat /\ c.notBefore \in Nat
           /\ c.names \subseteq Host /\ c # NoCert
BY CertsAre DEF CertRecord, NoCert

LEMMA HostsAre ==
    /\ Host \subseteq Nat \ {0} /\ IsFiniteSet(Host)
<1>1. \A c \in Cert : c.names \subseteq Nat \ {0}
  BY CertsAre DEF CertRecord
<1>2. Host = UNION {e.cert.names : e \in Entry}
  BY DEF Host, Cert
<1>3. QED
  BY <1>1, <1>2, StoreAssumption DEF Host

LEMMA LeastIs ==
    ASSUME NEW names \in SUBSET Host, names # {}
    PROVE  /\ Least(names) \in names
           /\ \A h \in names : Least(names) <= h
<1>1. names \in SUBSET Nat
  BY HostsAre
<1>2. \E h \in names : \A g \in names : h <= g
  BY <1>1, LeastNatural
<1>3. QED
  BY <1>2 DEF Least

LEMMA GreatestHost ==
    ASSUME NEW names \in SUBSET Host, names # {}
    PROVE  (CHOOSE h \in names : \A g \in names : g <= h) \in names
<1> DEFINE R == {p \in Host \X Host : p[2] <= p[1]}
<1>1. IsFiniteSet(names)
  BY HostsAre, FS_Subset
<1>2. \A x, y \in names : <<x, y>> \in R <=> y <= x
  OBVIOUS
<1>3. \A x, y \in names : x = y \/ <<x, y>> \in R \/ <<y, x>> \in R
  <2>1. \A x, y \in names : x = y \/ y <= x \/ x <= y
    BY HostsAre
  <2> HIDE DEF R
  <2> QED BY <1>2, <2>1
<1>4. \A x, y, z \in names : <<x, y>> \in R /\ <<y, z>> \in R => <<x, z>> \in R
  <2> SUFFICES ASSUME NEW x \in names, NEW y \in names, NEW z \in names,
                      y <= x, z <= y
               PROVE  z <= x
    BY <1>2
  <2> QED BY HostsAre
<1>5. \E x \in names : \A y \in names \ {x} : <<x, y>> \in R
  <2> HIDE DEF R
  <2> QED BY <1>1, <1>3, <1>4, GreatestElement
<1>6. \E x \in names : \A y \in names : y <= x
  <2>1. PICK x \in names : \A y \in names \ {x} : <<x, y>> \in R
    BY <1>5
  <2>2. x <= x
    BY HostsAre
  <2>3. \A y \in names \ {x} : y <= x
    <3> HIDE DEF R
    <3> QED BY <1>2, <2>1
  <2>4. QED
    BY <2>2, <2>3
<1>7. QED
  BY <1>6

(* The first certificate is not behind the second. *)
NotBehind(a, b) ==
    \/ a.notAfter > b.notAfter
    \/ (a.notAfter = b.notAfter /\ a.notBefore >= b.notBefore)

(* The order of the rebuild. *)
Above(c, d) ==
    \/ c.notAfter > d.notAfter
    \/ /\ c.notAfter = d.notAfter
       /\ \/ c.notBefore > d.notBefore
          \/ c.notBefore = d.notBefore /\ c.fp < d.fp

LEMMA NotBehindIsOrder ==
    /\ \A c \in Cert : NotBehind(c, c)
    /\ \A a, b, c \in Cert :
          NotBehind(a, b) /\ NotBehind(b, c) => NotBehind(a, c)
BY CertFields DEF NotBehind

(* Of a set of certificates the rebuild takes one that is behind none. *)
LEMMA BestIs ==
    ASSUME NEW found \in SUBSET Cert, found # {}
    PROVE  /\ Best(found) \in found
           /\ \A d \in found : NotBehind(Best(found), d)
<1> DEFINE R == {p \in Cert \X Cert : Above(p[1], p[2])}
<1>1. IsFiniteSet(found)
  BY CertsAre, FS_Subset
<1>2. \A c, d \in found : <<c, d>> \in R <=> Above(c, d)
  OBVIOUS
<1>3. \A c, d \in found : c = d \/ <<c, d>> \in R \/ <<d, c>> \in R
  <2> SUFFICES ASSUME NEW c \in found, NEW d \in found, c # d
               PROVE  Above(c, d) \/ Above(d, c)
    BY <1>2
  <2>1. c.fp # d.fp
    BY CertsAre
  <2>2. QED
    BY <2>1, CertFields DEF Above
<1>4. \A c, d, e \in found :
         <<c, d>> \in R /\ <<d, e>> \in R => <<c, e>> \in R
  <2> SUFFICES ASSUME NEW c \in found, NEW d \in found, NEW e \in found,
                      Above(c, d), Above(d, e)
               PROVE  Above(c, e)
    BY <1>2
  <2>1. /\ c \in Cert /\ d \in Cert /\ e \in Cert
    OBVIOUS
  <2>2. QED
    BY <2>1, CertFields DEF Above
<1>5. \E c \in found : \A d \in found \ {c} : <<c, d>> \in R
  <2> HIDE DEF R
  <2> QED BY <1>1, <1>3, <1>4, GreatestElement
<1>6. \E c \in found : \A d \in found \ {c} : Above(c, d)
  BY <1>2, <1>5
<1>7. Best(found) \in found /\ \A d \in found \ {Best(found)} : Above(Best(found), d)
  BY <1>6 DEF Best, Above
<1>8. ASSUME NEW c \in Cert, NEW d \in Cert, Above(c, d)
      PROVE  NotBehind(c, d)
  BY <1>8, CertFields DEF Above, NotBehind
<1> HIDE DEF R
<1>9. QED
  BY <1>7, <1>8, NotBehindIsOrder

(* What supersedes a summary is not behind it, and what does not, is not   *)
(* ahead of it.                                                            *)
LEMMA SupersedesIs ==
    ASSUME NEW c \in Cert, NEW at \in Nat, NEW old \in Summary, old # NoSummary
    PROVE  /\ old.cert \in Cert
           /\ Supersedes(c, at, old) => NotBehind(c, old.cert)
           /\ ~ Supersedes(c, at, old) => NotBehind(old.cert, c)
<1>1. old.cert \in Cert /\ old.at \in Nat
  BY DEF Summary
<1>2. QED
  BY <1>1, CertFields DEF Supersedes, NotBehind

---------------------------------------------------------------------------
(* Types *)

LEMMA OverIs ==
    ASSUME NEW values
    PROVE  /\ \A names \in SUBSET Host : \A f \in [names -> values] :
                 f \in Over(values)
           /\ \A f \in Over(values) :
                 DOMAIN f \subseteq Host /\ f \in [DOMAIN f -> values]
BY DEF Over

LEMMA OpenedType ==
    ASSUME clock \in 1 .. MaxClock,
           NEW e \in Entry, NEW skip \in BOOLEAN, NEW tries \in 0 .. MaxRetries
    PROVE  Opened(e, skip, tries) \in Transaction
<1> DEFINE none == [h \in {} |-> NoSummary]
<1>1. none \in [{} -> Summary]
  OBVIOUS
<1>2. none \in Over(Summary)
  BY <1>1, OverIs
<1>3. e.cert.names \subseteq Host
  BY CertsAre
<1>4. 0 \in 0 .. MaxClock
  BY StoreAssumption
<1> HIDE DEF none
<1>5. Opened(e, skip, tries) =
        [pc |-> IF skip THEN "host" ELSE "cert", entry |-> e, skip |-> skip,
         tries |-> tries, at |-> clock, id |-> 0, new |-> FALSE,
         joined |-> {}, left |-> e.cert.names, touched |-> none]
  BY DEF Opened, none
<1>6. QED
  BY <1>2, <1>3, <1>4, <1>5 DEF Transaction

(* The two ways a certificate is upserted. *)
CertDone(w) ==
    LET t == writer[w]
        c == t.entry.cert
    IN  /\ t.pc = "cert"
        /\ ~ \E v \in Writer : Inserts(v, c)
        /\ writer'[w] =
               IF certs[c] = 0
               THEN [t EXCEPT !.pc = "host", !.new = TRUE, !.id = t.at]
               ELSE [t EXCEPT !.pc = "host", !.id = certs[c]]

(* What a worker keeps of the summary of a hostname. *)
BetterOf(t, h) == IF Supersedes(t.entry.cert, t.at, hosts[h])
                  THEN [cert |-> t.entry.cert, at |-> t.at] ELSE hosts[h]

(* A hostname is upserted. *)
HostDone(w) ==
    LET t == writer[w]
        c == t.entry.cert
        h == NextName(w, t.left)
        u == writer'[w]
    IN  /\ t.pc = "host" /\ t.left # {} /\ ~ Dangling(t)
        /\ ~ \E v \in Writer \ {w} : h \in Touched(v)
        /\ u = [t EXCEPT
                  !.left = t.left \ {h},
                  !.joined = IF t.skip \/ <<c, h>> \in joins
                             THEN t.joined ELSE t.joined \cup {h},
                  !.touched = [g \in Touched(w) \cup {h} |->
                      IF g = h THEN BetterOf(t, h) ELSE t.touched[g]]]

(* A transaction starts, or starts again. *)
Begun(w) ==
    \E e \in Entry, skip \in BOOLEAN, tries \in 0 .. MaxRetries :
        Tick /\ writer'[w] = Opened(e, skip, tries)

TransactionOf(w) == writer[w] \in Transaction /\ writer[w].pc # "resting"

LEMMA WriterIs ==
    ASSUME writer \in [Writer -> Transaction \cup {Resting}], NEW w \in Writer
    PROVE  /\ writer[w].pc # "resting" => writer[w] \in Transaction
           /\ writer[w] \in Transaction =>
                 writer[w].pc \in {"cert", "host", "failed"}
BY DEF Transaction, Resting

(* Whatever the step, the transaction of a worker stays what it was, ends, *)
(* or makes one of these steps. *)
LEMMA WriterSteps ==
    ASSUME StoreTypeOK, [StoreNext]_storeVars, NEW w \in Writer
    PROVE  \/ writer'[w] = writer[w]
           \/ writer'[w] = Resting
           \/ /\ writer[w] \in Transaction
              /\ writer'[w] = [writer[w] EXCEPT !.pc = "failed"]
           \/ Begun(w) \/ CertDone(w) \/ HostDone(w)
<1> USE DEF StoreTypeOK
<1>1. ASSUME NEW v \in Writer, NEW e \in Entry, StoreBegin(v, e), v = w
      PROVE  Begun(w)
  <2>1. PICK mode \in CertModes :
           writer' = [writer EXCEPT ![v] = Opened(e, SkipCert(mode), 0)]
    BY <1>1 DEF StoreBegin
  <2>2. SkipCert(mode) \in BOOLEAN /\ 0 \in 0 .. MaxRetries
    BY StoreAssumption DEF SkipCert
  <2>3. writer'[w] = Opened(e, SkipCert(mode), 0)
    BY <1>1, <2>1
  <2>4. QED
    BY <1>1, <2>2, <2>3 DEF Begun, StoreBegin
<1>2. ASSUME UpsertCert(w)
      PROVE  CertDone(w)
  BY <1>2 DEF UpsertCert, CertDone
<1>3. ASSUME UpsertHost(w)
      PROVE  \/ HostDone(w)
             \/ /\ writer[w] \in Transaction
                /\ writer'[w] = [writer[w] EXCEPT !.pc = "failed"]
  <2>1. writer[w] \in Transaction
    BY <1>3, WriterIs DEF UpsertHost
  <2>2. CASE Dangling(writer[w])
    BY <1>3, <2>1, <2>2 DEF UpsertHost
  <2>3. CASE ~ Dangling(writer[w])
    BY <1>3, <2>3 DEF UpsertHost, HostDone, BetterOf
  <2>4. QED
    BY <2>2, <2>3
<1>4. ASSUME StoreCommit(w)
      PROVE  \/ writer'[w] = Resting
             \/ /\ writer[w] \in Transaction
                /\ writer'[w] = [writer[w] EXCEPT !.pc = "failed"]
  <2>1. writer[w] \in Transaction
    BY <1>4, WriterIs DEF StoreCommit
  <2>2. QED
    BY <1>4, <2>1 DEF StoreCommit
<1>5. ASSUME StoreRetry(w)
      PROVE  \/ Begun(w)
             \/ /\ writer[w] \in Transaction
                /\ writer'[w] = [writer[w] EXCEPT !.pc = "failed"]
  <2>1. writer[w] \in Transaction
    BY <1>5, WriterIs DEF StoreRetry, WaitsFor
  <2>2. CASE /\ writer[w].tries < MaxRetries /\ Tick
             /\ writer' = [writer EXCEPT ![w] = Opened(writer[w].entry,
                               writer[w].skip, writer[w].tries + 1)]
    <3>1. /\ writer[w].entry \in Entry /\ writer[w].skip \in BOOLEAN
          /\ writer[w].tries + 1 \in 0 .. MaxRetries
      BY <2>1, <2>2, StoreAssumption DEF Transaction
    <3>2. writer'[w] = Opened(writer[w].entry, writer[w].skip,
                              writer[w].tries + 1)
      BY <2>2
    <3>3. QED
      BY <2>2, <3>1, <3>2 DEF Begun
  <2>3. CASE writer' = [writer EXCEPT ![w].pc = "failed"]
    BY <2>1, <2>3
  <2>4. QED
    BY <1>5, <2>2, <2>3 DEF StoreRetry
<1>6. ASSUME StoreFailure(w) \/ StoreCrash(w)
      PROVE  writer'[w] = Resting
  BY <1>6 DEF StoreFailure, StoreCrash
<1>7. ASSUME NEW v \in Writer, v # w,
             \/ \E e \in Entry : StoreBegin(v, e)
             \/ UpsertCert(v) \/ UpsertHost(v) \/ StoreCommit(v)
             \/ StoreRetry(v) \/ StoreFailure(v) \/ StoreCrash(v)
      PROVE  writer'[w] = writer[w]
  BY <1>7 DEF StoreBegin, UpsertCert, UpsertHost, StoreCommit, StoreRetry,
              StoreFailure, StoreCrash
<1>8. CASE \/ PruneSelect \/ PruneDelete \/ RebuildRank \/ RebuildUpdate
           \/ \E e \in Entry : PruneObservation(e)
           \/ UNCHANGED storeVars
  BY <1>8 DEF PruneSelect, PruneDelete, RebuildRank, RebuildUpdate,
              PruneObservation, storeVars
<1>9. QED
  BY <1>1, <1>2, <1>3, <1>4, <1>5, <1>6, <1>7, <1>8 DEF StoreNext

LEMMA WriterDomain ==
    ASSUME StoreTypeOK, [StoreNext]_storeVars
    PROVE  writer' = [w \in Writer |-> writer'[w]]
BY DEF StoreTypeOK, StoreNext, StoreBegin, UpsertCert, UpsertHost, StoreCommit,
       StoreRetry, StoreFailure, StoreCrash, PruneSelect, PruneDelete,
       RebuildRank, RebuildUpdate, PruneObservation, storeVars

(* Of a transaction on a hostname. *)
LEMMA TransactionIs ==
    ASSUME NEW t \in Transaction
    PROVE  /\ t.entry \in Entry /\ t.entry.cert \in Cert
           /\ t.at \in 1 .. MaxClock /\ t.at \in Nat
           /\ t.id \in 0 .. MaxClock
           /\ t.joined \subseteq Host /\ t.left \subseteq Host
           /\ DOMAIN t.touched \subseteq Host
           /\ t.touched \in [DOMAIN t.touched -> Summary]
<1>1. t.touched \in Over(Summary) /\ t.entry \in Entry
  BY DEF Transaction
<1>2. QED
  BY <1>1, OverIs, CertsAre, StoreAssumption DEF Transaction

(* What a hostname comes to: a summary that is behind neither the old one  *)
(* nor the certificate that is stored.                                     *)
LEMMA KeptIs ==
    ASSUME StoreTypeOK, NEW t \in Transaction, NEW h \in Host
    PROVE  /\ BetterOf(t, h) \in Summary /\ BetterOf(t, h) # NoSummary
           /\ NotBehind(BetterOf(t, h).cert, t.entry.cert)
           /\ hosts[h] # NoSummary => NotBehind(BetterOf(t, h).cert, hosts[h].cert)
<1> DEFINE c == t.entry.cert
<1>1. c \in Cert /\ t.at \in 1 .. MaxClock /\ t.at \in Nat
  BY TransactionIs
<1>2. hosts[h] \in Summary
  BY DEF StoreTypeOK
<1>3. c # NoCert /\ NotBehind(c, c)
  BY <1>1, CertFields, NotBehindIsOrder
<1>4. CASE Supersedes(c, t.at, hosts[h])
  <2>1. BetterOf(t, h) = [cert |-> c, at |-> t.at]
    BY <1>4 DEF BetterOf
  <2>2. BetterOf(t, h) \in Summary /\ BetterOf(t, h) # NoSummary
    BY <1>1, <1>3, <2>1 DEF Summary, NoSummary
  <2>3. QED
    BY <1>1, <1>2, <1>3, <1>4, <2>1, <2>2, SupersedesIs
<1>5. CASE ~ Supersedes(c, t.at, hosts[h])
  <2>1. BetterOf(t, h) = hosts[h] /\ hosts[h] # NoSummary
    BY <1>5 DEF BetterOf, Supersedes
  <2>2. hosts[h].cert \in Cert /\ NotBehind(hosts[h].cert, c)
    BY <1>1, <1>2, <1>5, <2>1, SupersedesIs
  <2>3. QED
    BY <1>2, <2>1, <2>2, NotBehindIsOrder
<1>6. QED
  BY <1>4, <1>5

(* What a transaction is after a hostname. *)
LEMMA HostDoneIs ==
    ASSUME StoreTypeOK, NEW w \in Writer, HostDone(w)
    PROVE  LET t == writer[w]
               u == writer'[w]
               c == t.entry.cert
               h == NextName(w, t.left)
           IN  /\ t \in Transaction /\ t.pc = "host" /\ u.pc = "host"
               /\ h \in t.left /\ h \in Host /\ \A g \in t.left : h <= g
               /\ u.entry = t.entry /\ u.skip = t.skip /\ u.tries = t.tries
               /\ u.at = t.at /\ u.id = t.id /\ u.new = t.new
               /\ u.left = t.left \ {h}
               /\ u.joined = IF t.skip \/ <<c, h>> \in joins
                             THEN t.joined ELSE t.joined \cup {h}
               /\ DOMAIN u.touched = DOMAIN t.touched \cup {h}
               /\ u.touched[h] = BetterOf(t, h)
               /\ \A g \in DOMAIN t.touched : g # h => u.touched[g] = t.touched[g]
               /\ u \in Transaction
<1> DEFINE t == writer[w]
           u == writer'[w]
           c == t.entry.cert
           h == NextName(w, t.left)
           touched == [g \in DOMAIN t.touched \cup {h} |->
                          IF g = h THEN BetterOf(t, h) ELSE t.touched[g]]
           joined == IF t.skip \/ <<c, h>> \in joins
                     THEN t.joined ELSE t.joined \cup {h}
           left == t.left \ {h}
<1>1. t \in Transaction /\ t.pc = "host" /\ t.left # {}
  BY WriterIs DEF HostDone, StoreTypeOK
<1>2. Touched(w) = DOMAIN t.touched
  BY <1>1 DEF Touched, InTransaction
<1>3. u = [t EXCEPT !.left = left, !.joined = joined, !.touched = touched]
  BY <1>2 DEF HostDone
<1>4. h \in t.left /\ h \in Host /\ \A g \in t.left : h <= g
  BY <1>1, TransactionIs, LeastIs DEF NextName
<1>5. DOMAIN touched \subseteq Host /\ touched \in [DOMAIN touched -> Summary]
  BY <1>1, <1>4, TransactionIs, KeptIs
<1>6. touched \in Over(Summary)
  BY <1>5, OverIs
<1>7. joined \subseteq Host /\ left \subseteq Host
  BY <1>1, <1>4, TransactionIs
<1>8. /\ DOMAIN touched = DOMAIN t.touched \cup {h}
      /\ touched[h] = BetterOf(t, h)
      /\ \A g \in DOMAIN t.touched : g # h => touched[g] = t.touched[g]
  OBVIOUS
<1> HIDE DEF touched, joined, left
<1>9. /\ u.left = left /\ u.joined = joined /\ u.touched = touched
      /\ u.pc = t.pc /\ u.entry = t.entry /\ u.skip = t.skip
      /\ u.tries = t.tries /\ u.at = t.at /\ u.id = t.id /\ u.new = t.new
      /\ u \in Transaction
  BY <1>1, <1>3, <1>6, <1>7 DEF Transaction
<1>10. QED
  BY <1>1, <1>4, <1>8, <1>9 DEF joined, left

(* After its certificate. *)
LEMMA CertDoneIs ==
    ASSUME StoreTypeOK, NEW w \in Writer, CertDone(w)
    PROVE  LET t == writer[w]
               u == writer'[w]
               c == t.entry.cert
           IN  /\ t \in Transaction /\ t.pc = "cert" /\ u.pc = "host"
               /\ u.entry = t.entry /\ u.skip = t.skip
               /\ u.at = t.at /\ u.left = t.left
               /\ u.joined = t.joined /\ u.touched = t.touched
               /\ IF certs[c] = 0 THEN u.new /\ u.id = t.at
                                  ELSE u.new = t.new /\ u.id = certs[c]
               /\ u \in Transaction
<1> DEFINE t == writer[w]
           u == writer'[w]
           c == t.entry.cert
<1>1. t \in Transaction /\ t.pc = "cert"
  BY WriterIs DEF CertDone, StoreTypeOK
<1>2. certs[c] \in 0 .. MaxClock /\ t.at \in 0 .. MaxClock
  BY <1>1, TransactionIs, StoreAssumption DEF StoreTypeOK
<1>3. CASE certs[c] = 0
  <2>1. u = [t EXCEPT !.pc = "host", !.new = TRUE, !.id = t.at]
    BY <1>3 DEF CertDone
  <2>2. QED
    BY <1>1, <1>2, <1>3, <2>1 DEF Transaction
<1>4. CASE certs[c] # 0
  <2>1. u = [t EXCEPT !.pc = "host", !.id = certs[c]]
    BY <1>4 DEF CertDone
  <2>2. QED
    BY <1>1, <1>2, <1>4, <2>1 DEF Transaction
<1>5. QED
  BY <1>3, <1>4

LEMMA WriterTypeStep ==
    ASSUME StoreTypeOK, [StoreNext]_storeVars
    PROVE  writer' \in [Writer -> Transaction \cup {Resting}]
<1>1. ASSUME NEW w \in Writer
      PROVE  writer'[w] \in Transaction \cup {Resting}
  <2>1. CASE writer'[w] = writer[w] \/ writer'[w] = Resting
    BY <2>1 DEF StoreTypeOK
  <2>2. CASE /\ writer[w] \in Transaction
             /\ writer'[w] = [writer[w] EXCEPT !.pc = "failed"]
    BY <2>2 DEF Transaction
  <2>3. CASE Begun(w)
    BY <2>3, OpenedType DEF Begun, StoreTypeOK
  <2>4. CASE CertDone(w)
    BY <2>4, CertDoneIs
  <2>5. CASE HostDone(w)
    BY <2>5, HostDoneIs
  <2>6. QED
    BY <2>1, <2>2, <2>3, <2>4, <2>5, WriterSteps
<1>2. writer' = [w \in Writer |-> writer'[w]]
  BY WriterDomain
<1>3. QED
  BY <1>1, <1>2

(* A transaction is committed. *)
Commits(w) ==
    LET t == writer[w]
        c == t.entry.cert
        e == t.entry
    IN  /\ t.pc = "host" /\ t.left = {} /\ (Dangling(t) => e \in observed)
        /\ writer' = [writer EXCEPT ![w] = Resting]
        /\ certs' = IF t.new THEN [certs EXCEPT ![c] = t.id] ELSE certs
        /\ joins' = joins \cup {<<c, h>> : h \in t.joined}
        /\ hosts' = [h \in Host |->
               IF h \in DOMAIN t.touched THEN t.touched[h] ELSE hosts[h]]
        /\ observed' = observed \cup {e}
        /\ stored' = [stored EXCEPT ![e] = "stored"]
        /\ repinned' = repinned \cup NewlyPinned
        /\ overtaken' = (overtaken \/
               (/\ rebuild.pc = "update"
                /\ t.joined \cap DOMAIN rebuild.ranked # {}))
        /\ UNCHANGED <<prune, rebuild, clock>>

(* What is committed changes in these steps only. *)
LEMMA CommittedSteps ==
    ASSUME [StoreNext]_storeVars
    PROVE  \/ /\ UNCHANGED <<certs, joins, hosts, prune, repinned, overtaken>>
              /\ rebuild' = rebuild \/ RebuildRank
              /\ stored' = stored \/ \E w \in Writer : StoreFailure(w)
           \/ \E w \in Writer : Commits(w)
           \/ PruneSelect \/ PruneDelete \/ RebuildUpdate
<1>1. ASSUME NEW w \in Writer, StoreCommit(w)
      PROVE  \/ UNCHANGED <<certs, joins, hosts, prune, repinned, overtaken,
                            rebuild, stored>>
             \/ Commits(w)
  <2>1. CASE Dangling(writer[w]) /\ writer[w].entry \notin observed
    BY <1>1, <2>1 DEF StoreCommit
  <2>2. CASE ~ (Dangling(writer[w]) /\ writer[w].entry \notin observed)
    BY <1>1, <2>2 DEF StoreCommit, NamesDone, Commits
  <2>3. QED
    BY <2>1, <2>2
<1>2. ASSUME NEW w \in Writer,
             \/ \E e \in Entry : StoreBegin(w, e)
             \/ UpsertCert(w) \/ UpsertHost(w)
             \/ StoreRetry(w) \/ StoreCrash(w)
      PROVE  UNCHANGED <<certs, joins, hosts, prune, repinned, overtaken,
                         rebuild, stored>>
  BY <1>2 DEF StoreBegin, UpsertCert, UpsertHost, StoreRetry, StoreCrash
<1>3. ASSUME NEW w \in Writer, StoreFailure(w)
      PROVE  UNCHANGED <<certs, joins, hosts, prune, repinned, overtaken,
                         rebuild>>
  BY <1>3 DEF StoreFailure
<1>4. CASE RebuildRank
  BY <1>4 DEF RebuildRank
<1>5. CASE (\E e \in Entry : PruneObservation(e)) \/ UNCHANGED storeVars
  BY <1>5 DEF PruneObservation, storeVars
<1>6. QED
  BY <1>1, <1>2, <1>3, <1>4, <1>5 DEF StoreNext

LEMMA CommitsType ==
    ASSUME StoreTypeOK, NEW w \in Writer, Commits(w)
    PROVE  /\ writer[w] \in Transaction /\ writer[w].entry.cert \in Cert
           /\ certs' \in [Cert -> 0 .. MaxClock]
           /\ joins' \subseteq Cert \X Host
           /\ hosts' \in [Host -> Summary]
           /\ observed' \subseteq Entry
           /\ stored' \in [Entry -> {"none", "stored", "write_error"}]
           /\ prune' \subseteq Cert \X (1 .. MaxClock) /\ repinned' \subseteq prune'
<1> DEFINE t == writer[w]
<1>1. /\ t \in Transaction /\ t.entry \in Entry /\ t.entry.cert \in Cert
      /\ t.id \in 0 .. MaxClock /\ t.joined \subseteq Host
      /\ DOMAIN t.touched \subseteq Host
      /\ t.touched \in [DOMAIN t.touched -> Summary]
  BY WriterIs, TransactionIs DEF Commits, StoreTypeOK
<1>2. certs' \in [Cert -> 0 .. MaxClock]
  BY <1>1 DEF Commits, StoreTypeOK
<1>3. joins' \subseteq Cert \X Host
  BY <1>1 DEF Commits, StoreTypeOK
<1>4. hosts' \in [Host -> Summary]
  BY <1>1 DEF Commits, StoreTypeOK
<1>5. /\ observed' \subseteq Entry
      /\ stored' \in [Entry -> {"none", "stored", "write_error"}]
  BY <1>1 DEF Commits, StoreTypeOK
<1>6. prune' \subseteq Cert \X (1 .. MaxClock) /\ repinned' \subseteq prune'
  BY DEF Commits, StoreTypeOK, NewlyPinned
<1>7. QED
  BY <1>1, <1>2, <1>3, <1>4, <1>5, <1>6

LEMMA CertsOfIs ==
    ASSUME StoreTypeOK, NEW h \in Host
    PROVE  /\ CertsOf(h) \in SUBSET Cert
           /\ \A c \in Cert : <<c, h>> \in joins => c \in CertsOf(h)
BY DEF CertsOf, StoreTypeOK

(* What the rebuild finds. *)
LEMMA RankIs ==
    ASSUME StoreTypeOK, RebuildRank
    PROVE  /\ rebuild' \in Batch /\ rebuild'.pc = "update"
           /\ DOMAIN rebuild'.ranked \subseteq Host
           /\ rebuild'.ranked \in [DOMAIN rebuild'.ranked -> Cert]
           /\ \A h \in DOMAIN rebuild'.ranked :
                 rebuild'.ranked[h] = Best(CertsOf(h)) /\ CertsOf(h) # {}
<1> DEFINE after == IF rebuild.pc = "resting" THEN 0 ELSE rebuild.after
           left == {h \in Host : h > after /\ hosts[h] # NoSummary}
           batch == {h \in left : Cardinality({g \in left : g < h}) < HostBatch}
           ranked == {h \in batch : CertsOf(h) # {}}
           last == IF batch = {} THEN after
                   ELSE CHOOSE h \in batch : \A g \in batch : g <= h
           found == [h \in ranked |-> Best(CertsOf(h))]
<1>1. rebuild' = [pc |-> "update", at |-> clock, after |-> last, ranked |-> found]
  BY DEF RebuildRank
<1>2. batch \subseteq Host /\ ranked \subseteq batch
  OBVIOUS
<1>3. after \in Host \cup {0}
  BY DEF RebuildRank, StoreTypeOK, Batch, Resting
<1>4. last \in Host \cup {0}
  <2> HIDE DEF batch, after
  <2>1. CASE batch = {}
    BY <1>3, <2>1
  <2>2. CASE batch # {}
    <3>1. (CHOOSE h \in batch : \A g \in batch : g <= h) \in batch
      BY <1>2, <2>2, GreatestHost
    <3>2. QED
      BY <1>2, <2>2, <3>1
  <2>3. QED
    BY <2>1, <2>2
<1>5. ASSUME NEW h \in ranked
      PROVE  Best(CertsOf(h)) \in Cert
  <2>1. h \in Host /\ CertsOf(h) # {}
    BY <1>2
  <2>2. CertsOf(h) \in SUBSET Cert
    BY <2>1, CertsOfIs
  <2>3. QED
    BY <2>1, <2>2, BestIs
<1>6. found \in [ranked -> Cert] /\ ranked \in SUBSET Host
  BY <1>2, <1>5
<1>7. \A h \in ranked : found[h] = Best(CertsOf(h)) /\ CertsOf(h) # {}
  OBVIOUS
<1> HIDE DEF found, ranked, last
<1>8. found \in Over(Cert) /\ DOMAIN found = ranked
  BY <1>6, OverIs
<1>9. clock \in 1 .. MaxClock
  BY DEF StoreTypeOK
<1>10. QED
  BY <1>1, <1>4, <1>6, <1>7, <1>8, <1>9 DEF Batch

LEMMA BatchIs ==
    ASSUME NEW b \in Batch, b.pc = "update"
    PROVE  /\ b.at \in 1 .. MaxClock /\ b.after \in Host \cup {0}
           /\ DOMAIN b.ranked \subseteq Host
           /\ b.ranked \in [DOMAIN b.ranked -> Cert]
<1>1. b.at \in 1 .. MaxClock /\ b.after \in Host \cup {0} /\ b.ranked \in Over(Cert)
  BY DEF Batch
<1>2. QED
  BY <1>1, OverIs

(* What the rebuild writes. *)
LEMMA UpdateIs ==
    ASSUME StoreTypeOK, RebuildUpdate
    PROVE  /\ hosts' \in [Host -> Summary]
           /\ rebuild' \in Batch \cup {Resting}
           /\ repinned' \subseteq prune
           /\ DOMAIN rebuild.ranked \subseteq Host
           /\ \A h \in DOMAIN rebuild.ranked :
                 /\ hosts'[h].cert = rebuild.ranked[h]
                 /\ rebuild.ranked[h] \in Cert
                 /\ hosts'[h] # NoSummary
           /\ \A h \in Host \ DOMAIN rebuild.ranked : hosts'[h] = hosts[h]
<1> DEFINE ranked == DOMAIN rebuild.ranked
<1>1. /\ rebuild.at \in 1 .. MaxClock /\ rebuild.after \in Host \cup {0}
      /\ ranked \subseteq Host /\ rebuild.ranked \in [ranked -> Cert]
  BY BatchIs DEF RebuildUpdate, StoreTypeOK, Resting
<1>2. \A h \in ranked : rebuild.ranked[h] \in Cert /\ rebuild.ranked[h] # NoCert
  BY <1>1, CertFields
<1>3. hosts' = [h \in Host |->
         IF h \in ranked THEN [cert |-> rebuild.ranked[h], at |-> rebuild.at]
                         ELSE hosts[h]]
  BY DEF RebuildUpdate
<1>4. rebuild' \in Batch \cup {Resting}
  BY <1>1 DEF RebuildUpdate, Batch
<1>5. repinned' \subseteq prune
  BY DEF RebuildUpdate, NewlyPinned, StoreTypeOK
<1> HIDE DEF ranked
<1>6. /\ \A h \in ranked : hosts'[h] = [cert |-> rebuild.ranked[h], at |-> rebuild.at]
      /\ \A h \in Host \ ranked : hosts'[h] = hosts[h]
  BY <1>1, <1>3
<1>7. \A h \in ranked :
         [cert |-> rebuild.ranked[h], at |-> rebuild.at] \in Summary \ {NoSummary}
  BY <1>1, <1>2 DEF Summary, NoSummary
<1>8. hosts' \in [Host -> Summary]
  BY <1>1, <1>3, <1>6, <1>7 DEF StoreTypeOK
<1>9. ASSUME NEW h \in ranked
      PROVE  hosts'[h].cert = rebuild.ranked[h] /\ hosts'[h] # NoSummary
  <2>1. hosts'[h] = [cert |-> rebuild.ranked[h], at |-> rebuild.at]
    BY <1>6
  <2>2. hosts'[h] # NoSummary
    BY <1>7, <2>1
  <2>3. QED
    BY <2>1, <2>2
<1>10. ranked = DOMAIN rebuild.ranked
  BY DEF ranked
<1>11. QED
  BY <1>1, <1>2, <1>4, <1>5, <1>6, <1>8, <1>9, <1>10

LEMMA StoreTypeInit == StoreInit => StoreTypeOK
<1> SUFFICES ASSUME StoreInit
             PROVE  StoreTypeOK
  OBVIOUS
<1>1. 0 \in 0 .. MaxClock /\ 1 \in 1 .. MaxClock
  BY StoreAssumption
<1>2. hosts \in [Host -> Summary]
  BY DEF StoreInit, Summary
<1>3. QED
  BY <1>1, <1>2 DEF StoreInit, StoreTypeOK

LEMMA StoreTypeStep ==
    ASSUME StoreTypeOK, [StoreNext]_storeVars
    PROVE  StoreTypeOK'
<1>1. writer' \in [Writer -> Transaction \cup {Resting}]
  BY WriterTypeStep
<1>2. clock' \in 1 .. MaxClock
  <2>1. clock' = clock \/ Tick
    BY DEF StoreNext, StoreBegin, UpsertCert, UpsertHost, StoreCommit,
           StoreRetry, StoreFailure, StoreCrash, PruneSelect, PruneDelete,
           RebuildRank, RebuildUpdate, PruneObservation, storeVars
  <2>2. QED
    BY <2>1, StoreAssumption DEF Tick, StoreTypeOK
<1>3. overtaken' \in BOOLEAN
  BY CommittedSteps, Zenon
     DEF StoreTypeOK, Commits, PruneSelect, PruneDelete, RebuildUpdate
<1>4. observed' \subseteq Entry
  <2>1. ASSUME NEW w \in Writer, StoreCommit(w)
        PROVE  observed' \subseteq Entry
    <3>1. writer[w].entry \in Entry
      BY <2>1, WriterIs, TransactionIs DEF StoreCommit, StoreTypeOK
    <3>2. QED
      BY <2>1, <3>1 DEF StoreCommit, StoreTypeOK
  <2>2. QED
    BY <2>1
       DEF StoreTypeOK, StoreNext, StoreBegin, UpsertCert, UpsertHost,
           StoreRetry, StoreFailure, StoreCrash, PruneSelect, PruneDelete,
           RebuildRank, RebuildUpdate, PruneObservation, storeVars
<1>5. stored' \in [Entry -> {"none", "stored", "write_error"}]
  <2>1. ASSUME NEW w \in Writer, StoreFailure(w)
        PROVE  stored' \in [Entry -> {"none", "stored", "write_error"}]
    BY <2>1 DEF StoreFailure, StoreTypeOK
  <2>2. QED
    BY <2>1, CommittedSteps, CommitsType
       DEF StoreTypeOK, PruneSelect, PruneDelete, RebuildUpdate
<1>6. rebuild' \in Batch \cup {Resting}
  BY CommittedSteps, RankIs, UpdateIs
     DEF StoreTypeOK, Commits, PruneSelect, PruneDelete
<1>7. /\ certs' \in [Cert -> 0 .. MaxClock] /\ joins' \subseteq Cert \X Host
      /\ hosts' \in [Host -> Summary]
      /\ prune' \subseteq Cert \X (1 .. MaxClock) /\ repinned' \subseteq prune'
  <2>1. CASE UNCHANGED <<certs, joins, hosts, prune, repinned>>
    BY <2>1 DEF StoreTypeOK
  <2>2. CASE \E w \in Writer : Commits(w)
    BY <2>2, CommitsType
  <2>3. CASE PruneSelect
    <3>1. prune' \subseteq {<<c, certs[c]>> : c \in {d \in Cert : Prunable(d)}}
      BY <2>3 DEF PruneSelect
    <3>2. \A c \in Cert : Prunable(c) => certs[c] \in 1 .. MaxClock
      BY DEF Prunable, StoreTypeOK
    <3>3. prune' \subseteq Cert \X (1 .. MaxClock)
      BY <3>1, <3>2
    <3>4. QED
      BY <2>3, <3>3 DEF PruneSelect, StoreTypeOK
  <2>4. CASE PruneDelete
    BY <2>4, StoreAssumption DEF PruneDelete, StoreTypeOK
  <2>5. CASE RebuildUpdate
    BY <2>5, UpdateIs DEF RebuildUpdate, StoreTypeOK
  <2>6. QED
    BY <2>1, <2>2, <2>3, <2>4, <2>5, CommittedSteps
<1>8. QED
  BY <1>1, <1>2, <1>3, <1>4, <1>5, <1>6, <1>7 DEF StoreTypeOK

(* What workers, pruner and rebuild leave behind has the form the store    *)
(* promises. *)
THEOREM StoreTypeCorrect == StoreSpec => []StoreTypeOK
<1>1. StoreTypeOK /\ [StoreNext]_storeVars => StoreTypeOK'
  BY StoreTypeStep
<1>2. QED
  BY <1>1, StoreTypeInit, PTL DEF StoreSpec

---------------------------------------------------------------------------
(* What a transaction has done so far *)

(* The names that are not left have been changed, and joined to the        *)
(* certificate if it is new; nothing was changed that the order puts       *)
(* behind a name that is left; what was changed is not behind the          *)
(* certificate. *)
Progress(t) ==
    LET c == t.entry.cert
    IN  /\ t.left \subseteq c.names
        /\ c.names \ t.left \subseteq DOMAIN t.touched
        /\ t.joined \subseteq DOMAIN t.touched
        /\ t.new => c.names \ t.left \subseteq t.joined
        /\ t.skip => ~ t.new /\ t.joined = {} /\ t.pc # "cert"
        /\ t.pc = "cert" => ~ t.new /\ DOMAIN t.touched = {}
        /\ t.pc = "host" /\ ~ t.skip => t.id # 0
        /\ \A g \in DOMAIN t.touched :
              /\ t.touched[g] # NoSummary /\ NotBehind(t.touched[g].cert, c)
              /\ \A h \in t.left : g < h

InProgress == \A w \in Writer : InTransaction(w) => Progress(writer[w])

(* A joined row is that of a certificate that is there; it is there with   *)
(* all its names. *)
Rooted == \A j \in joins : certs[j[1]] # 0

Whole == \A c \in Cert : certs[c] # 0 =>
             \A h \in c.names : <<c, h>> \in joins

(* One worker at a time inserts a certificate, that nobody has inserted. *)
InsertsAlone ==
    \A w \in Writer : \A c \in Cert : Inserts(w, c) =>
        /\ certs[c] = 0
        /\ \A v \in Writer : Inserts(v, c) => v = w

(* A certificate to which a worker has joined a hostname stays.            *)
JoinsHold ==
    \A w \in Writer :
        InTransaction(w) /\ writer[w].joined # {} /\ ~ writer[w].new =>
            certs[writer[w].entry.cert] = writer[w].id

Sound == InProgress /\ Rooted /\ Whole /\ InsertsAlone /\ JoinsHold

(* The hostnames of entries that are stored have a summary. *)
Summarised ==
    \A e \in Entry : stored[e] = "stored" =>
        \A h \in e.cert.names : hosts[h] # NoSummary

LEMMA InProgressStep ==
    ASSUME StoreTypeOK, Sound, [StoreNext]_storeVars
    PROVE  InProgress'
<1> SUFFICES ASSUME NEW w \in Writer, InTransaction(w)'
             PROVE  Progress(writer'[w])
  BY DEF InProgress, Progress, NotBehind
<1>1. CASE writer'[w] = writer[w]
  BY <1>1 DEF Sound, InProgress, InTransaction
<1>2. CASE writer'[w] = Resting
  BY <1>2 DEF InTransaction, Resting
<1>3. CASE /\ writer[w] \in Transaction
           /\ writer'[w] = [writer[w] EXCEPT !.pc = "failed"]
  BY <1>3 DEF InTransaction, Transaction
<1>4. CASE Begun(w)
  <2>1. PICK e \in Entry, skip \in BOOLEAN, tries \in 0 .. MaxRetries :
          writer'[w] = Opened(e, skip, tries)
    BY <1>4 DEF Begun
  <2>2. QED
    BY <2>1 DEF Opened, Progress
<1>5. CASE CertDone(w)
  <2> DEFINE t == writer[w]
             u == writer'[w]
             c == t.entry.cert
  <2>1. /\ t \in Transaction /\ t.pc = "cert" /\ u.pc = "host"
        /\ u.entry = t.entry /\ u.skip = t.skip /\ u.left = t.left
        /\ u.joined = t.joined /\ u.touched = t.touched
        /\ IF certs[c] = 0 THEN u.new /\ u.id = t.at
                           ELSE u.new = t.new /\ u.id = certs[c]
    BY <1>5, CertDoneIs
  <2>2. Progress(t)
    BY <2>1 DEF Sound, InProgress, InTransaction
  <2>3. t.at # 0 /\ t.entry.cert = u.entry.cert
    BY <2>1, TransactionIs
  <2> HIDE DEF t, u
  <2>4. u.id # 0
    BY <2>1, <2>3
  <2>5. Progress(u)
    BY <2>1, <2>2, <2>3, <2>4 DEF Progress
  <2>6. QED
    BY <2>5 DEF u
<1>6. CASE HostDone(w)
  <2> DEFINE t == writer[w]
             u == writer'[w]
             c == t.entry.cert
             h == NextName(w, t.left)
  <2>1. /\ t \in Transaction /\ t.pc = "host" /\ u.pc = "host"
        /\ h \in t.left /\ h \in Host /\ \A g \in t.left : h <= g
        /\ u.entry = t.entry /\ u.skip = t.skip
        /\ u.id = t.id /\ u.new = t.new /\ u.left = t.left \ {h}
        /\ u.joined = IF t.skip \/ <<c, h>> \in joins
                      THEN t.joined ELSE t.joined \cup {h}
        /\ DOMAIN u.touched = DOMAIN t.touched \cup {h}
        /\ u.touched[h] = BetterOf(t, h)
        /\ \A g \in DOMAIN t.touched : g # h => u.touched[g] = t.touched[g]
    BY <1>6, HostDoneIs
  <2>2. Progress(t)
    BY <2>1 DEF Sound, InProgress, InTransaction
  <2>3. BetterOf(t, h) # NoSummary /\ NotBehind(BetterOf(t, h).cert, c)
    BY <2>1, KeptIs
  <2>4. t.new => <<c, h>> \notin joins
    <3>1. t.new => Inserts(w, c) /\ c \in Cert
      BY <2>1, TransactionIs DEF Inserts
    <3>2. t.new => certs[c] = 0
      BY <3>1 DEF Sound, InsertsAlone
    <3>3. <<c, h>> \in joins => certs[c] # 0
      BY DEF Sound, Rooted
    <3>4. QED
      BY <3>2, <3>3
  <2>5. t.left \subseteq Host /\ t.left \subseteq Nat
    BY <2>1, TransactionIs, HostsAre
  <2> HIDE DEF t, u, h
  <2>6. \A g \in DOMAIN u.touched :
           u.touched[g] # NoSummary /\ NotBehind(u.touched[g].cert, c)
    BY <2>1, <2>2, <2>3 DEF Progress
  <2>7. \A g \in DOMAIN u.touched : \A k \in u.left : g < k
    <3> SUFFICES ASSUME NEW g \in DOMAIN u.touched, NEW k \in u.left
                 PROVE  g < k
      OBVIOUS
    <3>1. k \in t.left /\ k # h /\ k \in Nat /\ h \in Nat /\ h <= k
      BY <2>1, <2>5
    <3>2. CASE g = h
      BY <3>1, <3>2
    <3>3. CASE g \in DOMAIN t.touched
      BY <2>2, <3>1, <3>3 DEF Progress
    <3>4. QED
      BY <2>1, <3>2, <3>3
  <2>8. /\ u.left \subseteq c.names
        /\ c.names \ u.left \subseteq DOMAIN u.touched
        /\ u.joined \subseteq DOMAIN u.touched
    BY <2>1, <2>2 DEF Progress
  <2>9. u.new => c.names \ u.left \subseteq u.joined
    BY <2>1, <2>2, <2>4 DEF Progress
  <2>10. u.skip => ~ u.new /\ u.joined = {} /\ u.pc # "cert"
    BY <2>1, <2>2 DEF Progress
  <2>11. /\ u.pc = "cert" => ~ u.new /\ DOMAIN u.touched = {}
         /\ u.pc = "host" /\ ~ u.skip => u.id # 0
    BY <2>1, <2>2 DEF Progress
  <2>12. u.entry.cert = c
    BY <2>1
  <2> HIDE DEF c
  <2>13. Progress(u)
    BY <2>6, <2>7, <2>8, <2>9, <2>10, <2>11, <2>12 DEF Progress
  <2>14. QED
    BY <2>13 DEF u
<1>7. QED
  BY <1>1, <1>2, <1>3, <1>4, <1>5, <1>6, WriterSteps

(* The certificates and the joined rows that a commit leaves. *)
LEMMA CommitIs ==
    ASSUME StoreTypeOK, Sound, NEW w \in Writer, Commits(w)
    PROVE  LET t == writer[w]
               c == t.entry.cert
           IN  /\ t \in Transaction /\ c \in Cert /\ Progress(t) /\ t.left = {}
               /\ t.pc = "host"
               /\ \A d \in Cert : certs'[d] # certs[d] =>
                     d = c /\ t.new /\ certs[d] = 0
               /\ t.joined # {} => certs'[c] # 0 /\ certs'[c] = t.id
               /\ t.new => certs'[c] # 0 /\ \A h \in c.names : <<c, h>> \in joins'
               /\ \A j \in joins' : j \in joins \/
                     \E h \in t.joined : j = <<c, h>>
               /\ joins \subseteq joins'
<1> DEFINE t == writer[w]
           c == t.entry.cert
<1>1. /\ t \in Transaction /\ c \in Cert /\ t.id \in 0 .. MaxClock
      /\ t.pc = "host" /\ t.left = {} /\ InTransaction(w)
  BY WriterIs, TransactionIs DEF Commits, StoreTypeOK, InTransaction
<1>2. Progress(t)
  BY <1>1 DEF Sound, InProgress
<1>3. t.new => certs[c] = 0
  BY <1>1 DEF Sound, InsertsAlone, Inserts
<1>4. t.new \/ t.joined # {} => ~ t.skip /\ t.id # 0
  BY <1>1, <1>2 DEF Progress
<1>5. certs' = IF t.new THEN [certs EXCEPT ![c] = t.id] ELSE certs
  BY DEF Commits
<1>6. joins' = joins \cup {<<c, h>> : h \in t.joined}
  BY DEF Commits
<1>7. t.new => c.names \subseteq t.joined
  BY <1>1, <1>2 DEF Progress
<1>8. t.joined # {} /\ ~ t.new => certs[c] = t.id
  BY <1>1 DEF Sound, JoinsHold
<1> HIDE DEF t, c
<1>9. \A d \in Cert : certs'[d] # certs[d] => d = c /\ t.new /\ certs[d] = 0
  BY <1>3, <1>5 DEF StoreTypeOK
<1>10. t.new => certs'[c] = t.id
  BY <1>1, <1>5 DEF StoreTypeOK
<1>11. t.joined # {} => certs'[c] # 0 /\ certs'[c] = t.id
  BY <1>4, <1>5, <1>8, <1>10
<1>12. QED
  BY <1>1, <1>2, <1>4, <1>6, <1>7, <1>9, <1>10, <1>11 DEF t, c

LEMMA WholeStep ==
    ASSUME StoreTypeOK, Sound, [StoreNext]_storeVars
    PROVE  Rooted' /\ Whole'
<1>1. CASE UNCHANGED <<certs, joins>>
  BY <1>1 DEF Sound, Rooted, Whole
<1>2. ASSUME NEW w \in Writer, Commits(w)
      PROVE  Rooted' /\ Whole'
  <2> DEFINE t == writer[w]
             c == t.entry.cert
  <2>1. /\ \A d \in Cert : certs'[d] # certs[d] =>
              d = c /\ t.new /\ certs[d] = 0
        /\ t.joined # {} => certs'[c] # 0
        /\ t.new => certs'[c] # 0 /\ \A h \in c.names : <<c, h>> \in joins'
        /\ \A j \in joins' : j \in joins \/ \E h \in t.joined : j = <<c, h>>
        /\ joins \subseteq joins' /\ c \in Cert
    BY <1>2, CommitIs
  <2> HIDE DEF t, c
  <2>2. ASSUME NEW j \in joins'
        PROVE  certs'[j[1]] # 0
    <3>1. CASE j \in joins
      <4>1. j[1] \in Cert /\ certs[j[1]] # 0
        BY <3>1 DEF StoreTypeOK, Sound, Rooted
      <4>2. QED
        BY <2>1, <4>1
    <3>2. CASE \E h \in t.joined : j = <<c, h>>
      BY <2>1, <3>2
    <3>3. QED
      BY <2>1, <3>1, <3>2
  <2>3. ASSUME NEW d \in Cert, certs'[d] # 0, NEW h \in d.names
        PROVE  <<d, h>> \in joins'
    <3>1. CASE certs'[d] = certs[d]
      BY <2>1, <2>3, <3>1 DEF Sound, Whole
    <3>2. CASE certs'[d] # certs[d]
      BY <2>1, <2>3, <3>2
    <3>3. QED
      BY <3>1, <3>2
  <2>4. QED
    BY <2>2, <2>3 DEF Rooted, Whole
<1>3. CASE PruneDelete
  <2> DEFINE gone == {c \in Cert : <<c, certs[c]>> \in prune}
  <2>1. /\ certs' = [c \in Cert |-> IF c \in gone THEN 0 ELSE certs[c]]
        /\ joins' = {j \in joins : j[1] \notin gone}
    BY <1>3 DEF PruneDelete
  <2> HIDE DEF gone
  <2>2. \A j \in joins : j[1] \in Cert
    BY DEF StoreTypeOK
  <2>3. Rooted'
    BY <2>1, <2>2 DEF Sound, Rooted
  <2>4. ASSUME NEW c \in Cert, certs'[c] # 0, NEW h \in c.names
        PROVE  <<c, h>> \in joins'
    <3>1. c \notin gone /\ certs[c] # 0
      BY <2>1, <2>4
    <3>2. <<c, h>> \in joins
      BY <3>1 DEF Sound, Whole
    <3>3. QED
      BY <2>1, <3>1, <3>2
  <2>5. QED
    BY <2>3, <2>4 DEF Whole
<1>4. QED
  BY <1>1, <1>2, <1>3, CommittedSteps DEF PruneSelect, RebuildUpdate

(* What a worker has inserted or joined stays under it. *)
LEMMA HeldStep ==
    ASSUME StoreTypeOK, Sound, [StoreNext]_storeVars
    PROVE  InsertsAlone' /\ JoinsHold'
<1>1. ASSUME NEW v \in Writer, NEW c \in Cert, Inserts(v, c)'
      PROVE  \/ Inserts(v, c)
             \/ /\ CertDone(v) /\ writer[v].entry.cert = c /\ certs[c] = 0
                /\ \A w \in Writer : ~ Inserts(w, c)
  <2>1. CASE writer'[v] = writer[v]
    BY <1>1, <2>1 DEF Inserts
  <2>2. CASE \/ writer'[v] = Resting
             \/ /\ writer[v] \in Transaction
                /\ writer'[v] = [writer[v] EXCEPT !.pc = "failed"]
    BY <1>1, <2>2 DEF Inserts, Resting, Transaction
  <2>3. CASE Begun(v)
    BY <1>1, <2>3 DEF Inserts, Begun, Opened
  <2>4. CASE CertDone(v)
    <3>1. /\ writer[v] \in Transaction /\ writer[v].pc = "cert"
          /\ writer'[v].entry = writer[v].entry
          /\ certs[writer[v].entry.cert] # 0 => writer'[v].new = writer[v].new
      BY <2>4, CertDoneIs
    <3>2. ~ writer[v].new
      BY <3>1 DEF Sound, InProgress, InTransaction, Progress
    <3>3. c = writer[v].entry.cert /\ certs[c] = 0
      BY <1>1, <3>1, <3>2 DEF Inserts
    <3>4. QED
      BY <2>4, <3>3 DEF CertDone
  <2>5. CASE HostDone(v)
    <3>1. /\ writer[v].pc = "host" /\ writer'[v].entry = writer[v].entry
          /\ writer'[v].new = writer[v].new
      BY <2>5, HostDoneIs
    <3>2. QED
      BY <1>1, <3>1 DEF Inserts
  <2>6. QED
    BY <2>1, <2>2, <2>3, <2>4, <2>5, WriterSteps
<1>2. ASSUME NEW w \in Writer, NEW c \in Cert, Inserts(w, c)'
      PROVE  /\ certs'[c] = 0
             /\ \A v \in Writer : Inserts(v, c)' => v = w
  <2>1. \A v \in Writer : Inserts(v, c)' => v = w
    <3> SUFFICES ASSUME NEW v \in Writer, Inserts(v, c)', v # w
                 PROVE  FALSE
      OBVIOUS
    <3>1. Inserts(v, c) /\ Inserts(w, c) => v = w
      BY DEF Sound, InsertsAlone
    <3>2. CertDone(v) /\ CertDone(w) => FALSE
      <4> SUFFICES ASSUME CertDone(v), CertDone(w)
                   PROVE  FALSE
        OBVIOUS
      <4>1. writer'[v] # writer[v] /\ writer'[w] # writer[w]
        BY CertDoneIs
      <4>2. QED
        BY <3>1, <4>1
           DEF StoreTypeOK, StoreNext, StoreBegin, UpsertCert, UpsertHost,
               StoreCommit, StoreRetry, StoreFailure, StoreCrash, PruneSelect,
               PruneDelete, RebuildRank, RebuildUpdate, PruneObservation,
               storeVars
    <3>3. QED
      BY <1>1, <1>2, <3>1, <3>2
  <2>2. certs[c] = 0
    BY <1>1, <1>2 DEF Sound, InsertsAlone
  <2>3. ASSUME NEW v \in Writer, Commits(v)
        PROVE  certs'[c] = 0
    <3>1. certs'[c] # certs[c] =>
             c = writer[v].entry.cert /\ writer[v].new /\ writer[v].pc = "host"
      BY <2>3, CommitIs
    <3>2. certs'[c] # certs[c] => Inserts(v, c)
      BY <3>1 DEF Inserts
    <3>3. v # w
      <4>1. writer'[v] = Resting
        BY <2>3 DEF Commits, StoreTypeOK
      <4>2. QED
        BY <1>2, <4>1 DEF Inserts, Resting
    <3>4. writer'[w] = writer[w]
      BY <2>3, <3>3 DEF Commits, StoreTypeOK
    <3>5. Inserts(w, c)
      BY <1>2, <3>4 DEF Inserts
    <3>6. QED
      BY <2>2, <3>2, <3>3, <3>5 DEF Sound, InsertsAlone
  <2>4. PruneDelete => certs'[c] = 0
    BY <2>2 DEF PruneDelete
  <2>5. QED
    BY <2>1, <2>2, <2>3, <2>4, CommittedSteps DEF PruneSelect, RebuildUpdate
<1>3. ASSUME NEW w \in Writer, InTransaction(w)',
             writer'[w].joined # {}, ~ writer'[w].new
      PROVE  certs'[writer'[w].entry.cert] = writer'[w].id
  <2>1. /\ InTransaction(w) /\ writer[w] \in Transaction
        /\ writer'[w].entry = writer[w].entry /\ writer'[w].id = writer[w].id
        /\ writer'[w].new = writer[w].new
        /\ certs[writer[w].entry.cert] = writer[w].id
        /\ writer[w].joined = {} => HostDone(w)
        /\ ~ writer[w].skip
    <3>1. CASE writer'[w] = writer[w]
      <4>1. /\ InTransaction(w) /\ writer[w] \in Transaction
            /\ writer[w].joined # {}
        BY <1>3, <3>1, WriterIs DEF InTransaction, StoreTypeOK
      <4>2. Progress(writer[w])
        BY <4>1 DEF Sound, InProgress
      <4>3. QED
        BY <1>3, <3>1, <4>1, <4>2 DEF Sound, JoinsHold, Progress
    <3>2. CASE \/ writer'[w] = Resting
               \/ /\ writer[w] \in Transaction
                  /\ writer'[w] = [writer[w] EXCEPT !.pc = "failed"]
      BY <1>3, <3>2 DEF InTransaction, Resting, Transaction
    <3>3. CASE Begun(w)
      BY <1>3, <3>3 DEF Begun, Opened
    <3>4. CASE CertDone(w)
      <4>1. /\ writer[w] \in Transaction /\ writer[w].pc = "cert"
            /\ writer'[w].joined = writer[w].joined
        BY <3>4, CertDoneIs
      <4>2. writer[w].joined = {}
        BY <4>1 DEF Sound, InProgress, InTransaction, Progress
      <4>3. QED
        BY <1>3, <4>1, <4>2
    <3>5. CASE HostDone(w)
      <4>1. /\ writer[w] \in Transaction /\ writer[w].pc = "host"
            /\ writer'[w].entry = writer[w].entry
            /\ writer'[w].id = writer[w].id /\ writer'[w].new = writer[w].new
            /\ writer[w].skip => writer'[w].joined = writer[w].joined
        BY <3>5, HostDoneIs
      <4>2. InTransaction(w) /\ Progress(writer[w])
        BY <4>1 DEF Sound, InProgress, InTransaction
      <4>3. ~ writer[w].skip
        BY <1>3, <4>1, <4>2 DEF Progress
      <4>4. certs[writer[w].entry.cert] = writer[w].id
        BY <1>3, <3>5, <4>1, <4>3 DEF HostDone, Dangling
      <4>5. QED
        BY <3>5, <4>1, <4>2, <4>3, <4>4
    <3>6. QED
      BY <3>1, <3>2, <3>3, <3>4, <3>5, WriterSteps
  <2> DEFINE c == writer[w].entry.cert
  <2>2. c \in Cert /\ certs[c] # 0
    <3>1. Progress(writer[w]) /\ writer[w].pc \in {"cert", "host"}
      BY <2>1 DEF Sound, InProgress, InTransaction
    <3>2. writer[w].pc = "host"
      <4>1. writer[w].joined # {} => DOMAIN writer[w].touched # {}
        BY <3>1 DEF Progress
      <4>2. writer[w].joined = {} => writer[w].pc = "host"
        BY <2>1 DEF HostDone
      <4>3. QED
        BY <3>1, <4>1, <4>2 DEF Progress
    <3>3. QED
      BY <2>1, <3>1, <3>2, TransactionIs DEF Progress
  <2>3. ASSUME NEW v \in Writer, Commits(v)
        PROVE  certs'[c] = certs[c]
    BY <2>2, <2>3, CommitIs
  <2>4. PruneDelete => certs'[c] = certs[c]
    <3> SUFFICES ASSUME PruneDelete
                 PROVE  certs'[c] = certs[c]
      OBVIOUS
    <3>1. ~ HostDone(w)
      BY HostDoneIs DEF PruneDelete
    <3>2. <<c, certs[c]>> \notin prune
      BY <2>1, <3>1 DEF PruneDelete
    <3>3. QED
      BY <2>2, <3>2 DEF PruneDelete
  <2>5. QED
    BY <2>1, <2>3, <2>4, CommittedSteps DEF PruneSelect, RebuildUpdate
<1>4. QED
  BY <1>2, <1>3 DEF InsertsAlone, JoinsHold

LEMMA SummarisedStep ==
    ASSUME StoreTypeOK, Sound, Summarised, [StoreNext]_storeVars
    PROVE  Summarised'
<1> SUFFICES ASSUME NEW e \in Entry, stored'[e] = "stored",
                    NEW h \in e.cert.names
             PROVE  hosts'[h] # NoSummary
  BY DEF Summarised
<1>0. h \in Host
  BY CertsAre
<1>1. CASE UNCHANGED hosts /\ (stored' = stored \/ \E w \in Writer : StoreFailure(w))
  <2>1. stored[e] = "stored"
    BY <1>1 DEF StoreFailure, StoreTypeOK
  <2>2. QED
    BY <1>1, <2>1 DEF Summarised
<1>2. ASSUME NEW w \in Writer, Commits(w)
      PROVE  hosts'[h] # NoSummary
  <2> DEFINE t == writer[w]
  <2>1. t \in Transaction /\ t.left = {} /\ Progress(t)
    BY <1>2, CommitIs
  <2>2. hosts'[h] = IF h \in DOMAIN t.touched THEN t.touched[h] ELSE hosts[h]
    BY <1>0, <1>2 DEF Commits
  <2>3. h \in DOMAIN t.touched => t.touched[h] # NoSummary
    BY <2>1 DEF Progress
  <2>4. CASE h \notin DOMAIN t.touched
    <3>1. e # t.entry
      BY <2>1, <2>4 DEF Progress
    <3>2. stored[e] = "stored"
      BY <1>2, <3>1 DEF Commits, StoreTypeOK
    <3>3. QED
      BY <2>2, <2>4, <3>2 DEF Summarised
  <2>5. QED
    BY <2>2, <2>3, <2>4
<1>3. CASE RebuildUpdate
  <2>1. stored[e] = "stored"
    BY <1>3 DEF RebuildUpdate
  <2>2. hosts[h] # NoSummary
    BY <2>1 DEF Summarised
  <2>3. QED
    BY <1>0, <1>3, <2>2, UpdateIs
<1>4. CASE PruneSelect \/ PruneDelete
  BY <1>4 DEF PruneSelect, PruneDelete, Summarised
<1>5. QED
  BY <1>1, <1>2, <1>3, <1>4, CommittedSteps

LEMMA StoreSound == StoreSpec => [](Sound /\ Summarised)
<1>1. StoreInit => Sound /\ Summarised
  BY DEF StoreInit, Sound, InProgress, InTransaction, Resting, Rooted, Whole,
         InsertsAlone, Inserts, JoinsHold, Summarised
<1>2. StoreTypeOK /\ Sound /\ Summarised /\ [StoreNext]_storeVars
         => Sound' /\ Summarised'
  BY InProgressStep, WholeStep, HeldStep, SummarisedStep DEF Sound
<1>3. QED
  BY <1>1, <1>2, StoreTypeCorrect, PTL DEF StoreSpec

(* Whatever crashes, retries, other workers, the pruner and the rebuild do *)
(* between its steps, an entry that is reported as stored is stored with   *)
(* all its hostnames. *)
THEOREM StoredEntriesAreWhole == StoreSpec => []StoredIsWhole
<1>1. StoreTypeOK /\ Sound /\ Summarised => StoredIsWhole
  BY CertsAre DEF Sound, Whole, Summarised, StoredIsWhole
<1>2. QED
  BY <1>1, StoreTypeCorrect, StoreSound, PTL

---------------------------------------------------------------------------
(* Waiting *)

(* Of workers that all wait for one another, one that has come to a        *)
(* hostname waits for a worker that has come to a later one. *)
LEMMA WaitsForLater ==
    ASSUME StoreTypeOK, InProgress,
           NEW u \in Writer, NEW v \in Writer, NEW w \in Writer,
           WaitsFor(u, v), WaitsFor(v, w)
    PROVE  /\ writer[v].pc = "host" /\ writer[v].left # {}
           /\ Least(writer[v].left) \in Nat
           /\ writer[u].pc = "host" =>
                 Least(writer[u].left) < Least(writer[v].left)
<1> DEFINE t == writer[v]
<1>1. \/ writer[u].pc = "cert" /\ t.pc = "host"
      \/ /\ writer[u].pc = "host" /\ writer[u].left # {}
         /\ InTransaction(v) /\ Least(writer[u].left) \in DOMAIN t.touched
  BY DEF WaitsFor, Inserts, NextName, Touched
<1>2. /\ t \in Transaction
      /\ t.pc = "cert" \/ (t.pc = "host" /\ t.left # {})
  BY WriterIs DEF WaitsFor, StoreTypeOK
<1>3. InTransaction(v) /\ Progress(t)
  BY <1>2 DEF InTransaction, InProgress
<1>4. t.pc = "host"
  BY <1>1, <1>2, <1>3 DEF Progress
<1>5. t.left # {} /\ t.left \in SUBSET Host
  BY <1>2, <1>4, TransactionIs
<1>6. Least(t.left) \in t.left /\ Least(t.left) \in Nat
  BY <1>5, LeastIs, HostsAre
<1>7. \A g \in DOMAIN t.touched : g < Least(t.left)
  BY <1>3, <1>6 DEF Progress
<1>8. QED
  BY <1>1, <1>4, <1>5, <1>6, <1>7

LEMMA NobodyWaitsForEver ==
    ASSUME StoreTypeOK, InProgress
    PROVE  NoWaitCycle
<1> SUFFICES ASSUME NEW group \in SUBSET Writer, group # {},
                    \A w \in group : \E v \in group : WaitsFor(w, v)
             PROVE  FALSE
  BY DEF NoWaitCycle
<1> DEFINE R == {p \in Writer \X Writer :
                    Least(writer[p[1]].left) >= Least(writer[p[2]].left)}
           last(w) == Least(writer[w].left)
           waited == {v \in group : \E u \in group : WaitsFor(u, v)}
<1>1. \A v \in waited : /\ writer[v].pc = "host" /\ last(v) \in Nat
                       /\ \E w \in waited : last(v) < last(w)
  <2> SUFFICES ASSUME NEW v \in waited
               PROVE  /\ writer[v].pc = "host" /\ last(v) \in Nat
                      /\ \E w \in waited : last(v) < last(w)
    OBVIOUS
  <2>1. PICK u \in group : WaitsFor(u, v)
    OBVIOUS
  <2>2. PICK w \in group : WaitsFor(v, w)
    OBVIOUS
  <2>3. PICK x \in group : WaitsFor(w, x)
    OBVIOUS
  <2>4. writer[v].pc = "host" /\ last(v) \in Nat
    BY <2>1, <2>2, WaitsForLater
  <2>5. last(v) < last(w)
    BY <2>2, <2>3, <2>4, WaitsForLater
  <2>6. w \in waited
    BY <2>2
  <2>7. QED
    BY <2>4, <2>5, <2>6
<1>2. waited # {} /\ waited \subseteq Writer
  OBVIOUS
<1>3. IsFiniteSet(waited)
  BY <1>2, StoreAssumption, FS_Subset
<1>4. \A v, w \in waited : <<v, w>> \in R <=> last(v) >= last(w)
  BY <1>2
<1> HIDE DEF waited, last, R
<1>5. \A v, w \in waited : v = w \/ <<v, w>> \in R \/ <<w, v>> \in R
  <2>1. \A v, w \in waited : last(v) >= last(w) \/ last(w) >= last(v)
    BY <1>1
  <2>2. QED
    BY <1>4, <2>1
<1>6. \A u, v, w \in waited :
         <<u, v>> \in R /\ <<v, w>> \in R => <<u, w>> \in R
  BY <1>1, <1>4
<1>7. PICK v \in waited : \A w \in waited \ {v} : <<v, w>> \in R
  BY <1>2, <1>3, <1>5, <1>6, GreatestElement
<1>8. PICK w \in waited : last(v) < last(w)
  BY <1>1
<1>9. w # v /\ last(v) \in Nat /\ last(w) \in Nat
  BY <1>1, <1>8
<1>10. last(v) >= last(w)
  BY <1>4, <1>7, <1>8, <1>9
<1>11. QED
  BY <1>8, <1>9, <1>10

(* However many workers store entries that share certificates and          *)
(* hostnames, there is never a circle of workers that wait for each other. *)
THEOREM WorkersNeverDeadlock == StoreSpec => []NoWaitCycle
<1>1. StoreTypeOK /\ Sound => NoWaitCycle
  BY NobodyWaitsForEver DEF Sound
<1>2. QED
  BY <1>1, StoreTypeCorrect, StoreSound, PTL

---------------------------------------------------------------------------
(* Pruning *)

(* A certificate the pruner has selected is not the latest of a hostname,  *)
(* but for those that became it since. *)
StillSuperseded ==
    \A r \in prune : r \in repinned \/ \A h \in Host : hosts[h].cert # r[1]

LEMMA SupersededStep ==
    ASSUME StoreTypeOK, StillSuperseded, [StoreNext]_storeVars
    PROVE  StillSuperseded'
<1>1. CASE UNCHANGED <<hosts, prune, repinned>>
  BY <1>1 DEF StillSuperseded
<1>2. CASE prune' = prune /\ repinned' = repinned \cup NewlyPinned
  <2> SUFFICES ASSUME NEW r \in prune, NEW h \in Host, hosts'[h].cert = r[1],
                      r \notin repinned
               PROVE  r \in NewlyPinned
    BY <1>2 DEF StillSuperseded
  <2>1. hosts[h].cert # r[1]
    BY DEF StillSuperseded
  <2>2. QED
    BY <2>1 DEF NewlyPinned
<1>3. CASE PruneSelect
  <2> SUFFICES ASSUME NEW r \in prune', NEW h \in Host
               PROVE  hosts'[h].cert # r[1]
    BY DEF StillSuperseded
  <2>1. PICK c \in Cert : Prunable(c) /\ r = <<c, certs[c]>>
    BY <1>3 DEF PruneSelect
  <2>2. QED
    BY <1>3, <2>1 DEF PruneSelect, Prunable
<1>4. CASE PruneDelete
  BY <1>4 DEF PruneDelete, StillSuperseded
<1>5. QED
  BY <1>1, <1>2, <1>3, <1>4, CommittedSteps DEF Commits, RebuildUpdate

LEMMA PruneStep ==
    ASSUME StoreTypeOK, Sound, StillSuperseded, [StoreNext]_storeVars,
           NEW c \in Cert, certs[c] # 0, certs'[c] = 0
    PROVE  \/ \A h \in Host : hosts[h].cert # c
           \/ <<c, certs[c]>> \in repinned
<1>1. ~ \E w \in Writer : Commits(w)
  BY CommitIs
<1>2. PruneDelete
  BY <1>1, CommittedSteps DEF PruneSelect, RebuildUpdate
<1>3. <<c, certs[c]>> \in prune
  BY <1>2 DEF PruneDelete
<1>4. QED
  BY <1>3 DEF StillSuperseded

(* The pruner deletes the latest certificate of a hostname only if it has  *)
(* become the latest after it was selected. *)
THEOREM PrunedIsSuperseded == StoreSpec => PrunesOnlySuperseded
<1>1. StoreInit => StillSuperseded
  BY DEF StoreInit, StillSuperseded
<1>2. StoreTypeOK /\ StillSuperseded /\ [StoreNext]_storeVars => StillSuperseded'
  BY SupersededStep
<1>3. StoreTypeOK /\ Sound /\ StillSuperseded /\ [StoreNext]_storeVars
        => [\A c \in Cert : certs[c] # 0 /\ certs'[c] = 0 =>
              \/ \A h \in Host : hosts[h].cert # c
              \/ <<c, certs[c]>> \in repinned]_storeVars
  BY PruneStep
<1>4. QED
  BY <1>1, <1>2, <1>3, StoreTypeCorrect, StoreSound, PTL
     DEF StoreSpec, PrunesOnlySuperseded

---------------------------------------------------------------------------
(* The latest certificate *)

(* Two workers do not change one hostname at a time. *)
LocksExclude ==
    \A v, w \in Writer : v # w => Touched(v) \cap Touched(w) = {}

(* What a worker is about to write is not behind what is there, which      *)
(* nobody else changes. *)
TouchedIsAhead ==
    \A w \in Writer : \A h \in Touched(w) : hosts[h] # NoSummary =>
        NotBehind(writer[w].touched[h].cert, hosts[h].cert)

(* What the rebuild is about to write is not behind what it has read. *)
RankIsAhead ==
    rebuild.pc = "update" /\ ~ overtaken =>
        \A j \in joins : j[2] \in DOMAIN rebuild.ranked =>
            NotBehind(rebuild.ranked[j[2]], j[1])

LatestIsAhead ==
    ~ overtaken => \A j \in joins :
        hosts[j[2]] # NoSummary /\ NotBehind(hosts[j[2]].cert, j[1])

(* The hostnames a worker holds: those it held, and one that nobody did. *)
LEMMA TouchedStep ==
    ASSUME StoreTypeOK, Sound, [StoreNext]_storeVars,
           NEW w \in Writer, NEW h \in Touched(w)'
    PROVE  /\ h \in Host /\ writer[w] \in Transaction
           /\ \/ h \in Touched(w) /\ writer'[w].touched[h] = writer[w].touched[h]
              \/ /\ HostDone(w) /\ writer'[w].touched[h] = BetterOf(writer[w], h)
                 /\ \A v \in Writer \ {w} : h \notin Touched(v)
<1>0. InTransaction(w)' /\ h \in DOMAIN writer'[w].touched
  BY DEF Touched, InTransaction
<1>1. CASE writer'[w] = writer[w]
  <2>1. InTransaction(w) /\ h \in Touched(w)
    BY <1>0, <1>1 DEF InTransaction, Touched
  <2>2. writer[w] \in Transaction
    BY <2>1, WriterIs DEF InTransaction, StoreTypeOK
  <2>3. h \in Host
    BY <1>0, <1>1, <2>2, TransactionIs
  <2>4. QED
    BY <1>1, <2>1, <2>2, <2>3
<1>2. CASE \/ writer'[w] = Resting
           \/ /\ writer[w] \in Transaction
              /\ writer'[w] = [writer[w] EXCEPT !.pc = "failed"]
  BY <1>0, <1>2 DEF InTransaction, Resting, Transaction
<1>3. CASE Begun(w)
  BY <1>0, <1>3 DEF Begun, Opened
<1>4. CASE CertDone(w)
  <2>1. /\ writer[w] \in Transaction /\ writer[w].pc = "cert"
        /\ writer'[w].touched = writer[w].touched
    BY <1>4, CertDoneIs
  <2>2. Progress(writer[w])
    BY <2>1 DEF Sound, InProgress, InTransaction
  <2>3. QED
    BY <1>0, <2>1, <2>2 DEF Progress
<1>5. CASE HostDone(w)
  <2> DEFINE k == NextName(w, writer[w].left)
  <2>1. /\ writer[w] \in Transaction /\ writer[w].pc = "host" /\ k \in Host
        /\ DOMAIN writer'[w].touched = DOMAIN writer[w].touched \cup {k}
        /\ writer'[w].touched[k] = BetterOf(writer[w], k)
        /\ \A g \in DOMAIN writer[w].touched :
              g # k => writer'[w].touched[g] = writer[w].touched[g]
    BY <1>5, HostDoneIs
  <2>2. \A v \in Writer \ {w} : k \notin Touched(v)
    BY <1>5 DEF HostDone
  <2>3. Touched(w) = DOMAIN writer[w].touched
    BY <2>1 DEF Touched, InTransaction
  <2>4. DOMAIN writer[w].touched \subseteq Host
    BY <2>1, TransactionIs
  <2> HIDE DEF k
  <2>5. CASE h = k
    BY <1>5, <2>1, <2>2, <2>5
  <2>6. CASE h # k
    BY <1>0, <2>1, <2>3, <2>4, <2>6
  <2>7. QED
    BY <2>5, <2>6
<1>6. QED
  BY <1>1, <1>2, <1>3, <1>4, <1>5, WriterSteps

LEMMA OneWriterMoves ==
    ASSUME StoreTypeOK, [StoreNext]_storeVars, NEW v \in Writer, NEW w \in Writer,
           writer'[v] # writer[v], writer'[w] # writer[w]
    PROVE  v = w
BY DEF StoreTypeOK, StoreNext, StoreBegin, UpsertCert, UpsertHost, StoreCommit,
       StoreRetry, StoreFailure, StoreCrash, PruneSelect, PruneDelete,
       RebuildRank, RebuildUpdate, PruneObservation, storeVars

LEMMA LocksStep ==
    ASSUME StoreTypeOK, Sound, LocksExclude, [StoreNext]_storeVars
    PROVE  LocksExclude'
<1> SUFFICES ASSUME NEW v \in Writer, NEW w \in Writer, v # w,
                    NEW h \in Touched(v)', h \in Touched(w)'
             PROVE  FALSE
  BY DEF LocksExclude
<1>1. ~ (h \in Touched(v) /\ h \in Touched(w))
  BY DEF LocksExclude
<1>2. ASSUME NEW u \in Writer, NEW x \in Writer, u # x,
             h \in Touched(u)', h \in Touched(x)', h \notin Touched(u)
      PROVE  FALSE
  <2>1. HostDone(u) /\ \A y \in Writer \ {u} : h \notin Touched(y)
    BY <1>2, TouchedStep
  <2>2. HostDone(x)
    BY <1>2, <2>1, TouchedStep
  <2>3. writer'[u] # writer[u] /\ writer'[x] # writer[x]
    BY <2>1, <2>2, HostDoneIs
  <2>4. QED
    BY <1>2, <2>3, OneWriterMoves
<1>3. QED
  BY <1>1, <1>2

(* A summary that a worker holds changes only when that worker commits. *)
LEMMA HeldSummary ==
    ASSUME StoreTypeOK, LocksExclude, [StoreNext]_storeVars,
           NEW w \in Writer, NEW h \in Touched(w), h \in Host,
           writer'[w] # Resting
    PROVE  hosts'[h] = hosts[h]
<1>1. ASSUME NEW v \in Writer, Commits(v)
      PROVE  hosts'[h] = hosts[h]
  <2>1. v # w
    BY <1>1 DEF Commits, StoreTypeOK
  <2>2. h \notin Touched(v)
    BY <2>1 DEF LocksExclude
  <2>3. h \notin DOMAIN writer[v].touched
    BY <1>1, <2>2 DEF Touched, InTransaction, Commits
  <2>4. QED
    BY <1>1, <2>3 DEF Commits
<1>2. CASE RebuildUpdate
  <2>1. h \notin DOMAIN rebuild.ranked
    BY <1>2 DEF RebuildUpdate
  <2>2. QED
    BY <1>2, <2>1, UpdateIs
<1>3. QED
  BY <1>1, <1>2, CommittedSteps DEF PruneSelect, PruneDelete

LEMMA TouchedAheadStep ==
    ASSUME StoreTypeOK, Sound, LocksExclude, TouchedIsAhead,
           [StoreNext]_storeVars
    PROVE  TouchedIsAhead'
<1> SUFFICES ASSUME NEW w \in Writer, NEW h \in Touched(w)',
                    hosts'[h] # NoSummary
             PROVE  NotBehind(writer'[w].touched[h].cert, hosts'[h].cert)
  BY DEF TouchedIsAhead, NotBehind
<1>1. h \in Host /\ writer[w] \in Transaction
  BY TouchedStep
<1>2. CASE h \in Touched(w) /\ writer'[w].touched[h] = writer[w].touched[h]
  <2>1. writer'[w] # Resting
    BY DEF Touched, InTransaction, Resting
  <2>2. hosts'[h] = hosts[h]
    BY <1>1, <1>2, <2>1, HeldSummary
  <2>3. QED
    BY <1>2, <2>2 DEF TouchedIsAhead
<1>3. CASE HostDone(w) /\ writer'[w].touched[h] = BetterOf(writer[w], h)
  <2>1. UNCHANGED hosts
    <3>1. writer'[w] # writer[w] /\ writer'[w].pc = "host" /\ writer[w].pc = "host"
      BY <1>3, HostDoneIs
    <3>2. ~ \E v \in Writer : Commits(v)
      <4> SUFFICES ASSUME NEW v \in Writer, Commits(v)
                   PROVE  FALSE
        OBVIOUS
      <4>1. writer'[w] = writer[w] \/ writer'[w] = Resting
        BY DEF Commits, StoreTypeOK
      <4>2. QED
        BY <3>1, <4>1 DEF Resting
    <3>3. ~ RebuildUpdate
      BY <3>1 DEF RebuildUpdate
    <3>4. QED
      BY <3>2, <3>3, CommittedSteps DEF PruneSelect, PruneDelete
  <2>2. QED
    BY <1>1, <1>3, <2>1, KeptIs
<1>4. QED
  BY <1>2, <1>3, TouchedStep

LEMMA RankAheadStep ==
    ASSUME StoreTypeOK, Sound, RankIsAhead, [StoreNext]_storeVars
    PROVE  RankIsAhead'
<1> SUFFICES ASSUME rebuild'.pc = "update", ~ overtaken',
                    NEW j \in joins', j[2] \in DOMAIN rebuild'.ranked
             PROVE  NotBehind(rebuild'.ranked[j[2]], j[1])
  BY DEF RankIsAhead, NotBehind
<1>1. ASSUME rebuild' = rebuild, j \in joins, ~ overtaken
      PROVE  NotBehind(rebuild'.ranked[j[2]], j[1])
  BY <1>1 DEF RankIsAhead
<1>2. CASE UNCHANGED <<joins, overtaken>> /\ RebuildRank
  <2>1. /\ rebuild'.ranked[j[2]] = Best(CertsOf(j[2]))
        /\ CertsOf(j[2]) # {} /\ j[2] \in Host
    BY <1>2, RankIs
  <2>2. j \in joins /\ j[1] \in Cert /\ j = <<j[1], j[2]>>
    BY <1>2 DEF StoreTypeOK
  <2>3. CertsOf(j[2]) \in SUBSET Cert /\ j[1] \in CertsOf(j[2])
    BY <2>1, <2>2, CertsOfIs
  <2>4. QED
    BY <2>1, <2>3, BestIs
<1>3. ASSUME NEW w \in Writer, Commits(w)
      PROVE  NotBehind(rebuild'.ranked[j[2]], j[1])
  <2>1. /\ rebuild' = rebuild
        /\ ~ overtaken /\ writer[w].joined \cap DOMAIN rebuild.ranked = {}
    BY <1>3, Zenon DEF Commits
  <2>2. j \in joins
    <3>1. j \in joins \/ \E h \in writer[w].joined :
                            j = <<writer[w].entry.cert, h>>
      BY <1>3, CommitIs
    <3>2. QED
      BY <2>1, <3>1
  <2>3. QED
    BY <1>1, <2>1, <2>2
<1>4. CASE PruneSelect \/ PruneDelete
  BY <1>1, <1>4 DEF PruneSelect, PruneDelete
<1>5. ~ RebuildUpdate
  BY DEF RebuildUpdate, Resting
<1>6. QED
  BY <1>1, <1>2, <1>3, <1>4, <1>5, CommittedSteps

LEMMA LatestStep ==
    ASSUME StoreTypeOK, Sound, TouchedIsAhead, RankIsAhead, LatestIsAhead,
           [StoreNext]_storeVars
    PROVE  LatestIsAhead'
<1> SUFFICES ASSUME ~ overtaken', NEW j \in joins'
             PROVE  /\ hosts'[j[2]] # NoSummary
                    /\ NotBehind(hosts'[j[2]].cert, j[1])
  BY DEF LatestIsAhead, NotBehind
<1>0. joins' \subseteq Cert \X Host /\ j[1] \in Cert /\ j[2] \in Host
  BY StoreTypeStep DEF StoreTypeOK
<1>1. CASE UNCHANGED <<hosts, overtaken>> /\ joins' \subseteq joins
  BY <1>1 DEF LatestIsAhead
<1>2. ASSUME NEW w \in Writer, Commits(w)
      PROVE  /\ hosts'[j[2]] # NoSummary
             /\ NotBehind(hosts'[j[2]].cert, j[1])
  <2> DEFINE t == writer[w]
             c == t.entry.cert
             h == j[2]
  <2>1. /\ t \in Transaction /\ c \in Cert /\ Progress(t)
        /\ j \in joins \/ \E g \in t.joined : j = <<c, g>>
        /\ Touched(w) = DOMAIN t.touched
    BY <1>2, CommitIs DEF Touched, InTransaction, Commits
  <2>2. ~ overtaken
    BY <1>2, Zenon DEF Commits
  <2>3. j \in joins => /\ hosts[h] # NoSummary
                       /\ NotBehind(hosts[h].cert, j[1])
    BY <2>2 DEF LatestIsAhead
  <2>4. CASE h \in DOMAIN t.touched
    <3>1. hosts'[h] = t.touched[h] /\ t.touched[h] \in Summary
      BY <1>0, <1>2, <2>1, <2>4, TransactionIs DEF Commits
    <3>2. t.touched[h] # NoSummary /\ NotBehind(t.touched[h].cert, c)
      BY <2>1, <2>4 DEF Progress
    <3>3. hosts[h] # NoSummary => NotBehind(t.touched[h].cert, hosts[h].cert)
      BY <2>1, <2>4 DEF TouchedIsAhead
    <3>4. t.touched[h].cert \in Cert
      BY <3>1, <3>2 DEF Summary
    <3>5. hosts[h] # NoSummary => hosts[h].cert \in Cert
      BY <1>0 DEF StoreTypeOK, Summary
    <3>6. CASE j \in joins
      BY <1>0, <2>3, <3>1, <3>2, <3>3, <3>4, <3>5, <3>6, NotBehindIsOrder
    <3>7. CASE \E g \in t.joined : j = <<c, g>>
      BY <3>1, <3>2, <3>7
    <3>8. QED
      BY <2>1, <3>6, <3>7
  <2>5. CASE h \notin DOMAIN t.touched
    <3>1. hosts'[h] = hosts[h]
      BY <1>0, <1>2, <2>5 DEF Commits
    <3>2. j \in joins
      BY <2>1, <2>5 DEF Progress
    <3>3. QED
      BY <2>3, <3>1, <3>2
  <2>6. QED
    BY <2>4, <2>5
<1>3. CASE RebuildUpdate
  <2>1. j \in joins /\ ~ overtaken /\ rebuild.pc = "update"
    BY <1>3 DEF RebuildUpdate
  <2>2. CASE j[2] \in DOMAIN rebuild.ranked
    <3>1. /\ hosts'[j[2]].cert = rebuild.ranked[j[2]]
          /\ hosts'[j[2]] # NoSummary
      BY <1>3, <2>2, UpdateIs
    <3>2. QED
      BY <2>1, <2>2, <3>1 DEF RankIsAhead
  <2>3. CASE j[2] \notin DOMAIN rebuild.ranked
    <3>1. hosts'[j[2]] = hosts[j[2]]
      BY <1>0, <1>3, <2>3, UpdateIs
    <3>2. QED
      BY <2>1, <3>1 DEF LatestIsAhead
  <2>4. QED
    BY <2>2, <2>3
<1>4. QED
  BY <1>1, <1>2, <1>3, CommittedSteps DEF PruneSelect, PruneDelete

(* In whatever order workers store the certificates of a hostname, and     *)
(* whatever is pruned in between, its summary is never behind one of them, *)
(* unless a worker joined one to it under the rebuild. *)
THEOREM SummaryIsLatest == StoreSpec => []LatestIsBest
<1> DEFINE Ahead == LocksExclude /\ TouchedIsAhead /\ RankIsAhead /\ LatestIsAhead
<1>1. StoreInit => Ahead
  BY DEF StoreInit, LocksExclude, TouchedIsAhead, RankIsAhead, LatestIsAhead,
         Touched, InTransaction, Resting
<1>2. StoreTypeOK /\ Sound /\ Ahead /\ [StoreNext]_storeVars => Ahead'
  BY LocksStep, TouchedAheadStep, RankAheadStep, LatestStep
<1>3. LatestIsAhead => LatestIsBest
  BY DEF LatestIsAhead, LatestIsBest, NotBehind
<1> HIDE DEF Ahead
<1>4. StoreSpec => []Ahead
  BY <1>1, <1>2, StoreTypeCorrect, StoreSound, PTL DEF StoreSpec
<1>5. QED
  BY <1>3, <1>4, PTL DEF Ahead
=============================================================================
