------------------------------ MODULE MCAudit ------------------------------
(* The audit in four settings, one for each behaviour, so that each is     *)
(* small enough for liveness: two workers on one chunk, of which the log   *)
(* has every entry; retention and operators who wave findings aside;       *)
(* checks that run side by side; and more chunks than the query of a check *)
(* returns, whose claims do not time out.  Only with two workers does a    *)
(* claim outlive its timeout under its worker.                             *)
EXTENDS Audit, TLC

VARIABLE part

mcVars == <<vars, part>>

Part == {"workers", "retention", "checks", "limit"}

FirstWorker  == CHOOSE w \in Worker : TRUE
FirstChecker == CHOOSE k \in Checker : TRUE

SmallTree == CHOOSE t \in TreeSizes : \A u \in TreeSizes : t <= u

(* What the setting leaves out of a step. *)
Restricted ==
    /\ part # "workers" => \A w \in Worker \ {FirstWorker} : worker'[w].pc = "down"
    /\ part # "checks" => \A k \in Checker \ {FirstChecker} : check'[k] = NoCheck
    /\ part # "retention" => taken' = 0 /\ deleted' = 0
    /\ part # "limit" => \A w \in Worker :
          worker'[w].pc = "seeding" => worker'[w].size = SmallTree
    /\ part # "workers" => disturbed' = FALSE
    /\ part \in {"workers", "limit"} => short' = {}
    /\ part = "limit" => \A c \in Span : ranges'[c].status # "stale"

MCInit == Init /\ part \in Part

MCNext == Next /\ UNCHANGED part /\ Restricted

MCSpec == MCInit /\ [][MCNext]_mcVars /\ Fairness
=============================================================================
