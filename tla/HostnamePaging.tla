--------------------------- MODULE HostnamePaging ---------------------------
(***************************************************************************)
(* The search of hostnames (certsapi/hostnames): a client walks through    *)
(* the pages with the cursor each answer gives it, while the ingestion     *)
(* goes on adding hostnames and changing the dates they are sorted by.     *)
(*                                                                         *)
(* The dates are those of certificates, in whole seconds, so that the      *)
(* milliseconds of the cursor hold them.  A hostname that no certificate   *)
(* has been recorded for, or none since the column exists, has none.       *)
(***************************************************************************)
EXTENDS Integers, FiniteSets

CONSTANTS
    HostId,     \* ids of hostnames that match the query
    Date,       \* dates, from 1
    PageLimits  \* limits of a page

ASSUME PagingAssumption ==
    /\ HostId \subseteq Nat /\ IsFiniteSet(HostId)
    /\ Date \subseteq Nat \ {0}
    /\ PageLimits \subseteq Nat \ {0}

VARIABLES
    dated,     \* the rows: the date of each, NoDate without one
    walk,      \* the client's walk
    changed    \* history: hostnames that changed since the walk began

pagingVars == <<dated, walk, changed>>

---------------------------------------------------------------------------
NoDate == 0
NoRow  == -1

(* A cursor holds the date and the id of a row with a date. *)
NoCursor == [date |-> NoDate, id |-> NoRow]

NoWalk == [on |-> FALSE, asc |-> TRUE, limit |-> 1, cursor |-> NoCursor,
           got |-> [h \in HostId |-> 0], ended |-> FALSE]

PagingInit ==
    /\ dated \in [HostId -> Date \cup {NoDate, NoRow}]
    /\ walk = NoWalk
    /\ changed = {}

---------------------------------------------------------------------------
(* _order_clauses: no date comes first in an ascending search, last in a   *)
(* descending one; the ids decide between equals. *)
Before(g, h, asc) ==
    IF asc THEN dated[g] < dated[h] \/ (dated[g] = dated[h] /\ g < h)
           ELSE dated[g] > dated[h] \/ (dated[g] = dated[h] /\ g > h)

(* _keyset_cond, a comparison of rows *)
Past(h, c, asc) ==
    IF asc THEN dated[h] > c.date \/ (dated[h] = c.date /\ h > c.id)
           ELSE dated[h] < c.date \/ (dated[h] = c.date /\ h < c.id)

(* A row without a date is not past any cursor. *)
Found(w) == {h \in HostId :
                /\ dated[h] # NoRow
                /\ w.cursor # NoCursor =>
                      dated[h] # NoDate /\ Past(h, w.cursor, w.asc)}

(* The rows of the answer, the first ones in the order of the search; one  *)
(* more is read ahead to know whether there is another page. *)
Page(w) == {h \in Found(w) :
               Cardinality({g \in Found(w) : Before(g, h, w.asc)}) < w.limit}

HasNext(w) == Cardinality(Found(w)) > w.limit

LastRow(rows, asc) == CHOOSE h \in rows : \A g \in rows \ {h} : Before(g, h, asc)

(* Fault: the cursor is that of the row that was read ahead. *)
CursorAhead(w) ==
    LET ahead == LastRow(Page([w EXCEPT !.limit = w.limit + 1]), w.asc)
    IN  [date |-> dated[ahead], id |-> ahead]

(* _make_next_cursor: none after a row without a date *)
NextCursor(w) ==
    LET last == LastRow(Page(w), w.asc)
    IN  IF dated[last] = NoDate THEN NoCursor
                                ELSE [date |-> dated[last], id |-> last]

(* HostnameService.search *)
Search(w) ==
    LET cursor == IF HasNext(w) THEN NextCursor(w) ELSE NoCursor
    IN  [on |-> TRUE, asc |-> w.asc, limit |-> w.limit, cursor |-> cursor,
         got |-> [h \in HostId |-> IF h \in Page(w) THEN w.got[h] + 1 ELSE w.got[h]],
         ended |-> cursor = NoCursor]

FirstPage ==
    /\ ~ walk.on
    /\ \E asc \in BOOLEAN, limit \in PageLimits :
          walk' = Search([NoWalk EXCEPT !.asc = asc, !.limit = limit])
    /\ changed' = {} /\ UNCHANGED dated

NextPage ==
    /\ walk.on /\ ~ walk.ended
    /\ walk' = Search(walk)
    /\ UNCHANGED <<dated, changed>>

(* The ingestion writes a hostname, or the rebuild its summary. *)
RowChanges(h) ==
    /\ walk.on /\ ~ walk.ended
    /\ \E d \in Date \ {dated[h]} : dated' = [dated EXCEPT ![h] = d]
    /\ changed' = changed \cup {h}
    /\ UNCHANGED walk

PagingNext == FirstPage \/ NextPage \/ (\E h \in HostId : RowChanges(h))

PagingSpec == PagingInit /\ [][PagingNext]_pagingVars

---------------------------------------------------------------------------
(* Properties *)

(* The rows, the walk and its history are what the program gives them;     *)
(* only a walk that goes on has a cursor, that of a row with a date.       *)
PagingTypeOK ==
    /\ dated \in [HostId -> Date \cup {NoDate, NoRow}]
    /\ walk \in [on : BOOLEAN, asc : BOOLEAN, limit : Nat \ {0},
                 cursor : [date : Date, id : HostId] \cup {NoCursor},
                 got : [HostId -> Nat], ended : BOOLEAN]
    /\ changed \subseteq HostId
    /\ (walk.on /\ ~ walk.ended) <=> walk.cursor # NoCursor

(* An ascending walk ends early, after a page of nothing but hostnames     *)
(* without a date. *)
EndedEarly ==
    LET returned == {h \in HostId : walk.got[h] > 0}
    IN  walk.asc /\ returned # {} /\ \A h \in returned : dated[h] = NoDate

(* When a walk has ended otherwise, every dated hostname that did not      *)
(* change on the way has been returned, and once, whatever was added, or   *)
(* moved past the cursor in either direction.                              *)
PagedOnce ==
    (walk.ended /\ ~ EndedEarly) =>
        \A h \in HostId \ changed : dated[h] \in Date => walk.got[h] = 1
=============================================================================
