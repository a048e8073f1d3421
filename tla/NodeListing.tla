------------------------------ MODULE NodeListing ------------------------------
(***************************************************************************)
(* Reading every node while nodes come and go: GridClient.nodes, which     *)
(* follows the cursors of GET /v1/nodes, and handleStats, which walks the  *)
(* same keys within a budget of reads.  Both list names page by page and   *)
(* read one record at a time.                                              *)
(*                                                                         *)
(* Abstractions.  Names are numbers in the order the store lists them.  A  *)
(* record is fresh if it counts as alive at the time the stats started     *)
(* with, else stale.  A scan happens once; the state it starts in is any.  *)
(***************************************************************************)
EXTENDS Integers, FiniteSets

CONSTANTS
    N,              \* names are 1..N
    PageLimit,      \* NODES_PAGE_LIMIT
    MaxNodePages,   \* MAX_NODE_PAGES
    StatsPageLimit, \* STATS_PAGE
    StatsMaxPages,  \* STATS_MAX_PAGES
    StatsMaxGets,   \* STATS_MAX_GETS
    MaxChanges      \* bound on changes of records during the scans

ASSUME ListingAssumption ==
    /\ N \in Nat
    /\ {PageLimit, MaxNodePages, StatsPageLimit, StatsMaxPages} \subseteq Nat \ {0}
    /\ StatsMaxGets \in Nat /\ MaxChanges \in Nat

Names == 1..N

VARIABLES
    node,      \* node[n], the record under name n
    changes,   \* changes made so far
    list,      \* how far GridClient.nodes has come
    times,     \* times[n], how often it has n in out
    scan,      \* how far handleStats has come
    gets,      \* records it has read
    counted,   \* names it counted as alive
    partial,   \* whether its answer says so
    stayed,    \* history: names on file ever since both began
    alive      \* history: names fresh ever since both began

nodesVars == <<list, times>>
statsVars == <<scan, gets, counted, partial>>
otherVars == <<node, changes, stayed, alive>>
vars == <<nodesVars, statsVars, otherVars>>

\* The names of the current page not yet read, the cursor behind the page,
\* whether the store has more behind it, and the pages listed so far.
Scan == [at : {"list", "read", "done"}, page : SUBSET Names, cursor : 0..N,
         more : {"yes", "no"}, pages : Nat]

OnFile == {n \in Names : node[n] # "absent"}

TypeOK ==
    /\ node \in [Names -> {"absent", "stale", "fresh"}]
    /\ changes \in 0..MaxChanges
    /\ list \in Scan /\ times \in [Names -> Nat]
    /\ scan \in Scan /\ gets \in 0..StatsMaxGets
    /\ counted \subseteq Names /\ partial \in {"yes", "no"}
    /\ stayed \subseteq Names /\ alive \subseteq Names

Started == [at |-> "list", page |-> {}, cursor |-> 0, more |-> "yes", pages |-> 0]

Init ==
    /\ node \in [Names -> {"absent", "stale", "fresh"}]
    /\ changes = 0
    /\ list = Started /\ times = [n \in Names |-> 0]
    /\ scan = Started /\ gets = 0 /\ counted = {} /\ partial = "no"
    /\ stayed = OnFile
    /\ alive = {n \in Names : node[n] = "fresh"}
-------------------------------------------------------------------------------
(* The store's list with a prefix, a limit and a cursor. *)

\* Mutated form: the name at the cursor is listed again.
FromCursor(c) == {n \in OnFile : n >= c}

AfterCursor(c) == {n \in OnFile : n > c}

\* p is a page of at most limit names that follow cursor c, and e the cursor behind
\* it.  The store may end a page early.
IsPage(p, c, e, limit) ==
    /\ p \subseteq AfterCursor(c)
    /\ Cardinality(p) <= limit
    /\ AfterCursor(c) # {} => p # {}
    /\ \A m \in p, n \in AfterCursor(c) \ p : m < n
    /\ IF p = {} THEN e = c ELSE e \in p /\ \A m \in p : m <= e

\* Mutated form: a short page is taken for the last one.
ShortIsLast(s, p, e) ==
    [at |-> "read", page |-> p, cursor |-> e,
     more |-> IF Cardinality(p) < PageLimit THEN "no" ELSE "yes",
     pages |-> s.pages + 1]

\* The scan s after it listed page p with cursor e.
Listed(s, p, e) ==
    [at |-> "read", page |-> p, cursor |-> e,
     more |-> IF p = AfterCursor(s.cursor) THEN "no" ELSE "yes",
     pages |-> s.pages + 1]

\* n is the next name of the page of s.
NextName(s, n) == s.at = "read" /\ n \in s.page /\ \A m \in s.page : n <= m

PageDone(s) == s.at = "read" /\ s.page = {}

\* The scan s goes on behind its cursor, if there is more and pages are left.
Turned(s, maxPages) ==
    [s EXCEPT !.at = IF s.more = "yes" /\ s.pages < maxPages THEN "list" ELSE "done"]
-------------------------------------------------------------------------------
(* GridClient.nodes *)

NodesList ==
    /\ list.at = "list"
    /\ \E p \in SUBSET OnFile, e \in 0..N :
          IsPage(p, list.cursor, e, PageLimit) /\ list' = Listed(list, p, e)
    /\ UNCHANGED <<times, statsVars, otherVars>>

\* A record that is gone by now is left out.
NodesRead(n) ==
    /\ NextName(list, n)
    /\ list' = [list EXCEPT !.page = @ \ {n}]
    /\ times' = IF node[n] = "absent" THEN times ELSE [times EXCEPT ![n] = @ + 1]
    /\ UNCHANGED <<statsVars, otherVars>>

NodesTurn ==
    /\ PageDone(list)
    /\ list' = Turned(list, MaxNodePages)
    /\ UNCHANGED <<times, statsVars, otherVars>>
-------------------------------------------------------------------------------
(* handleStats *)

StatsList ==
    /\ scan.at = "list"
    /\ \E p \in SUBSET OnFile, e \in 0..N :
          IsPage(p, scan.cursor, e, StatsPageLimit) /\ scan' = Listed(scan, p, e)
    /\ UNCHANGED <<nodesVars, gets, counted, partial, otherVars>>

StatsRead(n) ==
    /\ NextName(scan, n)
    /\ gets < StatsMaxGets /\ gets' = gets + 1
    /\ scan' = [scan EXCEPT !.page = @ \ {n}]
    /\ counted' = IF node[n] = "fresh" THEN counted \cup {n} ELSE counted
    /\ UNCHANGED <<nodesVars, partial, otherVars>>

\* The budget is spent with names left.
StatsStop ==
    /\ scan.at = "read" /\ scan.page # {}
    /\ gets >= StatsMaxGets
    /\ scan' = [scan EXCEPT !.at = "done"]
    /\ partial' = "yes"
    /\ UNCHANGED <<nodesVars, gets, counted, otherVars>>

\* Mutated form: running out of pages is not told.
StatsTurnSilent ==
    /\ PageDone(scan)
    /\ scan' = Turned(scan, StatsMaxPages)
    /\ UNCHANGED <<nodesVars, gets, counted, partial, otherVars>>

\* The page cap ends the scan just as short as the budget does.
StatsTurn ==
    /\ PageDone(scan)
    /\ scan' = Turned(scan, StatsMaxPages)
    /\ partial' = IF scan.more = "yes" /\ scan.pages >= StatsMaxPages THEN "yes" ELSE partial
    /\ UNCHANGED <<nodesVars, gets, counted, otherVars>>
-------------------------------------------------------------------------------
(* Meanwhile. *)

\* A register, or a heartbeat of a node that is on file.
Beat(n) ==
    /\ changes < MaxChanges /\ changes' = changes + 1
    /\ node' = [node EXCEPT ![n] = "fresh"]
    /\ UNCHANGED <<nodesVars, statsVars, stayed, alive>>

\* A record whose node has long been stale expires.
Expire(n) ==
    /\ changes < MaxChanges /\ changes' = changes + 1
    /\ node[n] = "stale"
    /\ node' = [node EXCEPT ![n] = "absent"]
    /\ stayed' = stayed \ {n}
    /\ UNCHANGED <<nodesVars, statsVars, alive>>

Next ==
    \/ NodesList \/ NodesTurn
    \/ StatsList \/ StatsStop \/ StatsTurn
    \/ \E n \in Names : NodesRead(n) \/ StatsRead(n) \/ Beat(n) \/ Expire(n)

Spec == Init /\ [][Next]_vars
-------------------------------------------------------------------------------
InOut == {n \in Names : times[n] > 0}

\* No node is listed twice, however records come and go between two pages.
ListedOnce == \A n \in Names : times[n] <= 1

\* A listing that followed its last cursor has every node that was on file all
\* along.  One that ran out of pages may miss some and looks no different, where
\* pygrid/client.py:171 has "every node the coordinator will admit to".
CompleteListHasAll ==
    list.at = "done" /\ list.more = "no" => stayed \subseteq InOut

\* Stats that do not call themselves partial count every node alive all along.
UnmarkedStatsCountAll ==
    scan.at = "done" /\ partial = "no" => alive \subseteq counted
===============================================================================
