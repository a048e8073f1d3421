-------------------------- MODULE NodeListingProofs --------------------------
(***************************************************************************)
(* What the two scans find, for any number of nodes, page limits, budgets  *)
(* and changes between the pages.                                          *)
(***************************************************************************)
EXTENDS NodeListing, TLAPS

\* The names that stayed are on file, those alive are fresh.
HistoryOK ==
    /\ \A n \in stayed : node[n] # "absent"
    /\ \A n \in alive : node[n] = "fresh"

\* Nothing behind the cursor was read, the page was not read yet, and what stayed
\* and is neither was read.
ListOK ==
    /\ \A n \in list.page : n <= list.cursor /\ times[n] = 0
    /\ \A n \in Names : n > list.cursor => times[n] = 0
    /\ \A n \in Names : times[n] <= 1
    /\ \A n \in stayed : n <= list.cursor /\ n \notin list.page => times[n] > 0
    /\ list.more = "no" => \A n \in stayed : n <= list.cursor
    /\ list.at # "read" => list.page = {}

\* The same of the stats, which may also stop with names left.
ScanOK ==
    /\ \A n \in scan.page : n <= scan.cursor
    /\ \A n \in alive : n <= scan.cursor /\ n \notin scan.page => n \in counted
    /\ scan.more = "no" => \A n \in alive : n <= scan.cursor
    /\ scan.at = "list" => scan.page = {}
    /\ scan.at = "done" /\ partial = "no" => scan.page = {} /\ scan.more = "no"

IInv == TypeOK /\ HistoryOK /\ ListOK /\ ScanOK

LEMMA InitIInv == Init => IInv
<1> SUFFICES ASSUME Init
             PROVE  IInv
  OBVIOUS
<1>1. N \in Nat /\ 0 \in 0..N
  BY ListingAssumption
<1>2. Started \in Scan
  BY <1>1 DEF Started, Scan
<1>3. TypeOK
  BY <1>1, <1>2, ListingAssumption DEF Init, TypeOK, OnFile
<1>4. HistoryOK
  BY DEF Init, HistoryOK, OnFile
<1>5. ListOK
  BY DEF Init, ListOK, Started, OnFile, Names
<1>6. ScanOK
  BY DEF Init, ScanOK, Started, Names
<1> QED
  BY <1>3, <1>4, <1>5, <1>6 DEF IInv

\* A page holds what follows the old cursor up to the new one.
LEMMA PageEffect ==
  ASSUME NEW p \in SUBSET OnFile, NEW c \in 0..N, NEW e \in 0..N, NEW limit,
         IsPage(p, c, e, limit)
  PROVE  /\ c <= e
         /\ \A n \in p : c < n /\ n <= e
         /\ \A n \in OnFile : c < n /\ n <= e => n \in p
         /\ p = AfterCursor(c) => \A n \in OnFile : n <= e
<1>1. \A n \in OnFile : n \in Nat
  BY ListingAssumption DEF OnFile, Names
<1>2. c \in Int /\ e \in Int
  BY ListingAssumption
<1>3. CASE p = {}
  BY <1>1, <1>2, <1>3 DEF IsPage, AfterCursor
<1>4. CASE p # {}
  BY <1>1, <1>2, <1>4 DEF IsPage, AfterCursor
<1> QED
  BY <1>3, <1>4

\* Every step keeps the invariant.
LEMMA StepIInv == IInv /\ [Next]_vars => IInv'
<1> SUFFICES ASSUME IInv, [Next]_vars
             PROVE  IInv'
  OBVIOUS
<1> USE DEF vars, nodesVars, statsVars, otherVars
<1>0. /\ N \in Nat /\ list.cursor \in 0..N /\ scan.cursor \in 0..N
      /\ list.page \subseteq Names /\ scan.page \subseteq Names
      /\ stayed \subseteq OnFile /\ alive \subseteq OnFile
  BY ListingAssumption DEF IInv, TypeOK, Scan, HistoryOK, OnFile
<1>1. CASE NodesList
  <2>1. PICK p \in SUBSET OnFile, e \in 0..N :
          IsPage(p, list.cursor, e, PageLimit) /\ list' = Listed(list, p, e)
    BY <1>1 DEF NodesList
  <2> DEFINE c == list.cursor
  <2>2. /\ list'.at = "read" /\ list'.page = p /\ list'.cursor = e
        /\ list'.more = IF p = AfterCursor(c) THEN "no" ELSE "yes"
    BY <2>1 DEF Listed
  <2>3. /\ c <= e
        /\ \A n \in p : c < n /\ n <= e
        /\ \A n \in OnFile : c < n /\ n <= e => n \in p
        /\ p = AfterCursor(c) => \A n \in OnFile : n <= e
    BY <1>0, <2>1, PageEffect
  <2>4. list' \in Scan
    BY <2>1 DEF Listed, Scan, OnFile, IInv, TypeOK
  <2>5. TypeOK' /\ HistoryOK' /\ ScanOK'
    BY <1>1, <2>4 DEF NodesList, IInv, TypeOK, HistoryOK, ScanOK
  <2>6. list.page = {} /\ UNCHANGED <<times, stayed>>
    BY <1>1 DEF NodesList, IInv, ListOK
  <2>7. ListOK'
    <3>0. c \in Int /\ e \in Int /\ Names \subseteq Int /\ p \subseteq Names
      BY <1>0 DEF Names, OnFile
    <3>1. \A n \in p : n <= e /\ times[n] = 0
      BY <2>3, <3>0 DEF IInv, ListOK
    <3>2. \A n \in Names : n > e => times[n] = 0
      BY <2>3, <3>0 DEF IInv, ListOK
    <3>3. \A n \in stayed : n <= e /\ n \notin p => times[n] > 0
      BY <1>0, <2>3, <2>6, <3>0 DEF IInv, ListOK
    <3>4. list'.more = "no" => \A n \in stayed : n <= e
      BY <1>0, <2>2, <2>3
    <3> QED
      BY <2>2, <2>6, <3>1, <3>2, <3>3, <3>4 DEF IInv, ListOK
  <2> QED
    BY <2>5, <2>7 DEF IInv
<1>2. ASSUME NEW n \in Names, NodesRead(n)
      PROVE  IInv'
  <2>1. /\ list' = [list EXCEPT !.page = list.page \ {n}]
        /\ times' = IF node[n] = "absent" THEN times ELSE [times EXCEPT ![n] = times[n] + 1]
        /\ n \in list.page /\ list.at = "read"
        /\ UNCHANGED <<statsVars, otherVars>>
    BY <1>2 DEF NodesRead, NextName
  <2>2. /\ list'.page = list.page \ {n} /\ list'.cursor = list.cursor
        /\ list'.at = list.at /\ list'.more = list.more /\ list' \in Scan
    BY <2>1 DEF IInv, TypeOK, Scan
  <2>3. /\ times[n] = 0 /\ times \in [Names -> Nat]
        /\ \A m \in Names : times[m] <= 1
    BY <2>1 DEF IInv, ListOK, TypeOK
  <2>4. /\ times' \in [Names -> Nat]
        /\ \A m \in Names : m # n => times'[m] = times[m]
        /\ times'[n] = IF node[n] = "absent" THEN 0 ELSE 1
    BY <2>1, <2>3
  <2>5. TypeOK' /\ HistoryOK' /\ ScanOK'
    BY <2>1, <2>2, <2>4 DEF IInv, TypeOK, HistoryOK, ScanOK
  <2>6. ListOK'
    <3>0. n \in Int /\ list.cursor \in Int /\ n <= list.cursor /\ stayed \subseteq Names
      BY <1>0, <2>1 DEF IInv, ListOK, TypeOK, Names
    <3>1. \A m \in list'.page : m <= list'.cursor /\ times'[m] = 0
      BY <1>0, <2>2, <2>4 DEF IInv, ListOK
    <3>2. \A m \in Names : m > list'.cursor => times'[m] = 0
      BY <2>2, <2>4, <3>0 DEF IInv, ListOK
    <3>3. \A m \in Names : times'[m] <= 1
      BY <2>3, <2>4
    <3>4. ASSUME NEW m \in stayed, m <= list'.cursor, m \notin list'.page
          PROVE  times'[m] > 0
      <4>1. CASE m = n
        BY <2>4, <4>1 DEF IInv, HistoryOK
      <4>2. CASE m # n
        BY <2>2, <2>4, <3>0, <3>4, <4>2 DEF IInv, ListOK
      <4> QED
        BY <4>1, <4>2
    <3> QED
      BY <2>1, <2>2, <3>1, <3>2, <3>3, <3>4 DEF IInv, ListOK
  <2> QED
    BY <2>5, <2>6 DEF IInv
<1>3. CASE NodesTurn
  <2>1. /\ list'.page = list.page /\ list'.cursor = list.cursor /\ list.page = {}
        /\ list'.more = list.more /\ list' \in Scan
        /\ UNCHANGED <<times, statsVars, otherVars>>
    BY <1>3 DEF NodesTurn, PageDone, Turned, IInv, TypeOK, Scan
  <2>2. TypeOK' /\ HistoryOK' /\ ScanOK'
    BY <2>1 DEF IInv, TypeOK, HistoryOK, ScanOK
  <2>3. ListOK'
    BY <2>1 DEF IInv, ListOK
  <2> QED
    BY <2>2, <2>3 DEF IInv
<1>4. CASE StatsList
  <2>1. PICK p \in SUBSET OnFile, e \in 0..N :
          IsPage(p, scan.cursor, e, StatsPageLimit) /\ scan' = Listed(scan, p, e)
    BY <1>4 DEF StatsList
  <2> DEFINE c == scan.cursor
  <2>2. /\ scan'.at = "read" /\ scan'.page = p /\ scan'.cursor = e
        /\ scan'.more = IF p = AfterCursor(c) THEN "no" ELSE "yes"
    BY <2>1 DEF Listed
  <2>3. /\ c <= e
        /\ \A n \in p : c < n /\ n <= e
        /\ \A n \in OnFile : c < n /\ n <= e => n \in p
        /\ p = AfterCursor(c) => \A n \in OnFile : n <= e
    BY <1>0, <2>1, PageEffect
  <2>4. scan' \in Scan
    BY <2>1 DEF Listed, Scan, OnFile, IInv, TypeOK
  <2>5. TypeOK' /\ HistoryOK' /\ ListOK'
    BY <1>4, <2>4 DEF StatsList, IInv, TypeOK, HistoryOK, ListOK
  <2>6. scan.page = {} /\ UNCHANGED <<counted, alive>>
    BY <1>4 DEF StatsList, IInv, ScanOK
  <2>7. ScanOK'
    <3>0. c \in Int /\ e \in Int /\ Names \subseteq Int /\ p \subseteq Names
          /\ alive \subseteq Names
      BY <1>0 DEF Names, OnFile
    <3>1. \A n \in alive : n <= e /\ n \notin p => n \in counted
      BY <1>0, <2>3, <2>6, <3>0 DEF IInv, ScanOK
    <3>2. scan'.more = "no" => \A n \in alive : n <= e
      BY <1>0, <2>2, <2>3
    <3> QED
      BY <2>2, <2>3, <2>6, <3>1, <3>2 DEF ScanOK
  <2> QED
    BY <2>5, <2>7 DEF IInv
<1>5. ASSUME NEW n \in Names, StatsRead(n)
      PROVE  IInv'
  <2>1. /\ scan' = [scan EXCEPT !.page = scan.page \ {n}]
        /\ counted' = IF node[n] = "fresh" THEN counted \cup {n} ELSE counted
        /\ gets' = gets + 1 /\ gets < StatsMaxGets /\ scan.at = "read"
        /\ UNCHANGED <<nodesVars, partial, otherVars>>
    BY <1>5 DEF StatsRead, NextName
  <2>2. /\ scan'.page = scan.page \ {n} /\ scan'.cursor = scan.cursor
        /\ scan'.at = scan.at /\ scan'.more = scan.more /\ scan' \in Scan
    BY <2>1 DEF IInv, TypeOK, Scan
  <2>3. gets' \in 0..StatsMaxGets
    BY <2>1, ListingAssumption DEF IInv, TypeOK
  <2>4. TypeOK' /\ HistoryOK' /\ ListOK'
    BY <2>1, <2>2, <2>3 DEF IInv, TypeOK, HistoryOK, ListOK
  <2>5. ScanOK'
    BY <2>1, <2>2 DEF IInv, ScanOK, HistoryOK
  <2> QED
    BY <2>4, <2>5 DEF IInv
<1>6. CASE StatsStop
  <2>1. /\ scan'.page = scan.page /\ scan'.cursor = scan.cursor /\ scan'.at = "done"
        /\ scan'.more = scan.more /\ scan' \in Scan /\ partial' = "yes"
        /\ UNCHANGED <<nodesVars, gets, counted, otherVars>>
    BY <1>6 DEF StatsStop, IInv, TypeOK, Scan
  <2>2. TypeOK' /\ HistoryOK' /\ ListOK'
    BY <2>1 DEF IInv, TypeOK, HistoryOK, ListOK
  <2>3. ScanOK'
    BY <2>1 DEF IInv, ScanOK
  <2> QED
    BY <2>2, <2>3 DEF IInv
<1>7. CASE StatsTurn
  <2>1. /\ scan'.page = scan.page /\ scan'.cursor = scan.cursor /\ scan.page = {}
        /\ scan'.more = scan.more /\ scan' \in Scan /\ partial' \in {"yes", "no"}
        /\ UNCHANGED <<nodesVars, gets, counted, otherVars>>
    BY <1>7 DEF StatsTurn, PageDone, Turned, IInv, TypeOK, Scan
  <2>2. TypeOK' /\ HistoryOK' /\ ListOK'
    BY <2>1 DEF IInv, TypeOK, HistoryOK, ListOK
  <2>3. scan'.at = "done" /\ partial' = "no" => scan.more = "no"
    BY <1>7, ListingAssumption DEF StatsTurn, Turned, IInv, TypeOK, Scan
  <2>4. ScanOK'
    BY <2>1, <2>3 DEF IInv, ScanOK
  <2> QED
    BY <2>2, <2>4 DEF IInv
<1>8. ASSUME NEW n \in Names, Beat(n)
      PROVE  IInv'
  <2>1. /\ node' = [node EXCEPT ![n] = "fresh"] /\ changes' \in 0..MaxChanges
        /\ UNCHANGED <<nodesVars, statsVars, stayed, alive>>
    BY <1>8, ListingAssumption DEF Beat, IInv, TypeOK
  <2> QED
    BY <2>1 DEF IInv, TypeOK, HistoryOK, ListOK, ScanOK
<1>9. ASSUME NEW n \in Names, Expire(n)
      PROVE  IInv'
  <2>1. /\ node' = [node EXCEPT ![n] = "absent"] /\ changes' \in 0..MaxChanges
        /\ node[n] = "stale" /\ stayed' = stayed \ {n}
        /\ UNCHANGED <<nodesVars, statsVars, alive>>
    BY <1>9, ListingAssumption DEF Expire, IInv, TypeOK
  <2>2. TypeOK' /\ HistoryOK'
    BY <2>1 DEF IInv, TypeOK, HistoryOK
  <2>3. ListOK' /\ ScanOK'
    BY <2>1 DEF IInv, ListOK, ScanOK
  <2> QED
    BY <2>2, <2>3 DEF IInv
<1>10. CASE UNCHANGED vars
  BY <1>10 DEF IInv, TypeOK, HistoryOK, ListOK, ScanOK, OnFile
<1> QED
  BY <1>1, <1>2, <1>3, <1>4, <1>5, <1>6, <1>7, <1>8, <1>9, <1>10 DEF Next

\* Every reachable state is well typed.
THEOREM ListingTypeCorrect == Spec => []TypeOK
<1>1. IInv => TypeOK
  BY DEF IInv
<1> QED
  BY <1>1, InitIInv, StepIInv, PTL DEF Spec

\* No node is listed twice, however records come and go between two pages.
THEOREM ListedOnceHolds == Spec => []ListedOnce
<1>1. IInv => ListedOnce
  BY DEF IInv, ListOK, ListedOnce
<1> QED
  BY <1>1, InitIInv, StepIInv, PTL DEF Spec

\* A listing that followed its last cursor has every node that stayed on file.
THEOREM CompleteListHasAllHolds == Spec => []CompleteListHasAll
<1>1. IInv => CompleteListHasAll
  BY DEF IInv, TypeOK, ListOK, CompleteListHasAll, InOut
<1> QED
  BY <1>1, InitIInv, StepIInv, PTL DEF Spec

\* Stats that are not marked partial count every node that stayed alive.
THEOREM UnmarkedStatsCountAllHolds == Spec => []UnmarkedStatsCountAll
<1>1. IInv => UnmarkedStatsCountAll
  BY DEF IInv, ScanOK, UnmarkedStatsCountAll
<1> QED
  BY <1>1, InitIInv, StepIInv, PTL DEF Spec
===============================================================================
