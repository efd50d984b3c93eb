----------------------------- MODULE RelayProofs -----------------------------
(***************************************************************************)
(* Proofs about RelayLink: types, the rows of open connections, and what   *)
(* an acknowledged broadcast has reached, for any number of connections,   *)
(* any size of page and any faults.                                        *)
(***************************************************************************)
EXTENDS RelayLink, FiniteSetTheorems, WellFoundedInduction, TLAPS

(* Connections are numbers. *)
LEMMA ConnsAreNumbers == Conns \subseteq Nat \ {0} /\ NConns \in Nat
BY RelayAssumption DEF Conns

(***************************************************************************)
(* Pages of a scan (connections.py all_connections).                       *)
(***************************************************************************)

(* Of some connections, one has the least key. *)
LEMMA LeastKey ==
  ASSUME NEW T \in SUBSET Conns, T # {}
  PROVE  \E m \in T : \A j \in T : m <= j
<1> DEFINE Below(k) == {j \in T : j <= k}
           R == StrictSubsetOrdering(Conns)
           B == {Below(k) : k \in T}
<1>1. IsWellFoundedOn(R, SUBSET Conns)
  <2>1. IsFiniteSet(Conns)
    BY FS_Interval, RelayAssumption DEF Conns
  <2>2. FiniteSubsetsOf(Conns) = SUBSET Conns
    BY <2>1, FS_FiniteSubsetsOfFinite
  <2> QED  BY <2>2, FS_StrictSubsetOrderingWellFounded
<1>2. B \subseteq SUBSET Conns /\ B # {}
  OBVIOUS
<1>3. \E x \in B : \A y \in B : ~ (<<y, x>> \in R)
  <2> HIDE DEF R, B
  <2> QED  BY <1>1, <1>2, WFMin
<1>4. PICK m \in T : \A k \in T : <<Below(k), Below(m)>> \notin R
  BY <1>3
<1>5. ASSUME NEW k \in T, ~(m <= k)  PROVE FALSE
  <2>1. k \in Nat /\ m \in Nat /\ k < m
    BY <1>5, ConnsAreNumbers
  <2>2. Below(k) \subseteq Below(m) /\ m \in Below(m) /\ m \notin Below(k)
    <3>1. ASSUME NEW j \in T, j <= k  PROVE j <= m
      BY <2>1, <3>1, ConnsAreNumbers
    <3>2. m <= m /\ ~(m <= k)
      BY <2>1
    <3> QED  BY <3>1, <3>2
  <2> HIDE DEF Below
  <2>3. Below(k) \in SUBSET Conns /\ Below(m) \in SUBSET Conns
    BY DEF Below
  <2> QED  BY <2>2, <2>3, <1>4 DEF StrictSubsetOrdering
<1> QED  BY <1>4, <1>5

(* Of some connections, one has the greatest key. *)
LEMMA GreatestKey ==
  ASSUME NEW T \in SUBSET Conns, T # {}
  PROVE  \E m \in T : \A j \in T : j <= m
<1> DEFINE Mirror == {k \in Conns : NConns + 1 - k \in T}
<1>1. \A k \in Conns : NConns + 1 - k \in Conns /\ NConns + 1 - (NConns + 1 - k) = k
  BY RelayAssumption DEF Conns
<1>2. Mirror \in SUBSET Conns /\ Mirror # {}
  BY <1>1
<1>3. PICK k \in Mirror : \A j \in Mirror : k <= j
  <2> HIDE DEF Mirror
  <2> QED  BY <1>2, LeastKey
<1>4. NConns + 1 - k \in T
  OBVIOUS
<1>5. ASSUME NEW j \in T  PROVE j <= NConns + 1 - k
  <2>1. NConns + 1 - j \in Mirror
    BY <1>1
  <2>2. k <= NConns + 1 - j
    BY <2>1, <1>3
  <2> QED  BY <2>2, <1>3, ConnsAreNumbers
<1> QED  BY <1>4, <1>5

(* A page is full of the rows that come first: a row it leaves out comes after
   all of them, and it is empty only when there are none. *)
LEMMA PageFirst ==
  ASSUME NEW view \in SUBSET Conns, NEW last
  PROVE  /\ Page(view, last) \subseteq RowsAfter(view, last) /\ RowsAfter(view, last) \subseteq Conns
         /\ \A k \in RowsAfter(view, last) \ Page(view, last) : \A p \in Page(view, last) : p < k
         /\ Page(view, last) = {} => RowsAfter(view, last) = {}
<1> DEFINE Rows == RowsAfter(view, last)
           UpTo(k) == {j \in Rows : j <= k}
<1>1. Rows \subseteq Conns /\ Page(view, last) \subseteq Rows
  BY DEF RowsAfter, Page
<1>2. ASSUME NEW k \in Rows  PROVE IsFiniteSet(UpTo(k)) /\ Cardinality(UpTo(k)) \in Nat
  <2>1. IsFiniteSet(Conns)
    BY FS_Interval, RelayAssumption DEF Conns
  <2>2. UpTo(k) \in SUBSET Conns
    BY <1>1
  <2> HIDE DEF UpTo
  <2> QED  BY <2>1, <2>2, FS_Subset, FS_CardinalityType
<1>3. ASSUME NEW k \in Rows \ Page(view, last), NEW p \in Page(view, last)  PROVE p < k
  <2>1. p \in Rows /\ k \in Nat /\ p \in Nat
    BY <1>1, ConnsAreNumbers
  <2>2. Cardinality(UpTo(p)) <= PageSize /\ ~(Cardinality(UpTo(k)) <= PageSize)
    BY DEF Page
  <2>3. ASSUME k <= p  PROVE UpTo(k) \in SUBSET UpTo(p)
    <3>1. ASSUME NEW j \in Rows, j <= k  PROVE j <= p
      <4>1. j \in Nat
        BY <1>1, ConnsAreNumbers
      <4> QED  BY <2>1, <2>3, <3>1, <4>1
    <3> HIDE DEF Rows
    <3> QED  BY <3>1
  <2>4. ASSUME k <= p  PROVE FALSE
    <3> HIDE DEF UpTo, Rows
    <3>1. Cardinality(UpTo(k)) <= Cardinality(UpTo(p))
      BY <2>1, <2>3, <2>4, <1>2, FS_Subset
    <3>2. Cardinality(UpTo(k)) \in Nat /\ Cardinality(UpTo(p)) \in Nat
      BY <2>1, <1>2
    <3> QED  BY <3>1, <3>2, <2>2, RelayAssumption
  <2> QED  BY <2>1, <2>4
<1>4. ASSUME Rows # {}  PROVE Page(view, last) # {}
  <2>1. PICK m \in Rows : \A j \in Rows : m <= j
    <3> HIDE DEF Rows
    <3> QED  BY <1>1, <1>4, LeastKey
  <2>2. UpTo(m) = {m}
    <3>1. \A j \in Rows : j \in Nat
      BY <1>1, ConnsAreNumbers
    <3> HIDE DEF Rows
    <3> QED  BY <2>1, <3>1
  <2>3. Cardinality(UpTo(m)) = 1
    <3> HIDE DEF UpTo
    <3> QED  BY <2>2, FS_Singleton
  <2>4. Cardinality(UpTo(m)) <= PageSize
    <3> HIDE DEF UpTo
    <3> QED  BY <2>3, RelayAssumption
  <2> QED  BY <2>1, <2>4 DEF Page
<1> QED  BY <1>1, <1>3, <1>4

(* A scan goes on after the last row of its page, which skips none; when no row
   is left it is over. *)
LEMMA ScanSkipsNone ==
  ASSUME NEW view \in SUBSET Conns, NEW last
  PROVE  /\ Page(view, last) \in SUBSET Conns /\ LastKey(view, last) \in 0..NConns
         /\ \A k \in RowsAfter(view, last) :
              k \in Page(view, last) \/ (LastKey(view, last) # 0 /\ k > LastKey(view, last))
<1> USE PageFirst
<1>1. CASE Page(view, last) = RowsAfter(view, last)
  BY <1>1, RelayAssumption DEF LastKey
<1>2. CASE Page(view, last) # RowsAfter(view, last)
  <2>1. Page(view, last) # {} /\ Page(view, last) \in SUBSET Conns
    BY <1>2
  <2>2. \E m \in Page(view, last) : \A j \in Page(view, last) : j <= m
    BY <2>1, GreatestKey
  <2>3. LastKey(view, last) \in Page(view, last)
    BY <2>2, <1>2 DEF LastKey
  <2>4. LastKey(view, last) \in 0..NConns /\ LastKey(view, last) # 0
    BY <2>1, <2>3, RelayAssumption DEF Conns
  <2>5. ASSUME NEW k \in RowsAfter(view, last) \ Page(view, last)  PROVE k > LastKey(view, last)
    <3>1. LastKey(view, last) < k
      BY <2>3
    <3> QED  BY <3>1, <2>4, ConnsAreNumbers
  <2> QED  BY <2>1, <2>4, <2>5
<1> QED  BY <1>1, <1>2

(***************************************************************************)
(* The inductive invariant: disconnects are of connections that are gone,  *)
(* and whom a broadcast still owes its message is ahead of it.             *)
(***************************************************************************)
LeavesGone == \A k \in Conns : leave[k] # "none" => k \notin open

OwedAhead ==
  \A k \in cast.owed :
    k \in Settled \cap open /\ (k \in cast.page \/ (cast.last # 0 /\ k > cast.last))

LinkInv == LinkTypeOK /\ LeavesGone /\ OwedAhead

(* A record of a broadcast with other parts is one (Relay's cast). *)
LEMMA CastType ==
  ASSUME RelayTypeOK, NEW p \in SUBSET Conns, NEW o \in SUBSET Conns, NEW n \in 0..NConns
  PROVE  /\ [cast EXCEPT !.page = p] \in [on : BOOLEAN, page : SUBSET Conns, last : 0..NConns, owed : SUBSET Conns]
         /\ [cast EXCEPT !.owed = o] \in [on : BOOLEAN, page : SUBSET Conns, last : 0..NConns, owed : SUBSET Conns]
         /\ [cast EXCEPT !.page = p, !.owed = o] \in [on : BOOLEAN, page : SUBSET Conns, last : 0..NConns, owed : SUBSET Conns]
         /\ [cast EXCEPT !.page = p, !.last = n] \in [on : BOOLEAN, page : SUBSET Conns, last : 0..NConns, owed : SUBSET Conns]
BY DEF RelayTypeOK

(* Whatever a scan shows, it shows the rows that are settled. *)
LEMMA ViewType ==
  ASSUME NEW view \in Views
  PROVE  view \in SUBSET Conns /\ Settled \subseteq view
BY DEF Views, Settled

(* A put settles nothing and unsettles nobody; a delete unsettles its own row. *)
LEMMA WriteSettles ==
  ASSUME RelayTypeOK, NEW k \in Conns, Put(k) \/ Delete(k)
  PROVE  /\ table' \in SUBSET Conns /\ stale' \in SUBSET Conns
         /\ Put(k) => Settled' = Settled
         /\ Delete(k) => table' = table \ {k} /\ Settled' = Settled \ {k}
BY DEF Put, Delete, RelayTypeOK, Settled

(* A change of rows of gone connections, hellos and disconnects keeps it. *)
LEMMA RowsInductive ==
  ASSUME LinkInv, UNCHANGED <<open, cast, client>>,
         table' \in SUBSET Conns, stale' \in SUBSET Conns, hello' \in SUBSET Conns,
         faults' \in 0..MaxFaults, leave' \in [Conns -> {"none", "sent", "found"}],
         \A j \in Conns : leave'[j] # "none" => leave[j] # "none",
         Settled \cap open \subseteq Settled'
  PROVE  LinkInv'
<1>1. RelayTypeOK /\ LeavesGone /\ OwedAhead
  BY DEF LinkInv, LinkTypeOK
<1>2. RelayTypeOK'
  BY <1>1 DEF RelayTypeOK
<1>3. LeavesGone'
  BY <1>1 DEF LeavesGone
<1>4. OwedAhead'
  BY <1>1 DEF OwedAhead
<1>5. LinkTypeOK'
  BY <1>2 DEF LinkInv, LinkTypeOK
<1> QED  BY <1>3, <1>4, <1>5 DEF LinkInv

(* A handled hello or ended invocation keeps the invariant (connections.py). *)
LEMMA RegistersInductive ==
  ASSUME LinkInv, NEW k \in Conns, Registers(k)  PROVE LinkInv'
<1>1. RelayTypeOK
  BY DEF LinkInv, LinkTypeOK
<1>2. /\ hello' \in SUBSET Conns /\ leave' \in [Conns -> {"none", "sent", "found"}]
      /\ faults' \in 0..MaxFaults
  BY <1>1, RelayAssumption DEF Registers, HelloHandled, Fault, RelayTypeOK
<1>3. table' \in SUBSET Conns /\ stale' \in SUBSET Conns /\ Settled' = Settled
  <2>1. CASE Put(k)
    BY <1>1, <2>1, WriteSettles
  <2>2. CASE UNCHANGED <<table, stale>>
    BY <1>1, <2>2 DEF RelayTypeOK, Settled
  <2> QED  BY <2>1, <2>2 DEF Registers, HelloHandled
<1> QED  BY <1>2, <1>3, RowsInductive DEF Registers, HelloHandled

(* A step of a disconnect keeps it: the row it deletes is of no open connection. *)
LEMMA LeavesInductive ==
  ASSUME LinkInv, NEW k \in Conns, Leaves(k)  PROVE LinkInv'
<1>1. RelayTypeOK /\ LeavesGone
  BY DEF LinkInv, LinkTypeOK
<1>2. leave[k] # "none" /\ k \notin open /\ UNCHANGED <<open, hello, cast, client>>
  BY <1>1 DEF Leaves, LeaveStep, LeaveScans, LeaveDeletes, LeaveLost, LeavesGone
<1>3. /\ faults' \in 0..MaxFaults
      /\ leave' \in [Conns -> {"none", "sent", "found"}]
      /\ \A j \in Conns : leave'[j] # "none" => leave[j] # "none"
  BY <1>1, <1>2, RelayAssumption
  DEF Leaves, LeaveStep, LeaveScans, LeaveDeletes, LeaveLost, Fault, RelayTypeOK
<1>4. table' \in SUBSET Conns /\ stale' \in SUBSET Conns /\ Settled \ {k} \subseteq Settled'
  <2>1. CASE Delete(k)
    BY <1>1, <2>1, WriteSettles
  <2>2. CASE UNCHANGED <<table, stale>>
    BY <1>1, <2>2 DEF RelayTypeOK, Settled
  <2> QED
    BY <2>1, <2>2 DEF Leaves, LeaveStep, LeaveScans, LeaveDeletes, LeaveLost
<1>5. hello' \in SUBSET Conns
  BY <1>1, <1>2 DEF RelayTypeOK
<1> QED  BY <1>2, <1>3, <1>4, <1>5, RowsInductive

(* So do a write that propagates, and the prunings of other broadcasts. *)
LEMMA SettlesInductive ==
  ASSUME LinkInv, NEW k \in Conns, Settles(k) \/ PrunedBeside(k)  PROVE LinkInv'
<1>1. RelayTypeOK
  BY DEF LinkInv, LinkTypeOK
<1>2. UNCHANGED <<open, hello, leave, cast, faults, client>>
  BY DEF Settles, PrunedBeside, Propagates, OtherPrunes
<1>3. /\ table' \in SUBSET Conns /\ stale' \in SUBSET Conns
      /\ Settled \cap open \subseteq Settled'
  <2>1. CASE Settles(k)
    BY <1>1, <2>1 DEF Settles, Propagates, RelayTypeOK, Settled
  <2>2. CASE PrunedBeside(k)
    BY <1>1, <2>2, WriteSettles DEF PrunedBeside, OtherPrunes
  <2> QED  BY <2>1, <2>2
<1>4. /\ hello' \in SUBSET Conns /\ faults' \in 0..MaxFaults
      /\ leave' \in [Conns -> {"none", "sent", "found"}]
  BY <1>1, <1>2 DEF RelayTypeOK
<1> QED  BY <1>2, <1>3, <1>4, RowsInductive

(* The broadcast keeps it: whoever it no longer owes was posted to, had a failing
   call, or is gone (forwarder.py forward_to_all). *)
LEMMA BroadcastInductive ==
  ASSUME LinkInv, CastBegins \/ CastStep, UNCHANGED client  PROVE LinkInv'
<1> USE DEF LinkInv, LinkTypeOK
<1>t. RelayTypeOK /\ LeavesGone /\ OwedAhead /\ Settled \in SUBSET Conns
  BY DEF RelayTypeOK, Settled
<1>l. UNCHANGED <<leave, open>>
  BY DEF CastBegins, CastStep, CastPosts, CastReadsOn, CastEnds, CastFails
<1>g. LeavesGone'
  BY <1>l, <1>t DEF LeavesGone
<1>1. CASE CastBegins
  <2>1. PICK view \in Views :
          cast' = [on |-> TRUE, page |-> Page(view, 0), last |-> LastKey(view, 0),
                   owed |-> Settled \cap open]
    BY <1>1 DEF CastBegins
  <2>2. view \in SUBSET Conns /\ Settled \subseteq view
    BY ViewType
  <2>3. Page(view, 0) \in SUBSET Conns /\ LastKey(view, 0) \in 0..NConns
    BY <2>2, ScanSkipsNone
  <2>4. UNCHANGED <<table, stale, hello, open, faults>> /\ Settled' = Settled
    BY <1>1 DEF CastBegins, Settled
  <2>5. RelayTypeOK'
    <3>1. Settled \cap open \in SUBSET Conns
      BY <1>t
    <3>2. cast' \in [on : BOOLEAN, page : SUBSET Conns, last : 0..NConns, owed : SUBSET Conns]
      BY <2>1, <2>3, <3>1
    <3> QED  BY <2>4, <3>2, <1>l, <1>t DEF RelayTypeOK
  <2>6. Settled \subseteq RowsAfter(view, 0)
    <3>1. \A k \in view : k > 0
      BY <2>2, ConnsAreNumbers
    <3> QED  BY <2>2, <3>1 DEF RowsAfter
  <2>7. \A k \in Settled : k \in Page(view, 0) \/ (LastKey(view, 0) # 0 /\ k > LastKey(view, 0))
    BY <2>2, <2>6, ScanSkipsNone
  <2>8. cast'.page = Page(view, 0) /\ cast'.last = LastKey(view, 0) /\ cast'.owed = Settled \cap open
    BY <2>1
  <2>9. OwedAhead'
    BY <2>4, <2>7, <2>8 DEF OwedAhead
  <2> QED  BY <2>5, <2>9, <1>g
<1>2. CASE CastPosts
  <2> DEFINE k == Nearest
  <2>1. PICK o \in SUBSET cast.owed :
          /\ cast' = [cast EXCEPT !.page = @ \ {k}, !.owed = o]
          /\ \A j \in o : j # k \/ j \notin open
    <3>1. cast = [cast EXCEPT !.owed = cast.owed]
      BY <1>t DEF RelayTypeOK
    <3>2. CASE CastReaches(k) \/ CastSkips(k)
      <4>1. cast' = [cast EXCEPT !.page = cast.page \ {k}, !.owed = cast.owed \ {k}]
        BY <3>2 DEF CastReaches, CastSkips
      <4>2. cast.owed \ {k} \in SUBSET cast.owed /\ \A j \in cast.owed \ {k} : j # k
        OBVIOUS
      <4> HIDE DEF k
      <4> QED  BY <4>1, <4>2
    <3>4. CASE CastPrunes(k)
      <4>1. cast' = [cast EXCEPT !.page = @ \ {k}, !.owed = cast.owed]
        BY <3>4, <1>t DEF CastPrunes, RelayTypeOK
      <4> QED  BY <4>1, <3>4 DEF CastPrunes
    <3> QED  BY <1>2, <3>2, <3>4 DEF CastPosts
  <2>2. /\ table' \in SUBSET Conns /\ stale' \in SUBSET Conns
        /\ Settled' \subseteq Settled /\ Settled \cap open \subseteq Settled'
    <3>1. k \in Conns
      BY <1>2, <1>t, LeastKey DEF CastPosts, Nearest, RelayTypeOK
    <3>2. CASE CastPrunes(k)
      BY <1>t, <3>1, <3>2, WriteSettles DEF CastPrunes
    <3>3. CASE UNCHANGED <<table, stale>>
      BY <1>t, <3>3 DEF RelayTypeOK, Settled
    <3> QED  BY <1>2, <3>2, <3>3 DEF CastPosts, CastReaches, CastSkips
  <2>3. faults' \in 0..MaxFaults /\ UNCHANGED <<hello, open>>
    BY <1>2, <1>t, RelayAssumption
    DEF CastPosts, CastReaches, CastSkips, CastPrunes, Fault, RelayTypeOK
  <2>4. /\ cast'.page = cast.page \ {k} /\ cast'.owed = o /\ cast'.last = cast.last
        /\ cast' \in [on : BOOLEAN, page : SUBSET Conns, last : 0..NConns, owed : SUBSET Conns]
    <3> HIDE DEF k
    <3> QED  BY <2>1, <1>t DEF RelayTypeOK
  <2>5. RelayTypeOK'
    BY <2>2, <2>3, <2>4, <1>l, <1>t DEF RelayTypeOK
  <2>6. OwedAhead'
    <3> HIDE DEF k
    <3> QED  BY <2>1, <2>2, <2>3, <2>4, <1>t DEF OwedAhead
  <2> QED  BY <2>5, <2>6, <1>g
<1>3. CASE CastReadsOn
  <2> DEFINE n == cast.last
  <2>1. PICK view \in Views :
          cast' = [cast EXCEPT !.page = Page(view, n), !.last = LastKey(view, n)]
    BY <1>3 DEF CastReadsOn
  <2>2. view \in SUBSET Conns /\ Settled \subseteq view
    BY ViewType
  <2>3. Page(view, n) \in SUBSET Conns /\ LastKey(view, n) \in 0..NConns
    BY <2>2, ScanSkipsNone
  <2>4. /\ cast'.page = Page(view, n) /\ cast'.owed = cast.owed /\ cast'.last = LastKey(view, n)
        /\ cast' \in [on : BOOLEAN, page : SUBSET Conns, last : 0..NConns, owed : SUBSET Conns]
    BY <2>1, <2>3, <1>t DEF RelayTypeOK
  <2>5. \A j \in cast.owed : j \in RowsAfter(view, n) /\ j \in Settled \cap open
    BY <1>3, <1>t, <2>2 DEF CastReadsOn, OwedAhead, RowsAfter
  <2>6. UNCHANGED <<open, table, stale, hello, faults>> /\ Settled' = Settled
    BY <1>3 DEF CastReadsOn, Settled
  <2>7. \A j \in cast.owed : j \in Page(view, n) \/ (LastKey(view, n) # 0 /\ j > LastKey(view, n))
    BY <2>2, <2>5, ScanSkipsNone
  <2>8. OwedAhead'
    BY <2>4, <2>5, <2>6, <2>7 DEF OwedAhead
  <2>9. RelayTypeOK'
    BY <2>4, <2>6, <1>l, <1>t DEF RelayTypeOK
  <2> QED  BY <2>8, <2>9, <1>g
<1>4. CASE CastEnds \/ CastFails
  <2>1. cast' = NoCast /\ faults' \in 0..MaxFaults
        /\ UNCHANGED <<table, stale, hello, open, leave>>
    BY <1>4, <1>t, RelayAssumption DEF CastEnds, CastFails, Fault, RelayTypeOK
  <2>2. RelayTypeOK' /\ OwedAhead'
    BY <2>1, <1>t, RelayAssumption DEF NoCast, RelayTypeOK, OwedAhead
  <2> QED  BY <2>2, <1>g
<1> QED  BY <1>1, <1>2, <1>3, <1>4 DEF CastStep

(* The end of a connection keeps it: the broadcast owes it nothing more. *)
LEMMA CloseInductive ==
  ASSUME LinkInv, NEW k \in Conns, Close(k), UNCHANGED <<table, stale, hello>>,
         faults' \in 0..MaxFaults
  PROVE  RelayTypeOK' /\ LeavesGone' /\ OwedAhead'
<1> USE DEF LinkInv, LinkTypeOK
<1>1. RelayTypeOK /\ LeavesGone /\ OwedAhead
  OBVIOUS
<1>2. /\ cast'.page = cast.page /\ cast'.owed = cast.owed \ {k} /\ cast'.last = cast.last
      /\ cast' \in [on : BOOLEAN, page : SUBSET Conns, last : 0..NConns, owed : SUBSET Conns]
  BY <1>1 DEF Close, RelayTypeOK
<1>3. RelayTypeOK'
  BY <1>1, <1>2 DEF Close, RelayTypeOK
<1>4. LeavesGone'
  BY <1>1 DEF Close, LeavesGone, RelayTypeOK
<1>5. OwedAhead'
  BY <1>1, <1>2 DEF Close, OwedAhead, Settled
<1> QED  BY <1>3, <1>4, <1>5

(* A step of an add-on's client keeps it (relay_ws_client.py run). *)
LEMMA ClientInductive ==
  ASSUME LinkInv, NEW a \in Addons, ClientStep(a) \/ HandlerRaises(a)  PROVE LinkInv'
<1> USE DEF LinkInv, LinkTypeOK
<1>t. RelayTypeOK /\ LeavesGone /\ OwedAhead
  OBVIOUS
<1>c. client \in [Addons -> [pc : {"waiting", "connected", "listening"}, conn : 0..NConns]]
  OBVIOUS
<1>n. Conns \subseteq 0..NConns /\ 0 \in 0..NConns
  BY RelayAssumption DEF Conns
<1>1. CASE Connect(a)
  <2>1. PICK k \in Unused : /\ open' = open \cup {k}
                            /\ client' = [client EXCEPT ![a] = [pc |-> "connected", conn |-> k]]
    BY <1>1 DEF Connect
  <2>2. k \in Conns /\ leave[k] = "none"
    BY DEF Unused
  <2>3. RelayTypeOK'
    BY <2>1, <2>2, <1>1, <1>t DEF Connect, RelayTypeOK
  <2>4. client' \in [Addons -> [pc : {"waiting", "connected", "listening"}, conn : 0..NConns]]
    BY <2>1, <2>2, <1>c, <1>n
  <2> QED
    BY <2>1, <2>2, <2>3, <2>4, <1>1, <1>t DEF Connect, LeavesGone, OwedAhead, Settled
<1>2. CASE SendHello(a)
  <2>1. client' \in [Addons -> [pc : {"waiting", "connected", "listening"}, conn : 0..NConns]]
    BY <1>2, <1>c DEF SendHello
  <2>2. RelayTypeOK'
    BY <1>2, <1>t DEF SendHello, RelayTypeOK
  <2> QED
    BY <2>1, <2>2, <1>2, <1>t DEF SendHello, LeavesGone, OwedAhead, Settled
<1>3. CASE Notices(a)
  <2>1. client' \in [Addons -> [pc : {"waiting", "connected", "listening"}, conn : 0..NConns]]
    BY <1>3, <1>c, <1>n DEF Notices, Waiting
  <2> QED
    BY <2>1, <1>3, <1>t DEF Notices, relayVars, RelayTypeOK, LeavesGone, OwedAhead, Settled
<1>4. CASE HandlerRaises(a)
  <2>1. client' \in [Addons -> [pc : {"waiting", "connected", "listening"}, conn : 0..NConns]]
    BY <1>4, <1>c, <1>n DEF HandlerRaises, Waiting
  <2>2. client[a].conn \in Conns /\ faults' \in 0..MaxFaults
    BY <1>4, <1>t, RelayAssumption DEF HandlerRaises, Fault, RelayTypeOK
  <2> QED
    BY <2>1, <2>2, <1>4, CloseInductive DEF HandlerRaises
<1> QED  BY <1>1, <1>2, <1>3, <1>4 DEF ClientStep

(* Every step keeps the invariant. *)
LEMMA LinkInductive == LinkInv /\ [Next]_vars => LinkInv'
<1> SUFFICES ASSUME LinkInv, [Next]_vars  PROVE LinkInv'
  OBVIOUS
<1>1. CASE Drops
  <2>1. PICK k \in open : Close(k)
    BY <1>1 DEF Drops
  <2>2. k \in Conns /\ faults \in 0..MaxFaults
    BY DEF LinkInv, LinkTypeOK, RelayTypeOK
  <2> QED
    BY <2>1, <2>2, <1>1, CloseInductive DEF Drops, LinkInv, LinkTypeOK
<1>2. CASE UNCHANGED vars
  BY <1>2 DEF vars, relayVars, LinkInv, LinkTypeOK, RelayTypeOK, LeavesGone, OwedAhead, Settled
<1> QED
  BY <1>1, <1>2, ClientInductive, RegistersInductive, LeavesInductive, SettlesInductive,
     BroadcastInductive
  DEF Next, Broadcasts

(***************************************************************************)
(* Results.                                                                *)
(***************************************************************************)

(* The invariant holds throughout (connections.py, forwarder.py). *)
THEOREM LinkInvariant == Spec => []LinkInv
<1>1. Init => LinkInv
  BY RelayAssumption
  DEF Init, RelayInit, NoCast, Waiting, LinkInv, LinkTypeOK, RelayTypeOK, LeavesGone, OwedAhead
<1> QED  BY <1>1, LinkInductive, PTL DEF Spec

(* Every variable of relay and clients keeps its type. *)
THEOREM LinkTypeCorrect == Spec => []LinkTypeOK
<1>1. LinkInv => LinkTypeOK
  BY DEF LinkInv
<1> QED  BY <1>1, LinkInvariant, PTL

(* A 202 means that everyone whose row all scans showed throughout the broadcast
   was posted to, however the table changes under its pages and whatever else a
   scan shows (webhook_handler.py, connections.py). *)
THEOREM EveryoneReached == Spec => []AcknowledgedReached
<1>1. LinkInv => AcknowledgedReached
  BY DEF LinkInv, LinkTypeOK, RelayTypeOK, OwedAhead, Answering, AcknowledgedReached
<1> QED  BY <1>1, LinkInvariant, PTL

(* A step removes the row of no connection that stays open (connections.py,
   forwarder.py). *)
THEOREM RowsStay == Spec => RegisteredStays
<1>1. LinkInv /\ [Next]_vars => [table \cap open \cap open' \subseteq table']_vars
  <2> SUFFICES ASSUME LinkInv, Next  PROVE table \cap open \cap open' \subseteq table'
    OBVIOUS
  <2>1. \A k \in Conns : leave[k] # "none" => k \notin open
    BY DEF LinkInv, LeavesGone
  <2>2. ASSUME NEW k, Put(k)  PROVE table \subseteq table'
    BY <2>2 DEF Put
  <2>3. ASSUME NEW k, Delete(k), k \notin open  PROVE table \cap open \subseteq table'
    BY <2>3 DEF Delete
  <2> QED
    BY <2>1, <2>2, <2>3
    DEF Next, ClientStep, Connect, SendHello, Notices, HandlerRaises, Registers, HelloHandled,
        Leaves, LeaveStep, LeaveScans, LeaveDeletes, LeaveLost, CastBegins, Broadcasts,
        CastStep, CastPosts, CastReaches, CastPrunes, CastSkips, CastReadsOn, CastEnds,
        CastFails, Settles, Propagates, PrunedBeside, OtherPrunes, Drops, relayVars
<1> QED  BY <1>1, LinkInvariant, PTL DEF Spec, RegisteredStays

(***************************************************************************)
(* The relay implements RelayService.                                      *)
(***************************************************************************)

Listening == Settled \cap open
Failed == MaxFaults - faults
ServiceStep == Service!Next \/ UNCHANGED <<Listening, cast.on, cast.owed, Failed>>

(* A fault is one more failure of the service. *)
LEMMA FaultFails ==
  ASSUME RelayTypeOK, Fault  PROVE Failed' = Failed + 1
BY RelayAssumption DEF RelayTypeOK, Fault, Failed

(* A step that changes nobody's listening and leaves the broadcast alone is none
   of the service's, or a failure by itself. *)
LEMMA NoServiceStep ==
  ASSUME RelayTypeOK, Listening' = Listening, cast' = cast, UNCHANGED faults \/ Fault
  PROVE  ServiceStep
<1>1. CASE UNCHANGED faults
  BY <1>1 DEF ServiceStep, Failed
<1>2. CASE Fault
  <2>1. Service!Fail
    BY <1>2, FaultFails DEF Service!Fail, Listening, Failed
  <2> QED  BY <2>1 DEF ServiceStep, Service!Next
<1> QED  BY <1>1, <1>2

(* The end of a connection is one of the service's, or none (API Gateway). *)
LEMMA CloseRefines ==
  ASSUME LinkInv, NEW k \in Conns, Close(k), UNCHANGED <<table, stale>>,
         UNCHANGED faults \/ Fault
  PROVE  ServiceStep
<1>1. /\ Listening' = Listening \ {k} /\ cast'.on = cast.on
      /\ cast'.owed = cast.owed \ {k}
  BY DEF LinkInv, LinkTypeOK, RelayTypeOK, Close, Listening, Settled
<1>2. Failed' \in {Failed, Failed + 1}
  BY FaultFails DEF LinkInv, LinkTypeOK, Failed
<1>3. Service!End(k)
  BY <1>1, <1>2 DEF Service!End, Listening, Failed
<1> QED  BY <1>3 DEF ServiceStep, Service!Next

(* A hello, a disconnect and a client's step (websocket_default.py,
   connections.py, relay_ws_client.py). *)
LEMMA RegistersRefines ==
  ASSUME LinkInv, NEW k \in Conns, Registers(k)  PROVE ServiceStep
<1>1. RelayTypeOK /\ UNCHANGED <<open, cast>>
  BY DEF LinkInv, LinkTypeOK, Registers, HelloHandled
<1>2. CASE Put(k) /\ UNCHANGED faults
  <2>1. Listening' = Listening
    BY <1>1, <1>2, WriteSettles DEF Listening
  <2> QED  BY <1>1, <1>2, <2>1, NoServiceStep
<1>3. CASE Fault /\ UNCHANGED <<table, stale>>
  <2>1. Listening' = Listening
    BY <1>1, <1>3 DEF Listening, Settled
  <2> QED  BY <1>1, <1>3, <2>1, NoServiceStep
<1> QED  BY <1>2, <1>3 DEF Registers, HelloHandled

LEMMA LeavesRefines ==
  ASSUME LinkInv, NEW k \in Conns, Leaves(k)  PROVE ServiceStep
<1>1. RelayTypeOK /\ leave[k] # "none" /\ k \notin open /\ UNCHANGED <<open, cast>>
  BY DEF LinkInv, LinkTypeOK, LeavesGone,
         Leaves, LeaveStep, LeaveScans, LeaveDeletes, LeaveLost
<1>2. UNCHANGED faults \/ Fault
  BY DEF Leaves, LeaveStep, LeaveScans, LeaveDeletes, LeaveLost
<1>3. Listening' = Listening
  <2>1. CASE Delete(k)
    BY <1>1, <2>1, WriteSettles DEF Listening
  <2>2. CASE UNCHANGED <<table, stale>>
    BY <1>1, <2>2 DEF Listening, Settled
  <2> QED
    BY <2>1, <2>2 DEF Leaves, LeaveStep, LeaveScans, LeaveDeletes, LeaveLost
<1> QED  BY <1>1, <1>2, <1>3, NoServiceStep

(* A registration that has propagated is the service's Register; the prunings of
   other broadcasts are nothing to it (connections.py). *)
LEMMA SettlesRefines ==
  ASSUME LinkInv, NEW k \in Conns, Settles(k) \/ PrunedBeside(k)  PROVE ServiceStep
<1>1. RelayTypeOK /\ UNCHANGED <<open, cast, faults>>
  BY DEF LinkInv, LinkTypeOK, Settles, PrunedBeside, Propagates, OtherPrunes
<1>2. CASE Settles(k) /\ k \in table \cap open
  <2>1. Listening' = Listening \cup {k}
    BY <1>1, <1>2 DEF Settles, Propagates, Listening, Settled
  <2>2. Service!Register(k)
    BY <1>1, <2>1 DEF Listening, Service!Register
  <2> QED  BY <2>2 DEF ServiceStep, Service!Next
<1>3. CASE Settles(k) /\ k \notin table \cap open
  <2>1. Listening' = Listening
    BY <1>1, <1>3 DEF Settles, Propagates, Listening, Settled
  <2> QED  BY <1>1, <2>1, NoServiceStep
<1>4. CASE PrunedBeside(k)
  <2>1. Listening' = Listening
    BY <1>1, <1>4, WriteSettles DEF PrunedBeside, OtherPrunes, Listening
  <2> QED  BY <1>1, <2>1, NoServiceStep
<1> QED  BY <1>2, <1>3, <1>4

LEMMA ClientRefines ==
  ASSUME LinkInv, NEW a \in Addons, ClientStep(a) \/ HandlerRaises(a)  PROVE ServiceStep
<1>1. RelayTypeOK
  BY DEF LinkInv, LinkTypeOK
<1>2. CASE ClientStep(a)
  <2>1. Listening' = Listening /\ cast' = cast /\ UNCHANGED faults
    BY <1>2 DEF ClientStep, Connect, SendHello, Notices, Unused, relayVars, Listening, Settled
  <2> QED  BY <1>1, <2>1, NoServiceStep
<1>3. CASE HandlerRaises(a)
  BY <1>1, <1>3, CloseRefines DEF HandlerRaises, RelayTypeOK
<1> QED  BY <1>2, <1>3

(* Each step of a broadcast begins it, reaches or skips one, or ends it. *)
LEMMA BroadcastRefines ==
  ASSUME LinkInv, CastBegins \/ CastStep  PROVE ServiceStep
<1>1. RelayTypeOK
  BY DEF LinkInv, LinkTypeOK
<1>2. CASE CastBegins
  <2>1. cast'.on /\ cast'.owed = Listening /\ Listening' = Listening /\ cast'.on \in BOOLEAN
    BY <1>2 DEF CastBegins, Listening, Settled
  <2>2. Service!Begin
    BY <1>2, <2>1 DEF CastBegins, Service!Begin, Listening
  <2> QED  BY <2>2 DEF ServiceStep, Service!Next
<1>3. CASE CastPosts
  <2>1. PICK k \in Conns : /\ CastReaches(k) \/ CastPrunes(k) \/ CastSkips(k)
                           /\ cast.on /\ UNCHANGED open
    <3>1. Nearest \in Conns
      BY <1>1, <1>3, LeastKey DEF CastPosts, Nearest, RelayTypeOK
    <3> HIDE DEF Nearest
    <3> QED  BY <1>3, <3>1 DEF CastPosts
  <2>2. CASE CastReaches(k)
    <3>1. cast'.on = cast.on /\ cast'.owed = cast.owed \ {k}
      BY <1>1, <2>2 DEF CastReaches, RelayTypeOK
    <3>2. Service!Reach(k)
      BY <2>1, <2>2, <3>1 DEF CastReaches, Service!Reach, Settled
    <3> QED  BY <3>2 DEF ServiceStep, Service!Next
  <2>3. CASE CastPrunes(k)
    <3>1. cast'.on = cast.on /\ cast'.owed = cast.owed /\ Listening' = Listening
      BY <1>1, <2>1, <2>3, WriteSettles DEF CastPrunes, RelayTypeOK, Listening
    <3> QED  BY <2>3, <3>1 DEF CastPrunes, ServiceStep, Failed
  <2>4. CASE CastSkips(k)
    <3>1. cast'.on = cast.on /\ cast'.owed = cast.owed \ {k} /\ Failed' = Failed + 1
      BY <1>1, <2>4, FaultFails DEF CastSkips, RelayTypeOK
    <3>2. Service!Skip(k)
      BY <2>1, <2>4, <3>1 DEF CastSkips, Service!Skip, Failed, Settled
    <3> QED  BY <3>2 DEF ServiceStep, Service!Next
  <2> QED  BY <2>1, <2>2, <2>3, <2>4
<1>4. CASE CastReadsOn
  <2>1. cast'.on = cast.on /\ cast'.owed = cast.owed
    BY <1>1, <1>4 DEF CastReadsOn, RelayTypeOK
  <2> QED  BY <1>4, <2>1 DEF CastReadsOn, ServiceStep, Listening, Failed, Settled
<1>5. CASE CastEnds
  <2>1. cast.owed = {}
    BY <1>5, <1>1 DEF CastEnds, Answering, LinkInv, OwedAhead
  <2>2. Service!Acknowledge
    BY <1>5, <2>1 DEF CastEnds, Answering, NoCast, Service!Acknowledge, Settled
  <2> QED  BY <2>2 DEF ServiceStep, Service!Next
<1>6. CASE CastFails
  <2>1. Service!GiveUp
    BY <1>1, <1>6, FaultFails DEF CastFails, NoCast, Service!GiveUp, Failed, Settled
  <2> QED  BY <2>1 DEF ServiceStep, Service!Next
<1> QED  BY <1>2, <1>3, <1>4, <1>5, <1>6 DEF CastStep

(* Each step of relay and clients is one of the service, or none. *)
LEMMA StepServes == LinkInv /\ [Next]_vars => ServiceStep
<1> SUFFICES ASSUME LinkInv, [Next]_vars  PROVE ServiceStep
  OBVIOUS
<1>1. RelayTypeOK
  BY DEF LinkInv, LinkTypeOK
<1>2. CASE Drops
  <2>1. PICK k \in open : Close(k)
    BY <1>2 DEF Drops
  <2> QED  BY <1>1, <1>2, <2>1, CloseRefines DEF Drops, RelayTypeOK
<1>3. CASE UNCHANGED vars
  BY <1>1, <1>3, NoServiceStep DEF vars, relayVars, Listening, Settled
<1> QED
  BY <1>2, <1>3, ClientRefines, RegistersRefines, LeavesRefines, SettlesRefines,
     BroadcastRefines
  DEF Next, Broadcasts

(* Clients, functions and table implement RelayService: whatever pages, stale
   rows, late disconnects and prunings do, a step makes one connection listen,
   end, be reached or cost a failure, and a 202 leaves nobody out who cost none
   (connections.py, forwarder.py, webhook_handler.py, relay_ws_client.py). *)
THEOREM ImplementsService == Spec => RefinesRelayService
<1>1. Init => Service!Init
  BY RelayAssumption DEF Init, RelayInit, NoCast, Settled, Service!Init
<1>2. LinkInv /\ [Next]_vars =>
        [Service!Next]_<<Settled \cap open, cast.on, cast.owed, MaxFaults - faults>>
  BY StepServes DEF ServiceStep, Listening, Failed
<1> QED
  BY <1>1, <1>2, LinkInvariant, PTL
  DEF Spec, RefinesRelayService, Service!Spec, Service!serviceVars
=============================================================================
