-------------------------------- MODULE Relay --------------------------------
(***************************************************************************)
(* relay/lambda: the DynamoDB table of connections, the Lambda functions   *)
(* that register and forget them, and the broadcast of a notification.     *)
(* API Gateway (external) invokes the functions of one connection at the   *)
(* same time, in any order, and a scan of the table is eventually          *)
(* consistent: nothing asks for ConsistentRead.  A connection belongs to   *)
(* one site, so its id alone stands for the table's key; ids are numbered  *)
(* in the order a scan returns them.                                       *)
(***************************************************************************)
EXTENDS Naturals, FiniteSets

CONSTANTS
  NConns,    \* number of connection ids at a time
  PageSize,  \* rows one DynamoDB scan returns
  MaxFaults  \* bound on failed invocations, calls and lost events

ASSUME RelayAssumption == NConns \in Nat \ {0} /\ PageSize \in Nat \ {0} /\ MaxFaults \in Nat

Conns == 1..NConns

VARIABLES
  open,    \* the connections API Gateway holds open
  table,   \* the rows of the connections table, as last written
  stale,   \* ids of which a scan may still show what was before the last write
  hello,   \* connections whose hello waits to be handled
  leave,   \* the disconnect invocation of each connection
  cast,    \* a broadcast under way (OtherPrunes stands for those beside it)
  faults   \* faults left

relayVars == <<open, table, stale, hello, leave, cast, faults>>

(* page: rows still to post to; last: LastEvaluatedKey, 0 when the scan is
   complete; owed, for the properties: the connections that every scan showed when
   the broadcast began, open ever since, and neither posted to nor given up. *)
NoCast == [on |-> FALSE, page |-> {}, last |-> 0, owed |-> {}]

RelayTypeOK ==
  /\ open \in SUBSET Conns /\ table \in SUBSET Conns
  /\ stale \in SUBSET Conns /\ hello \in SUBSET Conns
  /\ leave \in [Conns -> {"none", "sent", "found"}]
  /\ cast \in [on : BOOLEAN, page : SUBSET Conns, last : 0..NConns, owed : SUBSET Conns]
  /\ faults \in 0..MaxFaults

RelayInit ==
  /\ open = {} /\ table = {} /\ stale = {} /\ hello = {}
  /\ leave = [k \in Conns |-> "none"]
  /\ cast = NoCast
  /\ faults = MaxFaults

Fault == faults > 0 /\ faults' = faults - 1

(* The rows every scan shows, and what a scan may show. *)
Settled == table \ stale
Views == {view \in SUBSET Conns : view \ stale = Settled}

Put(k) ==
  table' = table \cup {k} /\ stale' = IF k \in table THEN stale ELSE stale \cup {k}
Delete(k) ==
  table' = table \ {k} /\ stale' = IF k \in table THEN stale \cup {k} ELSE stale

(* The last write of k has reached all of DynamoDB. *)
Propagates(k) ==
  /\ k \in stale /\ stale' = stale \ {k}
  /\ UNCHANGED <<open, table, hello, leave, cast, faults>>

(* One scan's rows, after key last, and the key to go on from. *)
RowsAfter(view, last) == {k \in view : k > last}
Page(view, last) ==
  {k \in RowsAfter(view, last) :
     Cardinality({j \in RowsAfter(view, last) : j <= k}) <= PageSize}

(* Mutant: only the first page of the table is read. *)
LastKey_OnePage(view, last) == 0

(* Mutant: the key is that of the row after the page. *)
LastKey_Next(view, last) ==
  IF Page(view, last) = {} THEN 0
  ELSE 1 + CHOOSE k \in Page(view, last) : \A j \in Page(view, last) : j <= k

LastKey(view, last) ==
  IF Page(view, last) = RowsAfter(view, last) THEN 0
  ELSE CHOOSE k \in Page(view, last) : \A j \in Page(view, last) : j <= k

(***************************************************************************)
(* websocket_default: a hello with the right token is put in the table;    *)
(* its ack is best effort.  A ping without site_id changes nothing.        *)
(***************************************************************************)
HelloHandled(k) ==
  /\ k \in hello /\ hello' = hello \ {k}
  /\ \/ Put(k) /\ UNCHANGED faults
     \/ Fault /\ UNCHANGED <<table, stale>>   \* wrong token, or the invocation fails
  /\ UNCHANGED <<open, leave, cast>>

(***************************************************************************)
(* websocket_disconnect: delete_connection_everywhere scans one page of    *)
(* the table, then deletes the row it found.                               *)
(***************************************************************************)
LeaveScans(k) ==
  /\ leave[k] = "sent"
  /\ \E view \in Views :
       leave' = [leave EXCEPT ![k] = IF k \in Page(view, 0) THEN "found" ELSE "none"]
  /\ UNCHANGED <<open, table, stale, hello, cast, faults>>

LeaveDeletes(k) ==
  /\ leave[k] = "found"
  /\ Delete(k)
  /\ leave' = [leave EXCEPT ![k] = "none"]
  /\ UNCHANGED <<open, hello, cast, faults>>

(* $disconnect is best effort, and the invocation may fail. *)
LeaveLost(k) ==
  /\ leave[k] # "none" /\ Fault
  /\ leave' = [leave EXCEPT ![k] = "none"]
  /\ UNCHANGED <<open, table, stale, hello, cast>>

(***************************************************************************)
(* webhook_handler and forward_to_all: pages are read as the broadcast     *)
(* gets to them.                                                           *)
(***************************************************************************)
CastBegins ==
  /\ ~cast.on
  /\ \E view \in Views :
       cast' = [on |-> TRUE, page |-> Page(view, 0), last |-> LastKey(view, 0),
                owed |-> Settled \cap open]
  /\ UNCHANGED <<open, table, stale, hello, leave, faults>>

Nearest == CHOOSE k \in cast.page : \A j \in cast.page : k <= j

(* Mutant: connections that are gone stay in the table. *)
CastPrunes_Never(k) ==
  /\ k \notin open
  /\ cast' = [cast EXCEPT !.page = @ \ {k}]
  /\ UNCHANGED <<table, stale, faults>>

CastReaches(k) ==
  /\ k \in open
  /\ cast' = [cast EXCEPT !.page = @ \ {k}, !.owed = @ \ {k}]
  /\ UNCHANGED <<table, stale, faults>>

(* GoneException: the row is deleted. *)
CastPrunes(k) ==
  /\ k \notin open
  /\ cast' = [cast EXCEPT !.page = @ \ {k}]
  /\ Delete(k)
  /\ UNCHANGED faults

(* Mutant: any ClientError prunes the connection. *)
CastSkips_Prunes(k) ==
  /\ Fault
  /\ cast' = [cast EXCEPT !.page = @ \ {k}, !.owed = @ \ {k}]
  /\ Delete(k)

(* Any other ClientError is logged: this connection goes without. *)
CastSkips(k) ==
  /\ Fault
  /\ cast' = [cast EXCEPT !.page = @ \ {k}, !.owed = @ \ {k}]
  /\ UNCHANGED <<table, stale>>

CastPosts ==
  /\ cast.on /\ cast.page # {}
  /\ CastReaches(Nearest) \/ CastPrunes(Nearest) \/ CastSkips(Nearest)
  /\ UNCHANGED <<open, hello, leave>>

CastReadsOn ==
  /\ cast.on /\ cast.page = {} /\ cast.last # 0
  /\ \E view \in Views :
       cast' = [cast EXCEPT !.page = Page(view, cast.last), !.last = LastKey(view, cast.last)]
  /\ UNCHANGED <<open, table, stale, hello, leave, faults>>

(* The handler answers 202, however many connections it reached. *)
Answering == cast.on /\ cast.page = {} /\ cast.last = 0

CastEnds ==
  /\ Answering
  /\ cast' = NoCast
  /\ UNCHANGED <<open, table, stale, hello, leave, faults>>

(* Mutant: a broadcast that raises is answered 202 all the same. *)
CastFails_Answers ==
  /\ cast.on
  /\ cast' = NoCast
  /\ UNCHANGED <<open, table, stale, hello, leave, faults>>

(* Any other exception: the invocation fails and Graph will post again. *)
CastFails ==
  /\ cast.on /\ Fault
  /\ cast' = NoCast
  /\ UNCHANGED <<open, table, stale, hello, leave>>

(* Another webhook invocation finds k gone: what broadcasts change for each other
   is only the table. *)
OtherPrunes(k) ==
  /\ k \notin open /\ k \in table
  /\ Delete(k)
  /\ UNCHANGED <<open, hello, leave, cast, faults>>

CastStep == CastPosts \/ CastReadsOn \/ CastEnds \/ CastFails
LeaveStep(k) == LeaveScans(k) \/ LeaveDeletes(k) \/ LeaveLost(k)
=============================================================================
