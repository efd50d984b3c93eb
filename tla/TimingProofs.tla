---------------------------- MODULE TimingProofs ----------------------------
(***************************************************************************)
(* Proofs about Timing: with the headroom the assumptions ask for, no      *)
(* record passes its expiry in a running add-on and no request arrives     *)
(* with an expired token, for any lengths of time.                         *)
(***************************************************************************)
EXTENDS Timing, TLAPS

(***************************************************************************)
(* The renewal loop.  A record's expiry is further away than the renewal   *)
(* task's way to it, at most, with what may still be lost of Grace.        *)
(***************************************************************************)
WayTo(i) ==
  IF round = "sleep" THEN Period - timer + 2 * Hold
  ELSE IF round = "lock" THEN 2 * Hold - timer
  ELSE IF i \in list THEN Hold - timer
  ELSE Hold - timer + Cycle

InTime == \A i \in held \ loaded : expires[i] > grace + WayTo(i)

ClockInv == ClockTypeOK /\ InTime

(* What a clock reads later is a time to an expiry too (RenewalClock's After). *)
LEMMA AfterType ==
  ASSUME ClockTypeOK, NEW d \in Nat
  PROVE  After(d) \in [Subs -> 0..Lifetime]
BY ClockAssumption DEF ClockTypeOK, After

(* A record made or renewed now expires later than all that may come before its
   next renewal (RenewalClock's Asked). *)
LEMMA AskedLate ==
  ASSUME ClockTypeOK, NEW i \in Subs, NEW waited \in 0..Hold, Asked(i, waited)
  PROVE  /\ expires' \in [Subs -> 0..Lifetime]
         /\ \A j \in Subs \ {i} : expires'[j] = expires[j]
         /\ expires'[i] > Grace + Cycle + Hold - waited
<1>1. PICK d \in 0..waited : expires' = [expires EXCEPT ![i] = Lifetime - d]
  BY DEF Asked
<1>2. Cycle \in Nat /\ d <= Hold /\ Lifetime - d \in 0..Lifetime
  BY ClockAssumption DEF Cycle
<1> QED
  BY <1>1, <1>2, ClockAssumption DEF ClockTypeOK

(* Every step of the renewal loop and of time keeps the invariant. *)
LEMMA ClockInductive == ClockInv /\ [RenewalStep \/ TimePasses]_clockVars => ClockInv'
<1> SUFFICES ASSUME ClockInv, [RenewalStep \/ TimePasses]_clockVars
             PROVE  ClockTypeOK' /\ InTime'
  BY DEF ClockInv
<1> USE ClockAssumption
<1>n. Lifetime \in Nat /\ Headroom \in Nat /\ Period \in Nat /\ Hold \in Nat /\ Grace \in Nat
  OBVIOUS
<1> USE <1>n
<1>t. ClockTypeOK /\ InTime
  BY DEF ClockInv
<1>c. Cycle \in Nat /\ Cycle = Period + 2 * Hold
  BY DEF Cycle
<1>1. CASE Wakes
  BY <1>1, <1>t, <1>c DEF Wakes, Enter, ClockTypeOK, InTime, WayTo
<1>2. CASE Locked
  <2>1. ClockTypeOK'
    BY <1>2, <1>t DEF Locked, Enter, Due, ClockTypeOK
  <2>2. ASSUME NEW i \in held \ loaded'  PROVE expires[i] > grace + Hold + (IF i \in list' THEN 0 ELSE Cycle)
    <3>1. i \in list' <=> expires[i] <= Headroom - timer
      BY <1>2 DEF Locked, Due
    <3>2. i \in list' => i \notin loaded
      BY <2>2, <1>2 DEF Locked
    <3>3. expires[i] \in Nat /\ timer \in 0..Hold /\ grace \in 0..Grace
      BY <1>2, <1>t DEF Locked, ClockTypeOK
    <3>4. CASE i \in list'
      BY <3>4, <3>2, <3>3, <1>2, <1>t DEF Locked, InTime, WayTo
    <3>5. CASE i \notin list'
      BY <3>5, <3>1, <3>3, <1>c
    <3> QED  BY <3>4, <3>5
  <2> QED
    BY <2>1, <2>2, <1>2, <1>c DEF Locked, Enter, InTime, WayTo, ClockTypeOK
<1>3. CASE RoundEnds
  BY <1>3, <1>t, <1>c DEF RoundEnds, Enter, ClockTypeOK, InTime, WayTo
<1>4. CASE RoundLost
  <2>1. ClockTypeOK'
    BY <1>4, <1>t, <1>c DEF RoundLost, Enter, ClockTypeOK
  <2>2. ASSUME NEW i \in held \ loaded  PROVE expires[i] > grace
    BY <1>4, <1>t, <1>c DEF RoundLost, ClockTypeOK, InTime, WayTo
  <2> QED
    BY <2>1, <2>2, <1>4, <1>t, <1>c DEF RoundLost, Enter, InTime, WayTo, ClockTypeOK
<1>5. CASE Restarts
  <2>1. expires' \in [Subs -> 0..Lifetime]
    BY <1>5, <1>t, AfterType DEF Restarts
  <2> QED
    BY <2>1, <1>5, <1>t DEF Restarts, Enter, ClockTypeOK, InTime
<1>6. ASSUME NEW i \in Subs, Renewed(i)  PROVE ClockTypeOK' /\ InTime'
  <2>1. /\ expires' \in [Subs -> 0..Lifetime]
        /\ \A j \in Subs \ {i} : expires'[j] = expires[j]
        /\ expires'[i] > Grace + Cycle + Hold - timer
    BY <1>6, <1>t, AskedLate DEF Renewed, ClockTypeOK
  <2>2. ClockTypeOK'
    BY <2>1, <1>6, <1>t DEF Renewed, ClockTypeOK
  <2>3. ASSUME NEW j \in (held \ loaded)'  PROVE expires'[j] > (grace + WayTo(j))'
    <3>1. CASE j = i
      BY <3>1, <2>1, <2>2, <1>6, <1>t, <1>c DEF Renewed, WayTo, ClockTypeOK
    <3>2. CASE j # i
      BY <3>2, <2>1, <1>6, <1>t DEF Renewed, WayTo, InTime, ClockTypeOK
    <3> QED  BY <3>1, <3>2
  <2> QED  BY <2>2, <2>3 DEF InTime
<1>7. ASSUME NEW i \in Subs, Refused(i)  PROVE ClockTypeOK' /\ InTime'
  BY <1>7, <1>t DEF Refused, ClockTypeOK, InTime, WayTo
<1>8. ASSUME NEW i \in Subs, Created(i)  PROVE ClockTypeOK' /\ InTime'
  <2>1. /\ expires' \in [Subs -> 0..Lifetime]
        /\ \A j \in Subs \ {i} : expires'[j] = expires[j]
        /\ expires'[i] > Grace + Cycle + Hold - Hold
    BY <1>8, <1>t, AskedLate DEF Created
  <2>2. ClockTypeOK'
    BY <2>1, <1>8, <1>t DEF Created, ClockTypeOK
  <2>3. ASSUME NEW j \in (held \ loaded)'  PROVE expires'[j] > (grace + WayTo(j))'
    <3>1. CASE j = i
      BY <3>1, <2>1, <2>2, <1>8, <1>t, <1>c DEF Created, WayTo, ClockTypeOK
    <3>2. CASE j # i
      BY <3>2, <2>1, <1>8, <1>t DEF Created, WayTo, InTime, ClockTypeOK
    <3> QED  BY <3>1, <3>2
  <2> QED  BY <2>2, <2>3 DEF InTime
<1>9. ASSUME NEW i \in Subs, Deleted(i)  PROVE ClockTypeOK' /\ InTime'
  <2> QED
    BY <1>9, <1>t DEF Deleted, ClockTypeOK, InTime, WayTo
<1>10. CASE TimePasses
  <2>1. expires' \in [Subs -> 0..Lifetime]
    BY <1>10, <1>t, AfterType DEF TimePasses
  <2>2. ClockTypeOK'
    BY <2>1, <1>10, <1>t DEF TimePasses, ClockTypeOK
  <2>3. ASSUME NEW j \in held \ loaded  PROVE expires'[j] > (grace + WayTo(j))'
    <3>1. grace \in Nat /\ expires[j] \in Nat /\ expires[j] > grace + WayTo(j)
      BY <1>t DEF ClockTypeOK, InTime
    <3>2. WayTo(j)' = WayTo(j) - 1 /\ WayTo(j) \in Nat /\ WayTo(j) > 0
      <4>1. timer' = timer + 1 /\ round' = round /\ list' = list
        BY <1>10 DEF TimePasses
      <4>2. timer \in Nat /\ timer < (IF round = "sleep" THEN Period ELSE Hold)
        BY <1>10, <1>t DEF TimePasses, ClockTypeOK
      <4> QED
        BY <4>1, <4>2, <1>c DEF WayTo
    <3>3. expires'[j] = IF expires[j] > 1 THEN expires[j] - 1 ELSE 0
      BY <1>10, <1>t DEF TimePasses, After, ClockTypeOK
    <3> QED
      BY <3>1, <3>2, <3>3, <1>10 DEF TimePasses
  <2> QED  BY <2>2, <2>3, <1>10 DEF TimePasses, InTime
<1>11. CASE UNCHANGED clockVars
  BY <1>11, <1>t DEF clockVars, ClockTypeOK, InTime, WayTo
<1> QED
  BY <1>1, <1>2, <1>3, <1>4, <1>5, <1>6, <1>7, <1>8, <1>9, <1>10, <1>11 DEF RenewalStep

(***************************************************************************)
(* The token.                                                              *)
(***************************************************************************)

(* The cached token outlives the time it is trusted for by the margin, less the
   way of its answer; tokens on their way have time left to arrive. *)
TokenInv ==
  /\ TokenTypeOK
  /\ fresh > 0 => token >= fresh + Margin - Latency
  /\ \A t \in Tasks :
       /\ call[t].at = "issued" => call[t].token >= TokenLife - call[t].age
       /\ call[t].at = "sent" => call[t].token > Latency - call[t].age

(* Every step of a call and of time keeps the invariant. *)
LEMMA TokenInductive == TokenInv /\ [TokenStep \/ TokensAge]_tokenVars => TokenInv'
<1> SUFFICES ASSUME TokenInv, [TokenStep \/ TokensAge]_tokenVars  PROVE TokenInv'
  OBVIOUS
<1> USE TokenAssumption DEF TokenInv, TokenTypeOK
<1>n. TokenLife \in Nat /\ Margin \in Nat /\ Latency \in Nat
  OBVIOUS
<1> USE <1>n
<1>1. ASSUME NEW t \in Tasks, Calls(t)  PROVE TokenInv'
  BY <1>1 DEF Calls, Goes, TokenInv, TokenTypeOK
<1>2. ASSUME NEW t \in Tasks, Issued(t)  PROVE TokenInv'
  BY <1>2 DEF Issued, Goes, TokenInv, TokenTypeOK
<1>3. ASSUME NEW t \in Tasks, Fetched(t)  PROVE TokenInv'
  BY <1>3 DEF Fetched, Trusted, Goes, TokenInv, TokenTypeOK
<1>4. ASSUME NEW t \in Tasks, CallOver(t)  PROVE TokenInv'
  BY <1>4 DEF CallOver, NoCall, TokenInv, TokenTypeOK
<1>5. CASE TokensAge
  <2>1. ASSUME NEW n \in 0..TokenLife  PROVE Less(n) \in 0..TokenLife /\ Less(n) >= n - 1
    BY DEF Less
  <2>2. TokenTypeOK'
    <3>1. ASSUME NEW t \in Tasks
          PROVE  call'[t] \in [at : {"none", "fetch", "issued", "sent"},
                              age : 0..Latency, token : 0..TokenLife]
      <4>1. CASE call[t].at \in {"issued", "sent"}
        <5>1. call[t].age + 1 \in 0..Latency
          <6>1. call[t].age \in 0..Latency
            OBVIOUS
          <6>2. call[t].age < Latency
            BY <4>1, <1>5 DEF TokensAge
          <6> QED  BY <6>1, <6>2
        <5>2. Less(call[t].token) \in 0..TokenLife
          BY <2>1
        <5>3. call'[t] = [call[t] EXCEPT !.age = @ + 1, !.token = Less(@)]
          BY <4>1, <1>5 DEF TokensAge
        <5>4. call[t] \in [at : {"none", "fetch", "issued", "sent"},
                          age : 0..Latency, token : 0..TokenLife]
          OBVIOUS
        <5>5. call'[t] = [at |-> call[t].at, age |-> call[t].age + 1,
                          token |-> Less(call[t].token)]
          BY <5>3, <5>4
        <5> HIDE DEF TokenInv, TokenTypeOK
        <5> QED
          BY <5>1, <5>2, <5>4, <5>5
      <4>2. CASE call[t].at \notin {"issued", "sent"}
        BY <4>2, <1>5 DEF TokensAge
      <4> QED  BY <4>1, <4>2
    <3>2. token' \in 0..TokenLife /\ fresh' \in 0..TokenLife
      BY <2>1, <1>5 DEF TokensAge
    <3>3. call' = [t \in Tasks |-> call'[t]]
      BY <1>5 DEF TokensAge
    <3> QED  BY <3>1, <3>2, <3>3 DEF TokenTypeOK
  <2>3. fresh' > 0 => token' >= fresh' + Margin - Latency
    <3>1. fresh' = Less(fresh) /\ token' = Less(token)
      BY <1>5 DEF TokensAge
    <3> QED
      BY <3>1, <2>1 DEF Less
  <2>4. ASSUME NEW t \in Tasks
        PROVE  /\ call'[t].at = "issued" => call'[t].token >= TokenLife - call'[t].age
               /\ call'[t].at = "sent" => call'[t].token > Latency - call'[t].age
    <3>1. call[t].token \in 0..TokenLife /\ call[t].age \in 0..Latency
      BY DEF TokenInv, TokenTypeOK
    <3>2. CASE call[t].at \in {"issued", "sent"}
      <4>1. /\ call'[t].at = call[t].at
            /\ call'[t].age = call[t].age + 1
            /\ call'[t].token = Less(call[t].token)
        BY <3>2, <1>5 DEF TokensAge
      <4> QED
        BY <4>1, <3>1, <2>1
    <3>3. CASE call[t].at \notin {"issued", "sent"}
      BY <3>3, <1>5 DEF TokensAge, TokenInv
    <3> QED  BY <3>2, <3>3
  <2> QED  BY <2>2, <2>3, <2>4 DEF TokenInv
<1>6. CASE UNCHANGED tokenVars
  BY <1>6 DEF tokenVars, TokenInv, TokenTypeOK
<1> QED  BY <1>1, <1>2, <1>3, <1>4, <1>5, <1>6 DEF TokenStep

(***************************************************************************)
(* Results.                                                                *)
(***************************************************************************)

(* Both invariants hold throughout (subscription_manager.py, graph_client.py). *)
THEOREM TimesKept == Spec => [](ClockInv /\ TokenInv)
<1>1. Init => ClockInv /\ TokenInv
  BY ClockAssumption, TokenAssumption
  DEF Init, ClockInit, TokenInit, NoCall, ClockInv, ClockTypeOK, InTime, TokenInv, TokenTypeOK
<1>2. [Next]_vars => [RenewalStep \/ TimePasses]_clockVars /\ [TokenStep \/ TokensAge]_tokenVars
  BY DEF Next, vars, clockVars, tokenVars
<1>3. ClockInv /\ TokenInv /\ [Next]_vars => (ClockInv /\ TokenInv)'
  BY <1>2, ClockInductive, TokenInductive
<1> QED  BY <1>1, <1>3, PTL DEF Spec

(* Every variable of the two clocks keeps its type. *)
THEOREM TimingTypeCorrect == Spec => []TimingTypeOK
<1>1. ClockInv /\ TokenInv => TimingTypeOK
  BY DEF ClockInv, TokenInv, TimingTypeOK
<1> QED  BY <1>1, TimesKept, PTL

(* No record passes its expiry in a running add-on, whatever the lengths of
   lifetime, period, holds and lost rounds, if the headroom is longer than they
   take together (_renew_due). *)
THEOREM RenewalInTime == Spec => []RenewedInTime
<1>1. ClockInv => RenewedInTime
  <2> SUFFICES ASSUME ClockInv, NEW i \in held \ loaded  PROVE expires[i] > 0
    BY DEF RenewedInTime
  <2>1. expires[i] \in Nat /\ grace \in Nat /\ expires[i] > grace + WayTo(i)
    BY ClockAssumption DEF ClockInv, ClockTypeOK, InTime
  <2>2. WayTo(i) \in Nat
    <3>1. Period \in Nat /\ Hold \in Nat /\ Cycle = Period + 2 * Hold
      BY ClockAssumption DEF Cycle
    <3>2. timer \in 0..(IF round = "sleep" THEN Period ELSE Hold)
      BY DEF ClockInv, ClockTypeOK
    <3> QED  BY <3>1, <3>2 DEF WayTo
  <2> QED  BY <2>1, <2>2
<1> QED  BY <1>1, TimesKept, PTL

(* No request arrives with an expired token, whatever the latency, if the margin
   is twice as long (_auth_header). *)
THEOREM TokenValid == Spec => []ValidOnArrival
<1>1. TokenInv => ValidOnArrival
  <2> SUFFICES ASSUME TokenInv, NEW t \in Tasks, call[t].at = "sent"
               PROVE  call[t].token > 0
    BY DEF ValidOnArrival
  <2>1. Latency \in Nat /\ call[t].age \in 0..Latency /\ call[t].token \in Nat
    BY TokenAssumption DEF TokenInv, TokenTypeOK
  <2>2. call[t].token > Latency - call[t].age
    BY DEF TokenInv
  <2> QED  BY <2>1, <2>2
<1> QED  BY <1>1, TimesKept, PTL
=============================================================================
