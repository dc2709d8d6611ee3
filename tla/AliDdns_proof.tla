----------------------------- MODULE AliDdns_proof -----------------------------
(***************************************************************************)
(* Proofs about AliDdns, for any finite number of runs and any bounds.     *)
(***************************************************************************)
EXTENDS AliDdns, FiniteSetTheorems, WellFoundedInduction, TLAPS

-----------------------------------------------------------------------------
(***************************************************************************)
(* Types.                                                                  *)
(***************************************************************************)
\* The settings before the first submit.
LEMMA TypeInit == Init => TypeOK
<1>. SUFFICES ASSUME Init PROVE TypeOK
  OBVIOUS
<1>1. zone \in [Ids -> 0 .. ip] /\ \A i \in Existing : i <= made
  BY BoundsAssumption DEF Init, Ids, Existing
<1>2. cached \in 0 .. ip /\ ip \in Addresses /\ made \in Ids
  BY BoundsAssumption DEF Init, Ids, Addresses
<1>3. {last, page} \subseteq Results
  BY DEF Init, Result, Results, Addresses
<1>4. /\ myip \in [Runs -> 0 .. ip] /\ rid \in [Runs -> 0 .. made]
      /\ faults \in 0 .. MaxFaults /\ removed \in 0 .. MaxRemove
  BY BoundsAssumption DEF Init
<1>5. misled \in [Runs -> BOOLEAN]
  BY DEF Init
<1>. QED
  BY <1>1, <1>2, <1>3, <1>4, <1>5 DEF Init, TypeOK, Steps

\* Every result that a run writes has the form the page shows.
LEMMA ResultType ==
  /\ \A what \in {"none", "off", "normal", "failed", "ok"}, a \in {0} \cup Addresses :
        Result(what, a) \in Results
  /\ \A a \in Addresses : 0 .. a \subseteq {0} \cup Addresses
  BY BoundsAssumption DEF Result, Results, Addresses

\* Where a run goes it is at one of the commands of the script.
LEMMA GoesType ==
  ASSUME TypeOK, NEW r \in Runs, NEW from \in Steps, NEW to \in Steps, Goes(r, from, to)
  PROVE  pc' \in [Runs -> Steps]
  BY DEF TypeOK, Goes

LEMMA EndsType ==
  ASSUME TypeOK, NEW r \in Runs, NEW from \in Steps, Ends(r, from)
  PROVE  /\ pc' \in [Runs -> Steps]
         /\ myip' \in [Runs -> 0 .. ip]
         /\ rid' \in [Runs -> 0 .. made]
         /\ misled' \in [Runs -> BOOLEAN]
<1>1. pc' \in [Runs -> Steps]
  BY GoesType DEF Ends, Steps
<1>2. 0 \in 0 .. ip /\ 0 \in 0 .. made
  BY BoundsAssumption DEF TypeOK, Addresses, Ids
<1>. QED  BY <1>1, <1>2 DEF TypeOK, Ends

\* A record that gets an address that somebody has read keeps the zone's type.
LEMMA ZoneType ==
  ASSUME TypeOK, NEW r \in Runs, NEW i \in Ids, NEW n \in Ids, i <= n, made <= n,
         zone' = [zone EXCEPT ![i] = Sent(r)]
  PROVE  /\ zone' \in [Ids -> 0 .. ip]
         /\ \A j \in Existing' : j <= n
<1>1. zone' \in [Ids -> 0 .. ip]
  BY DEF TypeOK, Sent
<1>2. \A j \in Existing' : j \in Existing \/ j = i
  BY DEF Existing, TypeOK
<1>3. \A j \in Existing' : j <= n
  BY <1>2 DEF TypeOK, Ids, Existing
<1>. QED  BY <1>1, <1>3

LEMMA TypeNext == TypeOK /\ [Next]_vars => TypeOK'
<1>. SUFFICES ASSUME TypeOK, [Next]_vars PROVE TypeOK'
  OBVIOUS
<1>. USE DEF settings, shells, provider, world
<1>0. ASSUME LoadPage PROVE TypeOK'
  BY <1>0 DEF LoadPage, TypeOK, Existing
<1>1. ASSUME Enable PROVE TypeOK'
  <2>1. pc' \in [Runs -> Steps] /\ UNCHANGED <<myip, rid, misled>>
    <3>1. CASE Installed
      <4>. PICK r \in Runs : Begins(r)
        BY <1>1, <3>1 DEF Enable
      <4>. QED  BY GoesType DEF Begins, Steps
    <3>2. CASE ~Installed
      BY <1>1, <3>2 DEF Enable, TypeOK
    <3>. QED  BY <3>1, <3>2
  <2>. QED  BY <1>1, <2>1 DEF Enable, Posted, TypeOK, Existing
<1>2. ASSUME Disable PROVE TypeOK'
  BY <1>2, ResultType DEF Disable, TypeOK, Existing
<1>3. ASSUME NEW r \in Runs, CronRuns(r) PROVE TypeOK'
  <2>1. pc' \in [Runs -> Steps] /\ UNCHANGED <<myip, rid, misled>>
    BY <1>3, GoesType DEF CronRuns, Begins, Steps
  <2>. QED  BY <1>3, <2>1 DEF CronRuns, TypeOK, Existing
<1>4. ASSUME NEW r \in Runs, GetAddress(r) PROVE TypeOK'
  <2>1. pc' \in [Runs -> Steps]
    BY <1>4, GoesType DEF GetAddress, Steps
  <2>2. myip' \in [Runs -> 0 .. ip] /\ last' \in Results /\ faults' \in 0 .. MaxFaults
    BY <1>4, ResultType, BoundsAssumption
    DEF GetAddress, TypeOK, Works, Fails, FailsUnseen, Addresses
  <2>3. misled' \in [Runs -> BOOLEAN]
    BY <1>4 DEF GetAddress, TypeOK, FailsUnseen
  <2>. QED  BY <1>4, <2>1, <2>2, <2>3 DEF GetAddress, TypeOK, Existing
<1>5. ASSUME NEW r \in Runs, Skip(r) PROVE TypeOK'
  <2>1. /\ pc' \in [Runs -> Steps] /\ myip' \in [Runs -> 0 .. ip]
        /\ rid' \in [Runs -> 0 .. made] /\ misled' \in [Runs -> BOOLEAN]
    BY <1>5, EndsType DEF Skip, Steps
  <2>. QED  BY <1>5, <2>1, ResultType DEF Skip, TypeOK, Existing
<1>6. ASSUME NEW r \in Runs, Differs(r) PROVE TypeOK'
  <2>1. pc' \in [Runs -> Steps]
    BY <1>6, GoesType DEF Differs, Steps
  <2>2. faults' \in 0 .. MaxFaults
    BY <1>6, BoundsAssumption DEF Differs, TypeOK, Works, Fails
  <2>. QED  BY <1>6, <2>1, <2>2 DEF Differs, TypeOK, Existing
<1>7. ASSUME NEW r \in Runs, Query(r) PROVE TypeOK'
  <2>1. pc' \in [Runs -> Steps]
    BY <1>7, GoesType DEF Query, Steps
  <2>2. faults' \in 0 .. MaxFaults
    BY <1>7, BoundsAssumption DEF Query, TypeOK, Works, Fails
  <2>3. Listed \subseteq 0 .. made
    BY DEF Listed, TypeOK, Existing, Ids
  <2>4. rid' \in [Runs -> 0 .. made]
    BY <1>7, <2>3 DEF Query, TypeOK
  <2>. QED  BY <1>7, <2>1, <2>2, <2>4 DEF Query, TypeOK, Existing
<1>8. ASSUME NEW r \in Runs, Add(r) PROVE TypeOK'
  <2>1. pc' \in [Runs -> Steps]
    BY <1>8, GoesType DEF Add, Steps
  <2>2. faults' \in 0 .. MaxFaults
    BY <1>8, BoundsAssumption DEF Add, TypeOK, Works, Fails
  <2>3. /\ zone' \in [Ids -> 0 .. ip] /\ made' \in Ids /\ rid' \in [Runs -> 0 .. made']
        /\ \A i \in Existing' : i <= made'
    <3>1. CASE UNCHANGED <<provider, rid>>
      BY <3>1 DEF TypeOK, Existing
    <3>2. CASE /\ made < MaxIds /\ made' = made + 1
               /\ zone' = [zone EXCEPT ![made'] = Sent(r)]
               /\ rid' = [rid EXCEPT ![r] = made'] \/ UNCHANGED rid
      <4>1. made' \in Ids /\ made <= made' /\ made' <= made'
        BY <3>2, BoundsAssumption DEF TypeOK, Ids
      <4>2. zone' = [zone EXCEPT ![made'] = Sent(r)]
        BY <3>2
      <4>3. zone' \in [Ids -> 0 .. ip] /\ \A i \in Existing' : i <= made'
        BY <4>1, <4>2, ZoneType
      <4>4. 0 .. made \subseteq 0 .. made' /\ made' \in 0 .. made'
        BY <3>2 DEF TypeOK, Ids
      <4>5. rid' \in [Runs -> 0 .. made']
        BY <3>2, <4>4 DEF TypeOK
      <4>. QED  BY <4>1, <4>3, <4>5
    <3>. QED  BY <1>8, <3>1, <3>2 DEF Add
  <2>. QED  BY <1>8, <2>1, <2>2, <2>3 DEF Add, TypeOK
<1>9. ASSUME NEW r \in Runs, Update(r) PROVE TypeOK'
  <2>1. pc' \in [Runs -> Steps]
    BY <1>9, GoesType DEF Update, Steps
  <2>2. faults' \in 0 .. MaxFaults
    BY <1>9, BoundsAssumption DEF Update, TypeOK, Works, Fails, FailsUnseen
  <2>4. misled' \in [Runs -> BOOLEAN]
    BY <1>9 DEF Update, TypeOK, FailsUnseen
  <2>3. zone' \in [Ids -> 0 .. ip] /\ \A i \in Existing' : i <= made
    <3>1. CASE UNCHANGED zone
      BY <3>1 DEF TypeOK, Existing
    <3>2. CASE rid[r] \in Existing /\ zone' = [zone EXCEPT ![rid[r]] = Sent(r)]
      <4>1. rid[r] \in Ids /\ rid[r] <= made /\ made \in Ids /\ made <= made
        BY <3>2 DEF TypeOK, Existing, Ids
      <4>. QED  BY <3>2, <4>1, ZoneType
    <3>. QED  BY <1>9, <3>1, <3>2 DEF Update
  <2>. QED  BY <1>9, <2>1, <2>2, <2>3, <2>4 DEF Update, TypeOK
<1>10. ASSUME NEW r \in Runs, Report(r) PROVE TypeOK'
  <2>1. /\ pc' \in [Runs -> Steps] /\ myip' \in [Runs -> 0 .. ip]
        /\ rid' \in [Runs -> 0 .. made] /\ misled' \in [Runs -> BOOLEAN]
    BY <1>10, EndsType DEF Report, Steps
  <2>2. myip[r] \in {0} \cup Addresses
    BY ResultType DEF TypeOK
  <2>3. last' \in Results
    BY <1>10, <2>2, ResultType DEF Report, Reported
  <2>. QED  BY <1>10, <2>1, <2>3 DEF Report, TypeOK, Existing
<1>11. ASSUME NewAddress PROVE TypeOK'
  <2>1. ip' \in Addresses /\ 0 .. ip \subseteq 0 .. ip'
    BY <1>11, BoundsAssumption DEF NewAddress, TypeOK, Addresses
  <2>2. myip' \in [Runs -> 0 .. ip'] /\ zone' \in [Ids -> 0 .. ip'] /\ cached' \in 0 .. ip'
    BY <1>11, <2>1 DEF NewAddress, TypeOK
  <2>. QED  BY <1>11, <2>1, <2>2 DEF NewAddress, TypeOK, Existing
<1>12. ASSUME Resolve PROVE TypeOK'
  <2>1. Values \subseteq 0 .. ip /\ 0 \in 0 .. ip
    BY DEF TypeOK, Values, Existing, Addresses
  <2>2. cached' \in 0 .. ip
    BY <1>12, <2>1 DEF Resolve
  <2>. QED  BY <1>12, <2>2 DEF Resolve, TypeOK, Existing
<1>13. ASSUME RemoveByHand PROVE TypeOK'
  <2>1. PICK i \in Existing : zone' = [zone EXCEPT ![i] = 0]
    BY <1>13 DEF RemoveByHand
  <2>2. zone' \in [Ids -> 0 .. ip] /\ Existing' \subseteq Existing
    BY <2>1 DEF TypeOK, Existing, Addresses
  <2>3. removed' \in 0 .. MaxRemove
    BY <1>13, BoundsAssumption DEF RemoveByHand, TypeOK
  <2>. QED  BY <1>13, <2>2, <2>3 DEF RemoveByHand, TypeOK
<1>14. ASSUME UNCHANGED vars PROVE TypeOK'
  BY <1>14 DEF vars, TypeOK, Existing
<1>. QED
  BY <1>0, <1>1, <1>2, <1>3, <1>4, <1>5, <1>6, <1>7, <1>8, <1>9, <1>10, <1>11, <1>12,
     <1>13, <1>14 DEF Next, Step

\* No record, no run and no result that is shown is ahead of the router.
THEOREM TypeCorrect == Spec => []TypeOK
  BY TypeInit, TypeNext, PTL DEF Spec

-----------------------------------------------------------------------------
(***************************************************************************)
(* No more records than runs.                                              *)
(***************************************************************************)
\* The runs that found no record and are about to add one.
Adding == { r \in Runs : pc[r] = "add" }

\* A run that adds a record found none: each of the records there are has used
\* up one of the runs.
Room ==
  faults = 0 => Cardinality(Existing) + Cardinality(Adding) <= Cardinality(Runs)

LEMMA SetsFinite ==
  /\ IsFiniteSet(Existing) /\ Cardinality(Existing) \in Nat
  /\ IsFiniteSet(Adding) /\ Cardinality(Adding) \in Nat
  /\ Cardinality(Adding) <= Cardinality(Runs) /\ Cardinality(Runs) \in Nat
<1>1. IsFiniteSet(Ids) /\ Existing \subseteq Ids
  BY FS_Interval, BoundsAssumption DEF Ids, Existing
<1>2. IsFiniteSet(Existing)
  BY <1>1, FS_Subset
<1>3. Adding \subseteq Runs
  BY DEF Adding
<1>4. IsFiniteSet(Adding) /\ Cardinality(Adding) <= Cardinality(Runs)
  BY <1>3, FS_Subset, RunsAssumption
<1>. QED  BY <1>2, <1>4, FS_CardinalityType, RunsAssumption

LEMMA RoomInit == Init => Room
<1>. SUFFICES ASSUME Init PROVE Room
  OBVIOUS
<1>1. Adding = {}
  BY DEF Init, Adding
<1>2. Existing \subseteq {1}
  BY DEF Init, Existing
<1>3. Cardinality(Existing) <= 1
  <2>1. IsFiniteSet({1}) /\ Cardinality({1}) = 1
    BY FS_Singleton
  <2>. QED  BY <1>2, <2>1, FS_Subset
<1>4. Cardinality(Runs) # 0
  BY RunsAssumption, FS_EmptySet
<1>. QED  BY <1>1, <1>3, <1>4, SetsFinite, FS_EmptySet DEF Room

\* A step that adds neither a record nor a run that wants to add one.
LEMMA RoomKept ==
  ASSUME Room, faults' = 0 => faults = 0,
         Existing' \subseteq Existing, Adding' \subseteq Adding
  PROVE  Room'
<1>1. Cardinality(Existing') <= Cardinality(Existing)
  BY SetsFinite, FS_Subset
<1>2. Cardinality(Adding') <= Cardinality(Adding)
  BY SetsFinite, FS_Subset
<1>3. Cardinality(Existing') \in Nat /\ Cardinality(Adding') \in Nat
  <2>1. IsFiniteSet(Existing') /\ IsFiniteSet(Adding')
    BY SetsFinite, FS_Subset
  <2>. QED  BY <2>1, FS_CardinalityType
<1>. QED  BY <1>1, <1>2, <1>3, SetsFinite DEF Room

\* Failures are counted and never forgotten.
LEMMA FaultsCounted == TypeOK /\ [Next]_vars => (faults' = 0 => faults = 0)
<1>. SUFFICES ASSUME TypeOK, [Next]_vars PROVE faults' = 0 => faults = 0
  OBVIOUS
<1>. USE DEF settings, shells, provider, world
<1>1. Works \/ Fails => (faults' = 0 => faults = 0)
  BY DEF Works, Fails, TypeOK
<1>. QED
  BY <1>1
  DEF Next, Step, LoadPage, Enable, Disable, CronRuns, GetAddress, Skip, Differs, Query, Add,
      Update, Report, NewAddress, Resolve, RemoveByHand, vars, Works, FailsUnseen

LEMMA RoomNext == TypeOK /\ Room /\ [Next]_vars => Room'
<1>. SUFFICES ASSUME TypeOK, Room, [Next]_vars PROVE Room'
  OBVIOUS
<1>. USE DEF settings, shells, provider, world
<1>0. faults' = 0 => faults = 0
  BY FaultsCounted
<1>1. ASSUME NEW r \in Runs, Begins(r), UNCHANGED zone PROVE Room'
  <2>1. Existing' \subseteq Existing /\ Adding' \subseteq Adding
    BY <1>1 DEF Begins, Goes, TypeOK, Existing, Adding
  <2>. QED  BY <2>1, RoomKept, <1>0
<1>2. ASSUME UNCHANGED <<zone, pc>> PROVE Room'
  <2>1. Existing' \subseteq Existing /\ Adding' \subseteq Adding
    BY <1>2 DEF Existing, Adding
  <2>. QED  BY <2>1, RoomKept, <1>0
<1>3. ASSUME NEW r \in Runs, GetAddress(r) \/ Skip(r) \/ Differs(r) \/ Report(r)
      PROVE  Room'
  <2>1. Existing' \subseteq Existing /\ Adding' \subseteq Adding
    BY <1>3 DEF GetAddress, Skip, Differs, Report, Ends, Goes, TypeOK, Existing, Adding
  <2>. QED  BY <2>1, RoomKept, <1>0
<1>4. ASSUME NEW r \in Runs, Query(r) PROVE Room'
  <2>1. Existing' = Existing
    BY <1>4 DEF Query, Existing
  <2>2. CASE Goes(r, "query", "update")
    <3>1. Adding' \subseteq Adding
      BY <2>2 DEF Goes, Adding, TypeOK
    <3>. QED  BY <2>1, <3>1, RoomKept, <1>0
  <2>3. CASE Existing = {}
    <3>1. Cardinality(Existing') = 0
      BY <2>1, <2>3, FS_EmptySet
    <3>2. Adding' \subseteq Runs
      BY DEF Adding
    <3>3. Cardinality(Adding') <= Cardinality(Runs) /\ IsFiniteSet(Adding')
      BY <3>2, FS_Subset, RunsAssumption
    <3>4. Cardinality(Adding') \in Nat
      BY <3>3, FS_CardinalityType
    <3>. QED  BY <3>1, <3>3, <3>4, SetsFinite DEF Room
  <2>4. CASE Fails
    BY <2>4 DEF Fails, TypeOK, Room
  <2>. QED  BY <1>4, <2>2, <2>3, <2>4 DEF Query, Listed
<1>5. ASSUME NEW r \in Runs, Add(r) PROVE Room'
  <2>1. Adding' = Adding \ {r} /\ r \in Adding
    BY <1>5 DEF Add, Goes, Adding, TypeOK
  <2>2. Cardinality(Adding') = Cardinality(Adding) - 1
    BY <2>1, SetsFinite, FS_RemoveElement
  <2>3. CASE UNCHANGED zone
    <3>1. Existing' \subseteq Existing
      BY <2>3 DEF Existing
    <3>. QED  BY <2>1, <3>1, RoomKept, <1>0
  <2>4. CASE zone' = [zone EXCEPT ![made'] = Sent(r)]
    <3>1. Existing' \subseteq Existing \cup {made'}
      BY <2>4 DEF Existing, TypeOK
    <3>2. /\ IsFiniteSet(Existing \cup {made'})
          /\ Cardinality(Existing \cup {made'}) <= Cardinality(Existing) + 1
      <4>1. IsFiniteSet(Existing) /\ Cardinality(Existing) \in Nat
        BY SetsFinite
      <4>2. /\ IsFiniteSet(Existing \cup {made'})
            /\ Cardinality(Existing \cup {made'}) =
                 IF made' \in Existing THEN Cardinality(Existing)
                                       ELSE Cardinality(Existing) + 1
        BY <4>1, FS_AddElement
      <4>. QED  BY <4>1, <4>2
    <3>3. /\ IsFiniteSet(Existing')
          /\ Cardinality(Existing') <= Cardinality(Existing \cup {made'})
      BY <3>1, <3>2, FS_Subset
    <3>4. Cardinality(Existing') \in Nat /\ Cardinality(Existing \cup {made'}) \in Nat
      BY <3>2, <3>3, FS_CardinalityType
    <3>. QED  BY <2>2, <3>2, <3>3, <3>4, <1>0, SetsFinite DEF Room
  <2>. QED  BY <1>5, <2>3, <2>4 DEF Add
<1>6. ASSUME NEW r \in Runs, Update(r) PROVE Room'
  <2>1. Adding' \subseteq Adding
    BY <1>6 DEF Update, Goes, Adding, TypeOK
  <2>2. Existing' \subseteq Existing
    BY <1>6 DEF Update, Existing, TypeOK
  <2>. QED  BY <2>1, <2>2, RoomKept, <1>0
<1>7. ASSUME RemoveByHand PROVE Room'
  <2>1. Existing' \subseteq Existing /\ Adding' \subseteq Adding
    BY <1>7 DEF RemoveByHand, Existing, Adding, TypeOK
  <2>. QED  BY <2>1, RoomKept, <1>0
<1>. QED
  BY <1>1, <1>2, <1>3, <1>4, <1>5, <1>6, <1>7
  DEF Next, Step, LoadPage, Enable, Disable, CronRuns, NewAddress, Resolve, vars

\* As long as nothing has failed, overlapping runs leave at most one record
\* each (query_recordid before add_record).
THEOREM RecordsPerRun == Spec => []FewRecords
<1>1. Room => FewRecords
  BY SetsFinite DEF Room, FewRecords
<1>. QED  BY <1>1, TypeInit, TypeNext, RoomInit, RoomNext, PTL DEF Spec

-----------------------------------------------------------------------------
(***************************************************************************)
(* Records are not set back.                                               *)
(***************************************************************************)
\* A lone run that has read the address knows of nothing older than the zone.
RunIsFresh ==
  Alone => \A r \in Runs : myip[r] = 0 \/ \A i \in Ids : zone[i] <= myip[r]

LEMMA FreshNext == TypeOK /\ RunIsFresh /\ [Next]_vars => RunIsFresh'
<1>. SUFFICES ASSUME TypeOK, RunIsFresh, [Next]_vars, Alone PROVE RunIsFresh'
  BY DEF RunIsFresh, Alone
<1>. USE DEF settings, shells, provider, world
<1>1. ASSUME NEW r \in Runs, NEW from, Ends(r, from) PROVE RunIsFresh'
  BY <1>1 DEF Ends, RunIsFresh, Alone, TypeOK
<1>2. ASSUME UNCHANGED <<zone, myip>> PROVE RunIsFresh'
  BY <1>2 DEF RunIsFresh, Alone
<1>3. ASSUME NEW r \in Runs, GetAddress(r) PROVE RunIsFresh'
  <2>1. \A i \in Ids : zone'[i] <= ip
    BY <1>3 DEF GetAddress, TypeOK
  <2>2. UNCHANGED zone /\ (UNCHANGED myip \/ myip' = [myip EXCEPT ![r] = ip])
    BY <1>3 DEF GetAddress
  <2>. QED  BY <2>1, <2>2 DEF RunIsFresh, Alone, TypeOK
<1>4. ASSUME NEW r \in Runs, NEW i \in Ids,
             zone' = [zone EXCEPT ![i] = Sent(r)], UNCHANGED myip
      PROVE  RunIsFresh'
  <2>1. myip[r] <= myip[r]
    BY DEF TypeOK, Addresses
  <2>. QED  BY <1>4, <2>1 DEF RunIsFresh, Alone, TypeOK, Sent
<1>5. ASSUME NEW r \in Runs, Add(r) PROVE RunIsFresh'
  <2>1. CASE UNCHANGED provider
    BY <1>5, <2>1, <1>2 DEF Add
  <2>2. CASE made < MaxIds /\ made' = made + 1 /\ zone' = [zone EXCEPT ![made'] = Sent(r)]
    <3>1. made + 1 \in Ids
      BY <2>2, BoundsAssumption DEF TypeOK, Ids
    <3>. QED  BY <1>5, <1>4, <2>2, <3>1 DEF Add
  <2>. QED  BY <1>5, <2>1, <2>2 DEF Add
<1>6. ASSUME NEW r \in Runs, Update(r) PROVE RunIsFresh'
  <2>1. Existing \subseteq Ids
    BY DEF Existing
  <2>. QED  BY <1>6, <1>2, <1>4, <2>1 DEF Update
<1>7. ASSUME RemoveByHand PROVE RunIsFresh'
  <2>1. \A i \in Ids : zone'[i] \in {0, zone[i]}
    BY <1>7 DEF RemoveByHand, TypeOK, Existing
  <2>2. UNCHANGED myip
    BY <1>7 DEF RemoveByHand
  <2>3. \A r \in Runs : 0 <= myip[r]
    BY DEF TypeOK, Addresses
  <2>. QED  BY <2>1, <2>2, <2>3 DEF RunIsFresh, Alone
<1>. QED
  BY <1>1, <1>2, <1>3, <1>5, <1>6, <1>7
  DEF Next, Step, LoadPage, Enable, Disable, CronRuns, Begins, Skip, Differs, Query,
      Report, NewAddress, Resolve, vars

\* With one run at a time no step replaces an address by an older one.
LEMMA StepsForward ==
  ASSUME TypeOK, RunIsFresh, [Next]_vars, Alone
  PROVE  \A i \in Existing : zone'[i] # 0 => zone'[i] >= zone[i]
<1>. USE DEF settings, shells, provider, world
<1>1. ASSUME UNCHANGED zone PROVE \A i \in Existing : zone'[i] >= zone[i]
  BY <1>1 DEF TypeOK, Existing, Addresses
<1>2. ASSUME NEW r \in Runs, NEW j, j \notin Existing \/ myip[r] # 0,
             zone' = [zone EXCEPT ![j] = Sent(r)]
      PROVE  \A i \in Existing : zone'[i] >= zone[i]
  <2>1. \A i \in Existing : i \in Ids /\ zone[i] \in Nat
    BY DEF Existing, TypeOK, Addresses
  <2>2. \A i \in Existing : i # j => zone'[i] = zone[i]
    BY <1>2, <2>1 DEF TypeOK
  <2>3. j \in Existing => zone'[j] = myip[r] /\ myip[r] \in Nat /\ zone[j] <= myip[r]
    BY <1>2, <2>1 DEF TypeOK, Sent, RunIsFresh, Addresses
  <2>. QED  BY <2>1, <2>2, <2>3
<1>3. ASSUME NEW r \in Runs, Add(r) PROVE \A i \in Existing : zone'[i] >= zone[i]
  <2>1. made + 1 \notin Existing
    BY DEF TypeOK, Existing, Ids
  <2>. QED  BY <1>3, <1>1, <1>2, <2>1 DEF Add
<1>4. ASSUME NEW r \in Runs, Update(r) PROVE \A i \in Existing : zone'[i] >= zone[i]
  BY <1>4, <1>1, <1>2 DEF Update, Accepts, Sent
<1>5. ASSUME RemoveByHand
      PROVE  \A i \in Existing : zone'[i] # 0 => zone'[i] >= zone[i]
  BY <1>5 DEF RemoveByHand, TypeOK, Existing, Addresses
<1>. QED
  BY <1>1, <1>3, <1>4, <1>5
  DEF Next, Step, LoadPage, Enable, Disable, CronRuns, Begins, GetAddress, Skip, Differs,
      Query, Report, NewAddress, Resolve, vars

\* However late a lone run sends the address it has read, and whatever fails on
\* its way, no record is set back to an older one (merlinc_update.sh:26, 115).
THEOREM NoSettingBack == Spec => NeverBackwards
<1>1. Init => RunIsFresh
  BY DEF Init, RunIsFresh
<1>2. TypeOK /\ RunIsFresh /\ [Next]_vars =>
        [Alone => \A i \in Existing : zone'[i] # 0 => zone'[i] >= zone[i]]_vars
  BY StepsForward
<1>. QED  BY <1>1, <1>2, TypeInit, TypeNext, FreshNext, PTL DEF Spec, NeverBackwards

-----------------------------------------------------------------------------
(***************************************************************************)
(* One run at a time implements the mirror.                                *)
(***************************************************************************)
\* The newest address of the zone is that of a record, or 0 without one.
\* (CHOOSE picks a greatest element: the addresses are bounded.)
IsNewest ==
  /\ Newest \in 0 .. ip
  /\ \A i \in Ids : zone[i] <= Newest
  /\ Newest # 0 => \E i \in Ids : zone[i] = Newest

\* Newest is what its name says, whatever the records are.
LEMMA NewestIs == TypeOK => IsNewest
<1>. SUFFICES ASSUME TypeOK PROVE IsNewest
  OBVIOUS
<1>. USE DEF IsNewest
<1>0. ip \in Nat /\ Ids \subseteq Nat /\ \A i \in Ids : zone[i] \in 0 .. ip
  BY DEF TypeOK, Addresses, Ids
<1>1. CASE Existing = {}
  BY <1>0, <1>1 DEF Newest, Existing
<1>2. CASE Existing # {}
  <2>1. Values \subseteq 0 .. ip /\ Values # {}
    BY <1>0, <1>2 DEF Values, Existing
  <2>2. \E v \in Values : \A w \in Values : w <= v
    <3>1. PICK u \in Values : TRUE
      BY <2>1
    <3>. DEFINE Behind == { n \in Nat : ip - n \in Values }
    <3>2. ip - u \in Behind
      BY <1>0, <2>1
    <3>3. \E n \in Behind : \A k \in Behind : n <= k
      <4>1. Behind \subseteq Nat /\ Behind # {}
        BY <3>2
      <4>2. PICK n \in Behind : \A k \in Behind : <<k, n>> \notin OpToRel(<, Nat)
        <5>. HIDE DEF Behind
        <5>. QED  BY <4>1, NatLessThanWellFounded, WFMin
      <4>3. \A k \in Behind : ~ k < n
        BY <4>1, <4>2 DEF OpToRel
      <4>. QED  BY <4>1, <4>3
    <3>4. PICK n \in Behind : \A k \in Behind : n <= k
      BY <3>3
    <3>5. \A w \in Values : ip - w \in Behind
      BY <1>0, <2>1
    <3>6. \A w \in Values : n <= ip - w
      BY <3>4, <3>5
    <3>7. \A w \in Values : w <= ip - n
      BY <1>0, <2>1, <3>6
    <3>. QED  BY <3>4, <3>7
  <2>3. Newest \in Values /\ \A w \in Values : w <= Newest
    BY <1>2, <2>2 DEF Newest
  <2>. QED  BY <1>0, <2>1, <2>3 DEF Values, Existing
<1>. QED  BY <1>1, <1>2

\* The mirror starts with the zone as it is before the service is used.
LEMMA MirrorInit == Init => Mirror!Init
<1>. SUFFICES ASSUME Init PROVE Mirror!Init
  OBVIOUS
<1>1. Newest \in 0 .. 1
  BY TypeInit, NewestIs DEF Init, IsNewest
<1>. QED  BY <1>1 DEF Init, Mirror!Init

\* A step is one of the mirror's, or leaves its variables alone.
LEMMA MirrorNext ==
  ASSUME TypeOK, TypeOK', RunIsFresh, [Next]_vars, Alone, IsNewest'
  PROVE  [Mirror!Next]_<<ip, Newest, removed>>
<1>. USE DEF settings, shells, provider, world, IsNewest
<1>1. /\ Newest \in 0 .. ip
      /\ \A i \in Ids : zone[i] <= Newest
      /\ Newest # 0 => \E i \in Ids : zone[i] = Newest
  BY NewestIs
<1>2. ip \in Nat /\ \A i \in Ids : zone[i] \in 0 .. ip
  BY DEF TypeOK, Addresses
<1>3. ASSUME UNCHANGED zone PROVE UNCHANGED Newest
  BY <1>3 DEF Newest, Existing, Values
<1>4. ASSUME NEW r \in Runs, NEW j \in Ids, Accepts(Sent(r)),
             zone' = [zone EXCEPT ![j] = Sent(r)], UNCHANGED <<ip, removed>>
      PROVE  Mirror!Follow
  <2>1. myip[r] \in 1 .. ip /\ \A i \in Ids : zone[i] <= myip[r]
    BY <1>4, <1>2 DEF Accepts, Sent, TypeOK, RunIsFresh
  <2>2. Newest # myip[r]
    BY <1>1, <1>4, <2>1 DEF Accepts, Sent, Values, Existing
  <2>3. Newest < myip[r]
    BY <1>1, <1>2, <2>1, <2>2
  <2>4. zone'[j] = myip[r] /\ \A i \in Ids : zone'[i] <= myip[r]
    BY <1>4, <1>2, <2>1 DEF TypeOK, Sent
  <2>5. Newest' = myip[r]
    BY <1>2, <1>4, <2>1, <2>4
  <2>. QED  BY <1>1, <1>2, <1>4, <2>1, <2>3, <2>5 DEF Mirror!Follow
<1>5. ASSUME NEW r \in Runs, Add(r) PROVE [Mirror!Next]_<<ip, Newest, removed>>
  <2>1. CASE UNCHANGED provider
    BY <1>5, <1>3, <2>1 DEF Add
  <2>2. CASE /\ Accepts(Sent(r)) /\ made < MaxIds /\ made' = made + 1
             /\ zone' = [zone EXCEPT ![made'] = Sent(r)]
    <3>1. made' \in Ids
      BY <2>2, BoundsAssumption DEF TypeOK, Ids
    <3>. QED  BY <1>4, <1>5, <2>2, <3>1 DEF Add, Mirror!Next
  <2>. QED  BY <1>5, <2>1, <2>2 DEF Add
<1>6. ASSUME NEW r \in Runs, Update(r) PROVE [Mirror!Next]_<<ip, Newest, removed>>
  <2>1. CASE UNCHANGED zone
    BY <1>6, <1>3, <2>1 DEF Update
  <2>2. CASE /\ Accepts(Sent(r)) /\ rid[r] \in Existing
             /\ zone' = [zone EXCEPT ![rid[r]] = Sent(r)]
    <3>1. rid[r] \in Ids
      BY <2>2 DEF Existing
    <3>. QED  BY <1>4, <1>6, <2>2, <3>1 DEF Update, Mirror!Next
  <2>. QED  BY <1>6, <2>1, <2>2 DEF Update
<1>7. ASSUME RemoveByHand PROVE Mirror!Remove
  <2>1. \A i \in Ids : zone'[i] \in {0, zone[i]}
    BY <1>7 DEF RemoveByHand, TypeOK, Existing
  <2>2. Newest' <= Newest
    BY <1>1, <1>2, <2>1
  <2>3. UNCHANGED ip /\ removed' = removed + 1
    BY <1>7 DEF RemoveByHand
  <2>. QED  BY <1>1, <1>2, <2>2, <2>3 DEF Mirror!Remove
<1>8. ASSUME NewAddress PROVE Mirror!NewAddress
  BY <1>8, <1>3 DEF NewAddress, Mirror!NewAddress
<1>9. ASSUME UNCHANGED <<ip, zone, removed>> PROVE UNCHANGED <<ip, Newest, removed>>
  BY <1>3, <1>9
<1>. QED
  BY <1>5, <1>6, <1>7, <1>8, <1>9
  DEF Next, Step, LoadPage, Enable, Disable, CronRuns, Begins, GetAddress, Skip, Differs,
      Query, Report, Resolve, vars, Mirror!Next

\* One run at a time keeps the promise of DnsMirror, with any number of faults:
\* the zone lags behind the router and never goes back by itself.
THEOREM LoneRunMirrors == Alone => (Spec => IsMirror)
<1>. SUFFICES ASSUME Alone PROVE Spec => IsMirror
  OBVIOUS
<1>1. Init => RunIsFresh
  BY DEF Init, RunIsFresh
<1>2. TypeOK' => IsNewest'
  BY NewestIs, PTL
<1>3. TypeOK /\ TypeOK' /\ RunIsFresh /\ [Next]_vars
        => [Mirror!Next]_<<ip, Newest, removed>>
  BY <1>2, MirrorNext
<1>. QED
  BY <1>1, <1>3, TypeInit, TypeNext, FreshNext, MirrorInit, PTL
  DEF Spec, IsMirror, Mirror!Spec

-----------------------------------------------------------------------------
(***************************************************************************)
(* The result on the page.                                                 *)
(***************************************************************************)
\* What a lone run knows at each command.  It has no record id before it has
\* asked, whatever has failed; and as long as it is not misled it has an address,
\* the record it updates is there, and what it is about to report is in the zone.
KnowsAt(r) ==
  /\ pc[r] \in {"idle", "address", "resolve", "query", "add"} => rid[r] = 0
  /\ ~misled[r] =>
       /\ pc[r] \in {"resolve", "query", "add", "update", "report"} => myip[r] # 0
       /\ pc[r] = "update" => rid[r] \in Existing
       /\ pc[r] = "report" /\ rid[r] # 0 => myip[r] \in Values
RunKnows == Alone => \A r \in Runs : KnowsAt(r)

LEMMA KnowsInit == Init => RunKnows
  BY DEF Init, RunKnows, KnowsAt

\* A record that is written is there with the address that was sent.
LEMMA Written ==
  ASSUME TypeOK, NEW r \in Runs, NEW i \in Ids, Sent(r) # 0,
         zone' = [zone EXCEPT ![i] = Sent(r)]
  PROVE  myip[r] \in Values'
  BY DEF TypeOK, Sent, Existing, Values

LEMMA KnowsNext == TypeOK /\ RunKnows /\ [Next]_vars => RunKnows'
<1>. SUFFICES ASSUME TypeOK, RunKnows, [Next]_vars, Alone, NEW s \in Runs
              PROVE  KnowsAt(s)'
  BY DEF RunKnows, Alone
<1>. USE DEF settings, shells, provider, world
<1>3. KnowsAt(s) /\ \A r \in Runs : r = s
  BY DEF RunKnows, Alone
<1>5. ASSUME UNCHANGED zone PROVE UNCHANGED <<Existing, Values>>
  BY <1>5 DEF Existing, Values
<1>6. ASSUME Begins(s) PROVE KnowsAt(s)'
  BY <1>3, <1>6 DEF Begins, Goes, TypeOK, KnowsAt
<1>7. ASSUME UNCHANGED <<shells, zone>> PROVE KnowsAt(s)'
  BY <1>3, <1>5, <1>7 DEF KnowsAt
<1>8. ASSUME GetAddress(s) PROVE KnowsAt(s)'
  <2>1. ip # 0
    BY DEF TypeOK, Addresses
  <2>. QED  BY <1>3, <1>8, <2>1 DEF GetAddress, FailsUnseen, Goes, TypeOK, KnowsAt
<1>9. ASSUME Skip(s) PROVE KnowsAt(s)'
  BY <1>9 DEF Skip, Ends, Goes, TypeOK, KnowsAt
<1>10. ASSUME Differs(s) PROVE KnowsAt(s)'
  BY <1>3, <1>10 DEF Differs, Goes, TypeOK, KnowsAt
<1>11. ASSUME Query(s) PROVE KnowsAt(s)'
  <2>1. UNCHANGED <<zone, myip, misled>> /\ pc[s] = "query"
    BY <1>11 DEF Query, Goes
  <2>2. CASE Goes(s, "query", "update") /\ \E i \in Listed : rid' = [rid EXCEPT ![s] = i]
    BY <1>3, <1>5, <2>1, <2>2 DEF Goes, TypeOK, Listed, KnowsAt
  <2>3. CASE Goes(s, "query", "add") /\ UNCHANGED rid
    BY <1>3, <1>5, <2>1, <2>3 DEF Goes, TypeOK, KnowsAt
  <2>. QED  BY <1>11, <2>2, <2>3 DEF Query
<1>12. ASSUME Add(s) PROVE KnowsAt(s)'
  <2>1. /\ pc[s] = "add" /\ pc'[s] = "report" /\ UNCHANGED <<myip, misled>>
        /\ rid[s] = 0 /\ (~misled[s] => myip[s] # 0)
    BY <1>3, <1>12 DEF Add, Goes, TypeOK, KnowsAt
  <2>2. CASE UNCHANGED rid
    BY <2>1, <2>2 DEF KnowsAt
  <2>3. CASE /\ Accepts(Sent(s)) /\ made < MaxIds /\ made' = made + 1
             /\ zone' = [zone EXCEPT ![made'] = Sent(s)]
    <3>1. made' \in Ids
      BY <2>3, BoundsAssumption DEF TypeOK, Ids
    <3>2. Sent(s) # 0
      BY <2>3 DEF Accepts
    <3>3. zone' = [zone EXCEPT ![made'] = Sent(s)]
      BY <2>3
    <3>4. myip[s] \in Values'
      BY <3>1, <3>2, <3>3, Written
    <3>5. Sent(s) = myip[s]
      BY DEF Sent
    <3>. QED  BY <2>1, <3>2, <3>4, <3>5 DEF KnowsAt
  <2>. QED  BY <1>12, <2>2, <2>3 DEF Add
<1>13. ASSUME Update(s) PROVE KnowsAt(s)'
  <2>1. pc[s] = "update" /\ pc'[s] = "report" /\ UNCHANGED <<myip, rid>>
    BY <1>13 DEF Update, Goes, TypeOK
  <2>4. CASE FailsUnseen(s)
    BY <2>1, <2>4 DEF FailsUnseen, TypeOK, KnowsAt
  <2>5. CASE UNCHANGED misled /\ misled[s]
    BY <2>1, <2>5 DEF KnowsAt
  <2>2. CASE ~Accepts(Sent(s)) /\ UNCHANGED <<zone, misled>> /\ ~misled[s]
    BY <1>3, <1>5, <2>1, <2>2 DEF Accepts, Sent, KnowsAt
  <2>3. CASE /\ zone' = [zone EXCEPT ![rid[s]] = Sent(s)] /\ UNCHANGED misled
             /\ ~misled[s]
    <3>1. rid[s] \in Ids /\ Sent(s) # 0 /\ Sent(s) = myip[s]
      BY <1>3, <2>1, <2>3 DEF Existing, Sent, KnowsAt
    <3>2. myip[s] \in Values'
      BY <2>3, <3>1, Written
    <3>. QED  BY <2>1, <3>1, <3>2 DEF KnowsAt
  <2>6. ~misled[s] => rid[s] \in Existing
    BY <1>3, <2>1 DEF KnowsAt
  <2>. QED  BY <1>13, <2>2, <2>3, <2>4, <2>5, <2>6 DEF Update
<1>14. ASSUME Report(s) PROVE KnowsAt(s)'
  BY <1>14 DEF Report, Ends, Goes, TypeOK, KnowsAt
<1>15. ASSUME RemoveByHand PROVE KnowsAt(s)'
  BY <1>3, <1>15 DEF RemoveByHand, KnowsAt
<1>. QED
  BY <1>3, <1>6, <1>7, <1>8, <1>9, <1>10, <1>11, <1>12, <1>13, <1>14, <1>15
  DEF Next, Step, LoadPage, Enable, Disable, CronRuns, NewAddress, Resolve, vars

\* The address that a run reports is one of the zone, unless it was misled.
LEMMA ReportsTruly ==
  ASSUME TypeOK, RunKnows, [Next]_vars, Alone, NEW r \in Runs,
         pc[r] = "report", pc'[r] = "idle", ~misled[r], last'.what = "ok"
  PROVE  last'.address \in Values'
<1>. USE DEF settings, shells, provider, world
<1>0. \A s \in Runs : s = r
  BY DEF Alone
<1>1. Report(r)
  BY <1>0
  DEF Next, Step, LoadPage, Enable, Disable, CronRuns, Begins, Goes, GetAddress, Skip,
      Ends, Differs, Query, Add, Update, NewAddress, Resolve, RemoveByHand, vars
<1>2. rid[r] # 0 /\ last'.address = myip[r] /\ UNCHANGED zone
  BY <1>1 DEF Report, Reported, Result
<1>3. myip[r] \in Values
  BY <1>2 DEF RunKnows, KnowsAt
<1>. QED  BY <1>2, <1>3 DEF Values, Existing

\* The address that a lone run reports as resolved is in the zone, with failures
\* of earlier runs, lost answers, results that save() puts back and a router that
\* gets another address meanwhile: unless in that run the own address was not
\* found, the update was lost or a record was removed (merlinc_update.sh:106-125).
THEOREM PageIsTrue == Spec => ReportIsTrue
<1>1. TypeOK /\ RunKnows /\ [Next]_vars =>
        [\A r \in Runs :
           Alone /\ pc[r] = "report" /\ pc'[r] = "idle" /\ ~misled[r] /\ last'.what = "ok"
             => last'.address \in Values']_vars
  BY ReportsTruly
<1>. QED
  BY <1>1, TypeInit, TypeNext, KnowsInit, KnowsNext, PTL DEF Spec, ReportIsTrue

=============================================================================
