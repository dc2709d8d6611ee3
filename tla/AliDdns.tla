------------------------------- MODULE AliDdns -------------------------------
(***************************************************************************)
(* Dynamic DNS: merlinc_config.sh stores the settings and the cron entry   *)
(* and runs the update once; merlinc_update.sh compares the router's       *)
(* address with what the domain resolves to, finds the record of the       *)
(* domain at the provider, and updates or adds it.                         *)
(*                                                                         *)
(* Each command of the script that talks to somebody is a step, so that    *)
(* runs started by cron and by a submitted form interleave with each other *)
(* and with the world.  Addresses are numbered in the order in which the   *)
(* router gets them; 0 stands for no address, and for no record id.        *)
(***************************************************************************)
EXTENDS Naturals, FiniteSets

CONSTANTS
  Runs,        \* the shells that may run merlinc_update.sh at one time
  Installed,   \* whether there is a script of the name that is called
  OldPages,    \* whether a page may be saved after its result is out of date
  MaxIp,       \* bound: addresses the router gets
  MaxIds,      \* bound: records the provider ever makes
  MaxFaults,   \* bound: commands and requests that fail
  MaxRemove    \* bound: records removed by hand

ASSUME RunsAssumption == IsFiniteSet(Runs) /\ Runs # {}
ASSUME InstalledAssumption == {Installed, OldPages} \subseteq BOOLEAN
ASSUME BoundsAssumption ==
  /\ {MaxIp, MaxIds} \subseteq Nat \ {0}
  /\ {MaxFaults, MaxRemove} \subseteq Nat

VARIABLES
  enabled,   \* aliddns_enable, and with it the cron entry
  last,      \* aliddns_last_act: the result shown on the page
  page,      \* the result in the page that is open, Apps.aliddns_last_act
  pc,        \* the next command of each run
  myip,      \* $ip of each run
  rid,       \* $aliddns_record_id of each run
  misled,    \* history: whether a run has met what the script does not look at
  ip,        \* the router's address
  cached,    \* what the resolver says of the domain
  zone,      \* the provider's records of the domain, by id
  made,      \* how many ids the provider has given out
  faults,    \* how often something has failed
  removed    \* how many records were removed by hand

settings == <<enabled, last, page>>
shells   == <<pc, myip, rid, misled>>
provider == <<zone, made>>
world    == <<ip, cached, provider, faults, removed>>
vars     == <<settings, shells, world>>

Ids       == 1 .. MaxIds
Addresses == 1 .. MaxIp
Existing  == { i \in Ids : zone[i] # 0 }
Values    == { zone[i] : i \in Existing }

\* aliddns_last_act: "off", "normal" and "failed" name no address (0).
Result(what, address) == [what |-> what, address |-> address]
Results == [what : {"none", "off", "normal", "failed", "ok"},
            address : {0} \cup Addresses]

Steps == {"idle", "address", "resolve", "query", "add", "update", "report"}

Init ==
  /\ enabled = FALSE
  /\ last = Result("none", 0)
  /\ page = last
  /\ pc = [r \in Runs |-> "idle"]
  /\ myip = [r \in Runs |-> 0]
  /\ rid = [r \in Runs |-> 0]
  /\ misled = [r \in Runs |-> FALSE]
  /\ ip = 1
  /\ zone \in { [i \in Ids |-> IF i = 1 THEN v ELSE 0] : v \in 0 .. 1 }
  /\ made = 1
  /\ cached = zone[1]
  /\ faults = 0
  /\ removed = 0

Fails == faults < MaxFaults /\ faults' = faults + 1
Works == UNCHANGED faults

Goes(r, from, to) ==
  /\ pc[r] = from
  /\ pc' = [pc EXCEPT ![r] = to]

\* A failure that the rest of the run knows nothing of.
FailsUnseen(r) == Fails /\ misled' = [misled EXCEPT ![r] = TRUE]

-----------------------------------------------------------------------------
(***************************************************************************)
(* The page, merlinc_config.sh and cron.                                   *)
(***************************************************************************)
\* A run starts with no address, and with no record id: nothing in the scripts
\* or on the page stores one.  What a shell holds goes with it.
Begins(r) == Goes(r, "idle", "address") /\ UNCHANGED <<myip, rid, misled>>
Ends(r, from) ==
  /\ Goes(r, from, "idle")
  /\ myip' = [myip EXCEPT ![r] = 0]
  /\ rid' = [rid EXCEPT ![r] = 0]
  /\ misled' = [misled EXCEPT ![r] = FALSE]

\* getAppData: the page is loaded with all that is stored.  (Unless there are
\* old pages it is loaded whenever it is saved, and nothing of it is kept.)
LoadPage ==
  /\ OldPages
  /\ page' = last
  /\ UNCHANGED <<enabled, last, shells, world>>

\* save() posts the object that was loaded, with the fields of the form
\* replaced: the result of that time, if there was one, becomes the last again.
Posted == IF page.what = "none" THEN last ELSE page

\* The cron entry is made and the update run, if there is such a script.
Enable ==
  /\ enabled' = TRUE
  /\ last' = Posted
  /\ IF Installed THEN \E r \in Runs : Begins(r) ELSE UNCHANGED shells
  /\ UNCHANGED <<page, world>>

Disable ==
  /\ enabled' = FALSE
  /\ last' = Result("off", 0)
  /\ UNCHANGED <<page, shells, world>>

CronRuns(r) ==
  /\ enabled
  /\ Installed
  /\ Begins(r)
  /\ UNCHANGED <<settings, world>>

-----------------------------------------------------------------------------
(***************************************************************************)
(* merlinc_update.sh.                                                      *)
(***************************************************************************)
\* ip=`$aliddns_curl` || die: die reports and returns, and the run goes on
\* without an address.
GetAddressOrCopy(r) ==
  /\ Goes(r, "address", "resolve")
  /\ \/ Works /\ myip' = [myip EXCEPT ![r] = ip]
     \/ Fails /\ myip' = [myip EXCEPT ![r] = cached]
  /\ UNCHANGED <<settings, rid, misled, ip, cached, provider, removed>>
GetAddress(r) ==
  /\ Goes(r, "address", "resolve")
  /\ \/ /\ Works
        /\ myip' = [myip EXCEPT ![r] = ip]
        /\ UNCHANGED <<last, misled>>
     \/ /\ FailsUnseen(r)
        /\ last' = Result("failed", 0)
        /\ UNCHANGED myip
  /\ UNCHANGED <<enabled, page, rid, ip, cached, provider, removed>>

\* nslookup finds the address of this run: nothing to do.
UpToDateIfResolved(r) == cached # 0
UpToDate(r) == cached # 0 /\ cached = myip[r]
Skip(r) ==
  /\ Ends(r, "resolve")
  /\ UpToDate(r)
  /\ last' = Result("normal", 0)
  /\ UNCHANGED <<enabled, page, world>>

\* It finds another one, or fails; the run has no record id either way.
Differs(r) ==
  /\ Goes(r, "resolve", "query")
  /\ \/ ~UpToDate(r) /\ Works
     \/ Fails
  /\ UNCHANGED <<settings, myip, rid, misled, ip, cached, provider, removed>>

\* get_recordid: the numbers it finds in the answer.
Listed == Existing

\* query_recordid | get_recordid: one of the records of the domain, or nothing
\* when there is none or no answer comes.
NoQuery(r) ==
  /\ Goes(r, "query", "add")
  /\ UNCHANGED <<settings, myip, rid, misled, world>>
Query(r) ==
  /\ \/ /\ Works
        /\ \E i \in Listed : rid' = [rid EXCEPT ![r] = i]
        /\ Goes(r, "query", "update")
     \/ /\ Works
        /\ Listed = {}
        /\ Goes(r, "query", "add")
        /\ UNCHANGED rid
     \/ /\ Fails
        /\ Goes(r, "query", "add")
        /\ UNCHANGED rid
  /\ UNCHANGED <<settings, myip, misled, ip, cached, provider, removed>>

\* The value that add_record and update_record send.
Sent(r) == myip[r]

\* The provider refuses what is no address and what it has already.
Accepts(address) == address # 0 /\ address \notin Values

\* add_record | get_recordid.  When the answer is lost the record is there and
\* the run has no id.
Add(r) ==
  /\ Goes(r, "add", "report")
  /\ \/ /\ Accepts(Sent(r)) /\ made < MaxIds
        /\ made' = made + 1
        /\ zone' = [zone EXCEPT ![made'] = Sent(r)]
        /\ \/ Works /\ rid' = [rid EXCEPT ![r] = made']
           \/ Fails /\ UNCHANGED rid
     \/ /\ ~Accepts(Sent(r)) \/ made = MaxIds
        /\ Works
        /\ UNCHANGED <<provider, rid>>
     \/ /\ Fails
        /\ UNCHANGED <<provider, rid>>
  /\ UNCHANGED <<settings, myip, misled, ip, cached, removed>>

\* update_record: the answer is not looked at.
Update(r) ==
  /\ Goes(r, "update", "report")
  /\ \/ /\ Works
        /\ Accepts(Sent(r)) /\ rid[r] \in Existing
        /\ zone' = [zone EXCEPT ![rid[r]] = Sent(r)]
        /\ UNCHANGED misled
     \/ /\ Works
        /\ ~Accepts(Sent(r)) \/ rid[r] \notin Existing
        /\ UNCHANGED <<zone, misled>>
     \/ /\ FailsUnseen(r)
        /\ UNCHANGED zone
  /\ UNCHANGED <<settings, myip, rid, ip, cached, made, removed>>

ReportedNow(r) == ip
Reported(r) == myip[r]
Report(r) ==
  /\ Ends(r, "report")
  /\ last' = IF rid[r] = 0 THEN Result("failed", 0) ELSE Result("ok", Reported(r))
  /\ UNCHANGED <<enabled, page, world>>

Step(r) ==
  \/ GetAddress(r) \/ Skip(r) \/ Differs(r) \/ Query(r)
  \/ Add(r) \/ Update(r) \/ Report(r)

-----------------------------------------------------------------------------
(***************************************************************************)
(* The world.                                                              *)
(***************************************************************************)
NewAddress ==
  /\ ip < MaxIp
  /\ ip' = ip + 1
  /\ UNCHANGED <<settings, shells, cached, provider, faults, removed>>

\* The resolver's copy expires and it asks again.
Resolve ==
  /\ cached' \in IF Existing = {} THEN {0} ELSE Values
  /\ UNCHANGED <<settings, shells, ip, provider, faults, removed>>

RemoveByHand ==
  /\ removed < MaxRemove
  /\ removed' = removed + 1
  /\ \E i \in Existing : zone' = [zone EXCEPT ![i] = 0]
  /\ misled' = [r \in Runs |-> pc[r] # "idle"]
  /\ UNCHANGED <<settings, pc, myip, rid, ip, cached, made, faults>>

Next ==
  \/ LoadPage \/ Enable \/ Disable
  \/ \E r \in Runs : CronRuns(r) \/ Step(r)
  \/ NewAddress \/ Resolve \/ RemoveByHand

Spec == Init /\ [][Next]_vars

\* cron runs the update again and again, a run goes on, and what the resolver
\* holds expires.
FairSpec ==
  /\ Spec
  /\ \A r \in Runs : WF_vars(CronRuns(r)) /\ WF_vars(Step(r))
  /\ WF_vars(Resolve)

-----------------------------------------------------------------------------
\* Every variable has its type; no record and no run is ahead of the router or
\* of the provider.
TypeOK ==
  /\ enabled \in BOOLEAN /\ {last, page} \subseteq Results
  /\ pc \in [Runs -> Steps]
  /\ myip \in [Runs -> 0 .. ip] /\ rid \in [Runs -> 0 .. made]
  /\ misled \in [Runs -> BOOLEAN]
  /\ ip \in Addresses /\ cached \in 0 .. ip
  /\ zone \in [Ids -> 0 .. ip] /\ made \in Ids
  /\ \A i \in Existing : i <= made
  /\ faults \in 0 .. MaxFaults /\ removed \in 0 .. MaxRemove

\* As long as nothing has failed, the runs that overlap leave at most one
\* record each: with one run at a time the domain has one record, whenever
\* the address changes or the record is removed by hand (query_recordid
\* before add_record).
FewRecords == faults = 0 => Cardinality(Existing) <= Cardinality(Runs)

Alone == \A r, s \in Runs : r = s

\* With one run at a time a record is never set back to an older address,
\* whatever fails and however late the request is sent (ip is read first and
\* used last).
NeverBackwards ==
  [][Alone => \A i \in Existing : zone'[i] # 0 => zone'[i] >= zone[i]]_vars

\* The newest address in the zone follows the router's.
Newest == IF Existing = {} THEN 0
          ELSE CHOOSE v \in Values : \A w \in Values : w <= v
Mirror == INSTANCE DnsMirror WITH record <- Newest

\* One run at a time implements the mirror of DnsMirror, even when requests and
\* answers are lost and the lost answers leave two records.
IsMirror == Mirror!Spec

\* With one run at a time, what a run reports as resolved (merlinc_update.sh:124)
\* is in the zone, though the router may have got another address meanwhile.
\* The report is wrong only when in that very run the look-up of the own address
\* failed (die returns), the update was lost (its answer is not looked at) or a
\* record was removed by hand: no failure of an earlier run, no look-up, query
\* or lost answer of this one makes it so.  (What the page shows later may be an
\* older result, which save() has put back.)
ReportIsTrue ==
  [][\A r \in Runs :
       Alone /\ pc[r] = "report" /\ pc'[r] = "idle" /\ ~misled[r] /\ last'.what = "ok"
         => last'.address \in Values']_vars

\* While the service stays on, some record ends up with the router's address
\* for good: a lost request, a stale copy at the resolver, a record removed by
\* hand or another run's late update is made good by a later run.
Converges == <>[]enabled => <>[](ip \in Values)

=============================================================================
