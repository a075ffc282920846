------------------------------ MODULE Retention ------------------------------
(***************************************************************************)
(* runRetentionCleanup, the hourly cron: expired temporary endpoints,      *)
(* expired private endpoints, private events past their retention, the     *)
(* recount of private endpoints' events, and orphan objects, in this order *)
(* and all against one `now`, the time the run was scheduled for.  Any     *)
(* error ends the run; the next one starts from the beginning.             *)
(***************************************************************************)
EXTENDS EndpointPurge

CONSTANT PrivRetention        \* PRIVATE_EVENT_RETENTION_MS, in ticks

ASSUME RetentionAssumption == PrivRetention \in Nat

VARIABLE cron

CronState ==
  [phase  : {"off", "temporary", "private", "old", "oldObjects", "oldRows",
             "reconcile", "list", "exists", "orphans"},
   now    : Nat,
   page   : SUBSET Endpoint,        \* listed as expired, not purged yet
   cursor : Nat,                    \* afterSequence of the retention phase
   rows   : SUBSET Request,         \* event ids of the current page
   listed : SUBSET Key,             \* old objects up to the listing's cursor
   scan   : SUBSET Key,             \* those of the page not looked up in D1 yet
   keys   : SUBSET Key]             \* objects to delete

RetentionTypeOK == cron \in CronState

CronOff == [phase |-> "off", now |-> 0, page |-> {}, cursor |-> 0,
            rows |-> {}, listed |-> {}, scan |-> {}, keys |-> {}]

RetentionInit == cron = CronOff

Phase(ph) == cron.phase = ph /\ Doing(Cron, "idle")
CronGoto(ph) == cron' = [cron EXCEPT !.phase = ph]

StartCleanup ==
  /\ Phase("off")
  /\ cron' = [CronOff EXCEPT !.phase = "temporary", !.now = clock]
  /\ UNCHANGED <<storeVars, job>>

MutantAllEndpoints(S) == {e \in S : RowExists(e)}    \* expires_at not compared

MutantActiveOnly(S) ==                     \* disabled endpoints are skipped
  {e \in S : endpoints[e].status = "active" /\ endpoints[e].expires_at <= cron.now}

\* listExpiredTemporaryEndpoints, listExpiredPrivateEndpoints: any status
ExpiredOf(S) == {e \in S : RowExists(e) /\ endpoints[e].expires_at <= cron.now}

ListExpired(ph, S, next) ==
  /\ Phase(ph) /\ cron.page = {}
  /\ IF ExpiredOf(S) = {}
     THEN CronGoto(next)
     ELSE \E page \in SUBSET ExpiredOf(S) :
            /\ Cardinality(page) = IF Cardinality(ExpiredOf(S)) < PageSize
                                   THEN Cardinality(ExpiredOf(S)) ELSE PageSize
            /\ cron' = [cron EXCEPT !.page = page]
  /\ UNCHANGED <<storeVars, job>>

ListExpiredTemporary == ListExpired("temporary", TempEndpoint, "private")
ListExpiredPrivate   == ListExpired("private", PrivEndpoint, "old")

PurgeNextExpired(e) ==
  /\ Doing(Cron, "idle") /\ e \in cron.page
  /\ StartPurge(Cron, e)
  /\ cron' = [cron EXCEPT !.page = @ \ {e}]
  /\ UNCHANGED storeVars

-----------------------------------------------------------------------------
(* cleanupExpiredPrivateEvents *)

MutantRetentionBoundary ==                 \* <= for <
  {v \in events : /\ v.endpoint_id \in PrivEndpoint
                  /\ v.received_at + PrivRetention <= cron.now}

OldPrivateEvents ==
  {v \in events : /\ v.endpoint_id \in PrivEndpoint
                  /\ v.received_at + PrivRetention < cron.now}

MutantRowsFirst ==                         \* rows before objects
  LET page == PageAfter(OldPrivateEvents, cron.cursor, PageSize) IN
  /\ Phase("old")
  /\ IF page = {}
     THEN CronGoto("reconcile")
     ELSE \E last \in LastRow(page) :
            cron' = [cron EXCEPT !.phase = "oldRows", !.rows = {v.id : v \in page},
                                 !.cursor = last.sequence]
  /\ UNCHANGED <<storeVars, job>>

ListOldEvents ==
  LET page == PageAfter(OldPrivateEvents, cron.cursor, PageSize) IN
  /\ Phase("old")
  /\ IF page = {}
     THEN CronGoto("reconcile")
     ELSE \E last \in LastRow(page) :
            cron' = [cron EXCEPT !.phase = "oldObjects", !.keys = KeysOf(page),
                                 !.rows = {v.id : v \in page},
                                 !.cursor = last.sequence]
  /\ UNCHANGED <<storeVars, job>>

DeleteOldRows ==
  /\ Phase("oldRows")
  /\ events' = {v \in events : v.id \notin cron.rows}
  /\ cron' = [cron EXCEPT !.phase = "old", !.rows = {}]
  /\ UNCHANGED <<endpoints, next_sequence, secrets, objects, clock, failures, job>>

ReconcilePrivateCounts ==
  /\ Phase("reconcile")
  /\ ReconcileCounts
  /\ CronGoto("list")
  /\ UNCHANGED <<events, next_sequence, secrets, objects, clock, failures, job>>

-----------------------------------------------------------------------------
(* cleanupOrphanObjects: the bucket is listed page by page, the objects of *)
(* a page are judged one by one, and all orphans are deleted at the end    *)

MutantFreshObjects == {o.key : o \in objects}        \* no minimum age

\* The objects a run looks at; none joins them while it lasts.
OldObjects == {o.key : o \in {x \in objects : x.uploaded + OrphanMinAge <= cron.now}}

MutantFirstObjectsOnly ==                  \* the cursor is not followed
  LET rest == IF cron.listed = {} THEN OldObjects ELSE {} IN
  /\ Phase("list")
  /\ IF rest = {}
     THEN IF cron.keys = {} THEN cron' = CronOff ELSE CronGoto("orphans")
     ELSE \E page \in (SUBSET rest) \ {{}} :
            cron' = [cron EXCEPT !.phase = "exists", !.scan = page,
                                 !.listed = @ \cup page]
  /\ UNCHANGED <<storeVars, job>>

\* The next page that has old objects on it, as many as fit beside the young
\* ones, in the order of the keys, which say nothing of an object's age.
ListOldObjects ==
  LET rest == OldObjects \ cron.listed IN
  /\ Phase("list")
  /\ IF rest = {}
     THEN IF cron.keys = {} THEN cron' = CronOff ELSE CronGoto("orphans")
     ELSE \E page \in (SUBSET rest) \ {{}} :
            cron' = [cron EXCEPT !.phase = "exists", !.scan = page,
                                 !.listed = @ \cup page]
  /\ UNCHANGED <<storeVars, job>>

MutantExistingDeleted(k) ==                \* eventExists is negated once more
  /\ Phase("exists") /\ k \in cron.scan
  /\ cron' = [cron EXCEPT !.scan = @ \ {k},
                          !.keys = IF HasEvent(k[1]) THEN @ \cup {k} ELSE @]
  /\ UNCHANGED <<storeVars, job>>

LookUpEvent(k) ==
  /\ Phase("exists") /\ k \in cron.scan
  /\ cron' = [cron EXCEPT !.scan = @ \ {k},
                          !.keys = IF HasEvent(k[1]) THEN @ ELSE @ \cup {k}]
  /\ UNCHANGED <<storeVars, job>>

ScanDone ==
  /\ Phase("exists") /\ cron.scan = {}
  /\ CronGoto("list")
  /\ UNCHANGED <<storeVars, job>>

\* deleteR2Objects, in the retention phase and at the end of the scan
DeleteKeyBatch ==
  /\ Phase("oldObjects") \/ Phase("orphans")
  /\ \E batch \in Batches(cron.keys) :
       /\ RemoveObjects(batch)
       /\ cron' = IF batch # cron.keys THEN [cron EXCEPT !.keys = @ \ batch]
                  ELSE IF cron.phase = "orphans" THEN CronOff
                  ELSE [cron EXCEPT !.keys = {}, !.phase = "oldRows"]
  /\ UNCHANGED <<d1Vars, clock, failures, job>>

-----------------------------------------------------------------------------
(* An error ends the run *)

CleanupFails ==
  /\ cron.phase # "off"
  /\ Failure
  /\ cron' = CronOff
  /\ EndJob(Cron)
  /\ UNCHANGED <<d1Vars, objects, clock>>

CleanupDeleteRefused ==
  /\ Doing(Cron, "endpoint")
  /\ ~CanDeleteEndpoint(job[Cron].endpoint)
  /\ cron' = CronOff
  /\ EndJob(Cron)
  /\ UNCHANGED storeVars
=============================================================================
