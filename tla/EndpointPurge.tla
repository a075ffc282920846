---------------------------- MODULE EndpointPurge ----------------------------
(***************************************************************************)
(* The removal of one endpoint and everything stored for it, run by an     *)
(* owner's DELETE request (deletePrivateEndpointData) and by the hourly    *)
(* cleanup (the same for private endpoints; its own loop, with the same    *)
(* order, for temporary ones).  Objects go first, page by page, then the   *)
(* event rows, then the secrets, then the endpoint's row.                  *)
(***************************************************************************)
EXTENDS StashStore

CONSTANTS
  Owner,              \* concurrent management requests of endpoint owners
  Cron,               \* the scheduled worker
  PageSize,           \* PRIVATE_ENDPOINT_DATA_EVENT_KEY_PAGE_SIZE, CLEANUP_PAGE_SIZE
  BatchSize           \* PRIVATE_ENDPOINT_DATA_R2_DELETE_BATCH_SIZE

ASSUME PurgeAssumption ==
  Cron \notin Owner /\ PageSize \in Nat \ {0} /\ BatchSize \in Nat \ {0}

Job == Owner \cup {Cron}

VARIABLE job          \* what each of these handlers is doing

JobState ==
  [pc : {"idle", "disable", "addSecret", "revokeSecret",
         "list", "objects", "events", "secrets", "endpoint"},
   endpoint : Endpoint \cup {{}},
   secret   : Secret \cup {{}},
   cursor   : Nat,                  \* afterSequence
   keys     : SUBSET Key]           \* listed, not deleted yet

PurgeTypeOK == job \in [Job -> JobState]

NoJob == [pc |-> "idle", endpoint |-> {}, secret |-> {}, cursor |-> 0,
          keys |-> {}]

PurgeInit == job = [p \in Job |-> NoJob]

Doing(p, pc) == job[p].pc = pc
JobBecome(p, j) == job' = [job EXCEPT ![p] = j]
JobGoto(p, pc) == JobBecome(p, [job[p] EXCEPT !.pc = pc])
EndJob(p) == JobBecome(p, NoJob)
StartPurge(p, e) == JobBecome(p, [NoJob EXCEPT !.pc = "list", !.endpoint = e])

\* The next delete call of a list of keys: at most BatchSize of them.
Batches(keys) ==
  {b \in SUBSET keys : Cardinality(b) = IF Cardinality(keys) < BatchSize
                                        THEN Cardinality(keys) ELSE BatchSize}

MutantFirstPageOnly(p) ==                  \* the loop stops after a page
  LET page == PageAfter(EventsOf(job[p].endpoint), 0, PageSize) IN
  /\ Doing(p, "list")
  /\ IF page = {} \/ job[p].cursor # 0
     THEN JobGoto(p, "events")
     ELSE \E last \in LastRow(page) :
            JobBecome(p, [job[p] EXCEPT !.pc = "objects", !.keys = KeysOf(page),
                                        !.cursor = last.sequence])
  /\ UNCHANGED storeVars

ListObjectKeys(p) ==
  LET page == PageAfter(EventsOf(job[p].endpoint), job[p].cursor, PageSize) IN
  /\ Doing(p, "list")
  /\ IF page = {}
     THEN JobGoto(p, "events")
     ELSE \E last \in LastRow(page) :
            JobBecome(p, [job[p] EXCEPT !.pc = "objects", !.keys = KeysOf(page),
                                        !.cursor = last.sequence])
  /\ UNCHANGED storeVars

DeleteObjectBatch(p) ==
  /\ Doing(p, "objects")
  /\ \E batch \in Batches(job[p].keys) :
       /\ RemoveObjects(batch)
       /\ JobBecome(p, [job[p] EXCEPT !.keys = @ \ batch,
                                      !.pc = IF batch = job[p].keys THEN "list"
                                             ELSE "objects"])
  /\ UNCHANGED <<d1Vars, clock, failures>>

DeleteEvents(p) ==
  /\ Doing(p, "events")
  /\ events' = events \ EventsOf(job[p].endpoint)
  /\ JobGoto(p, IF job[p].endpoint \in PrivEndpoint THEN "secrets" ELSE "endpoint")
  /\ UNCHANGED <<endpoints, next_sequence, secrets, objects, clock, failures>>

DeleteSecrets(p) ==
  /\ Doing(p, "secrets")
  /\ secrets' = secrets \ SecretsOf(job[p].endpoint)
  /\ JobGoto(p, "endpoint")
  /\ UNCHANGED <<endpoints, events, next_sequence, objects, clock, failures>>

DeleteEndpoint(p) ==
  /\ Doing(p, "endpoint")
  /\ CanDeleteEndpoint(job[p].endpoint)
  /\ DeleteEndpointRow(job[p].endpoint)
  /\ EndJob(p)
  /\ UNCHANGED <<events, next_sequence, secrets, objects, clock, failures>>
=============================================================================
