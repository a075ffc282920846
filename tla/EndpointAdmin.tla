---------------------------- MODULE EndpointAdmin ----------------------------
(***************************************************************************)
(* The management requests of a private endpoint's owner: delete the       *)
(* endpoint, create a secret, revoke a secret.  Each reads the endpoint    *)
(* first and acts on what it read in later statements.                     *)
(***************************************************************************)
EXTENDS EndpointPurge

MutantPurgeAtOnce(o, e) ==                 \* the endpoint is not disabled first
  Doing(o, "idle") /\ RowExists(e) /\ StartPurge(o, e) /\ UNCHANGED storeVars

\* deleteEndpoint: an active endpoint is disabled first, a disabled one (an
\* earlier attempt failed) is purged again; expiry is not looked at.
FindForDelete(o, e) ==
  /\ Doing(o, "idle")
  /\ RowExists(e)
  /\ JobBecome(o, [NoJob EXCEPT !.endpoint = e,
                                !.pc = IF endpoints[e].status = "active"
                                       THEN "disable" ELSE "list"])
  /\ UNCHANGED storeVars

DisableEndpoint(o) ==
  LET e == job[o].endpoint IN
  /\ Doing(o, "disable")
  /\ IF endpoints[e].status = "active"
     THEN /\ endpoints' = [endpoints EXCEPT ![e].status = "disabled"]
          /\ JobGoto(o, "list")
     ELSE EndJob(o) /\ UNCHANGED endpoints
  /\ UNCHANGED <<events, next_sequence, secrets, objects, clock, failures>>

\* resolveOwnedPrivateEndpoint
FindForSecret(o, e, s, pc) ==
  /\ Doing(o, "idle")
  /\ endpoints[e].status = "active" /\ ~Expired(e)
  /\ JobBecome(o, [NoJob EXCEPT !.endpoint = e, !.secret = s, !.pc = pc])
  /\ UNCHANGED storeVars

\* A secret's id is fresh.
FindForCreateSecret(o, e, s) ==
  /\ \A x \in secrets : x.id # s
  /\ \A p \in Owner : job[p].secret # s
  /\ FindForSecret(o, e, s, "addSecret")

FindForRevokeSecret(o, e, s) == FindForSecret(o, e, s, "revokeSecret")

\* The INSERT fails when the endpoint's row is gone: endpoint_secrets refers to it.
CreateEndpointSecret(o) ==
  LET e == job[o].endpoint IN
  /\ Doing(o, "addSecret")
  /\ secrets' = IF RowExists(e)
                THEN secrets \cup {[id |-> job[o].secret, endpoint_id |-> e,
                                    status |-> "active"]}
                ELSE secrets
  /\ EndJob(o)
  /\ UNCHANGED <<endpoints, events, next_sequence, objects, clock, failures>>

RevokeEndpointSecret(o) ==
  LET hit == {x \in SecretsOf(job[o].endpoint) : x.id = job[o].secret} IN
  /\ Doing(o, "revokeSecret")
  /\ secrets' = (secrets \ hit) \cup {[x EXCEPT !.status = "revoked"] : x \in hit}
  /\ EndJob(o)
  /\ UNCHANGED <<endpoints, events, next_sequence, objects, clock, failures>>

\* A call throws (or the foreign keys refuse the last DELETE), or the isolate
\* is lost: the request ends where it is; the owner may try again.
OwnerRequestFails(o) ==
  /\ job[o].pc # "idle"
  /\ Failure
  /\ EndJob(o)
  /\ UNCHANGED <<d1Vars, objects, clock>>

OwnerDeleteRefused(o) ==
  /\ Doing(o, "endpoint")
  /\ ~CanDeleteEndpoint(job[o].endpoint)
  /\ EndJob(o)
  /\ UNCHANGED storeVars
=============================================================================
