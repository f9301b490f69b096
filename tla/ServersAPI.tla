----------------------------- MODULE ServersAPI -----------------------------
(***************************************************************************)
(* pkg/api/v1/conditions/routes: the requests that enrol and delete        *)
(* servers and create units of work, against the active-conditions store   *)
(* (ConditionStore) and fleetdb (internal/fleetdb), one call at a time.    *)
(* An enrolment makes three rows in fleetdb and a unit of work; when one   *)
(* of these fails, its rollback deletes the rows it made.                  *)
(*                                                                         *)
(* Each request is one creator of the store; Orc is the orchestrator, of   *)
(* which this module has its updates of conditions a controller knows of   *)
(* and the publication of follow-on work (Orchestrator has the rest).      *)
(***************************************************************************)
EXTENDS ConditionStore

CONSTANTS
    Orc,        \* the orchestrator, an updater
    Ops,        \* the requests that are made
    InbandFlag, \* is CONDITION_API_FEATURE_INBAND_FIRMWARE set?
    Faults,     \* the kinds of fault that may happen
    MaxFaults   \* how many may happen in a behaviour

ASSUME RequestersAssumption == Updaters = Creators \cup {Orc} /\ Orc \notin Creators
ASSUME BoundAssumption == MaxFaults \in Nat

-----------------------------------------------------------------------------
(* What requests create                                                    *)

ServerOps == {"serverEnroll", "serverDelete"}
AllOps    == ServerOps \cup
             {"serverConditionCreate", "biosControl", "firmwareInstall", "validateFirmware"}

\* Firmware is installed in band when the set says so and the flag is set.
FirmwareInstallComposite ==
    {<<"firmwareInstall", "inventory">>} \cup
    (IF InbandFlag
     THEN {<<"serverControl", "firmwareInstallInband", "firmwareInstall", "inventory">>} ELSE {})

FirmwareValidationConditions == <<"firmwareInstall", "inventory", "serverControl">>

UnitsFor(op) ==
    CASE op = "serverEnroll"          -> {<<"inventory">>}
      [] op = "serverConditionCreate" -> {<<k>> : k \in Kinds}
      [] op = "biosControl"           -> {<<"biosControl">>}
      [] op = "firmwareInstall"       -> FirmwareInstallComposite
      [] op = "validateFirmware"      -> {FirmwareValidationConditions}
      [] op = "serverDelete"          -> {}

UnitsOfRequests == UNION {UnitsFor(op) : op \in Ops}

ASSUME UnitsAssumption == UnitsOfRequests \subseteq Works /\ Ops \subseteq AllOps

-----------------------------------------------------------------------------
(* State                                                                   *)

\* The rows of an enrolled server, in the order AddServer makes them.
Rows == <<"server", "credential", "attributes">>
RowNames == {Rows[i] : i \in DOMAIN Rows}

Nobody == "nobody"
ASSUME NobodyAssumption == Nobody \notin Creators

VARIABLES
    maker,      \* maker[s][row]: the request that made the row, or Nobody if there is none
    req,        \* req[r]: what request r is doing
    published,  \* the ids of units a condition of which has been published
    following,  \* the follow-on work the orchestrator is at, or NoFollowing
    unsettled,  \* history: the requests whose Put was done but not acknowledged,
                \* or that failed to mark their unit
    faults      \* the number of faults so far

apiVars == <<maker, req, published, following, unsettled, faults>>
vars == <<storeVars, apiVars>>

\* Follow-on work is looked for on a server; id: the unit found there.
NoFollowing == [server |-> "none", id |-> NoRecord.id]

\* made: serverCreateStatus; id: the unit the request has stored.
NotMade == [op |-> "none", server |-> "none", pc |-> "idle", made |-> {}, id |-> NoRecord.id]

Init ==
    /\ StoreInit
    /\ maker = [s \in Servers |-> [row \in RowNames |-> Nobody]]
    /\ req = [r \in Creators |-> NotMade]
    /\ published = {}
    /\ following = NoFollowing
    /\ unsettled = {}
    /\ faults = 0

NoFault == UNCHANGED faults
Fault(f) ==
    /\ f \in Faults
    /\ faults < MaxFaults
    /\ faults' = faults + 1

Exists(s, row) == maker[s][row] # Nobody
At(r, pc) == req[r].pc = pc
To(r, pc) == req' = [req EXCEPT ![r].pc = pc]
Over == {"idle", "ok", "refused", "rolledBack", "rollbackFailed"}

\* A request fails; an enrolment is rolled back before.
Fails(r) == To(r, IF req[r].op = "serverEnroll" THEN "rollback" ELSE "refused")

-----------------------------------------------------------------------------
(* serverEnroll: AddServer                                                 *)

\* An assumption about the clients: a server is not enrolled or deleted while
\* another request is enrolling or deleting it.
ServerOpsDone(s) ==
    \A q \in Creators : req[q].server = s /\ req[q].op \in ServerOps => req[q].pc \in Over

Start(r, s, op) ==
    /\ At(r, "idle")
    /\ op \in ServerOps => ServerOpsDone(s)
    /\ req' = [req EXCEPT ![r] = [NotMade EXCEPT !.op = op, !.server = s, !.pc =
          CASE op = "serverEnroll" -> "server"
            [] op = "serverDelete" -> "checking"
            [] OTHER -> "lookup"]]
    /\ NoFault
    /\ UNCHANGED <<storeVars, maker, published, following, unsettled>>

Made(r, row) == [req EXCEPT ![r].made = @ \cup {row}]

\* The request makes a row and goes on to the next call.
Makes(r, row, next) ==
    /\ maker' = [maker EXCEPT ![req[r].server][row] = r]
    /\ req' = [Made(r, row) EXCEPT ![r].pc = next]
    /\ NoFault

\* Variant for mutation: serverCreated is set before the call.
CreateServerRowFlaggedFirst(r) ==
    /\ At(r, "server")
    /\ \/ ~Exists(req[r].server, "server") /\ Makes(r, "server", "credential")
       \/ /\ Exists(req[r].server, "server")
          /\ req' = [Made(r, "server") EXCEPT ![r].pc = "rollback"]
          /\ NoFault /\ UNCHANGED maker
    /\ UNCHANGED <<storeVars, published, following, unsettled>>

\* The parameters are invalid, or the id is taken, or the call fails.
CreateServerRow(r) ==
    /\ At(r, "server")
    /\ \/ ~Exists(req[r].server, "server") /\ Makes(r, "server", "credential")
       \/ Fails(r) /\ NoFault /\ UNCHANGED maker
    /\ UNCHANGED <<storeVars, published, following, unsettled>>

\* Whether fleetdb takes a row that is there already, left behind by a server
\* that was deleted, is its concern: it may refuse.
MayRefuse(r, row) == Exists(req[r].server, row)

\* Variant for mutation: credentialCreated is not set.
SetCredentialUnflagged(r) ==
    /\ At(r, "credential")
    /\ maker' = [maker EXCEPT ![req[r].server]["credential"] = r]
    /\ To(r, "attributes")
    /\ NoFault
    /\ UNCHANGED <<storeVars, published, following, unsettled>>

SetCredential(r) ==
    /\ At(r, "credential")
    /\ \/ Makes(r, "credential", "attributes")
       \/ MayRefuse(r, "credential") /\ Fails(r) /\ NoFault /\ UNCHANGED maker
       \/ Fault("fleetdb_error") /\ Fails(r) /\ UNCHANGED maker
    /\ UNCHANGED <<storeVars, published, following, unsettled>>

\* Variant for mutation: the error of CreateAttributes is not returned.
CreateAttributesErrorLost(r) ==
    /\ At(r, "attributes")
    /\ \/ Makes(r, "attributes", "create")
       \/ MayRefuse(r, "attributes") /\ To(r, "create") /\ NoFault /\ UNCHANGED maker
       \/ Fault("fleetdb_error") /\ To(r, "create") /\ UNCHANGED maker
    /\ UNCHANGED <<storeVars, published, following, unsettled>>

CreateAttributes(r) ==
    /\ At(r, "attributes")
    /\ \/ Makes(r, "attributes", "create")
       \/ MayRefuse(r, "attributes") /\ Fails(r) /\ NoFault /\ UNCHANGED maker
       \/ Fault("fleetdb_error") /\ Fails(r) /\ UNCHANGED maker
    /\ UNCHANGED <<storeVars, published, following, unsettled>>

\* cleanup deletes what was made, in the order it was made, and stops at the
\* first deletion that fails.
Rollback(r) ==
    /\ At(r, "rollback")
    /\ LET s    == req[r].server
           left == {i \in DOMAIN Rows : Rows[i] \in req[r].made}
       IN \/ left = {} /\ To(r, "rolledBack") /\ NoFault /\ UNCHANGED maker
          \/ \E i \in left :
                /\ \A j \in left : i <= j
                /\ \/ /\ maker' = [maker EXCEPT ![s][Rows[i]] = Nobody]
                      /\ req' = [req EXCEPT ![r].made = @ \ {Rows[i]}]
                      /\ NoFault
                   \/ /\ Fault("fleetdb_error")
                      /\ To(r, "rollbackFailed") /\ UNCHANGED maker
    /\ UNCHANGED <<storeVars, published, following, unsettled>>

-----------------------------------------------------------------------------
(* serverDelete, and the checks before a unit is created                   *)

\* The answers of fleetdb to GetServer.
GetServer(s, answer) ==
    CASE answer = "server"   -> Exists(s, "server") /\ NoFault
      [] answer = "notFound" -> ~Exists(s, "server") /\ NoFault
      [] answer = "error"    -> Fault("fleetdb_error")

\* serverFacilityCode
Lookup(r) ==
    /\ At(r, "lookup")
    /\ \E answer \in {"server", "notFound", "error"} :
          /\ GetServer(req[r].server, answer)
          /\ IF answer # "server" THEN Fails(r)
             ELSE To(r, CASE req[r].op = "serverConditionCreate" -> "checking"
                          [] req[r].op = "firmwareInstall"       -> "firmwareSet"
                          [] OTHER                               -> "create")
    /\ UNCHANGED <<storeVars, maker, published, following, unsettled>>

\* firmwareInstall asks fleetdb for the set, which may not be there.
FirmwareSetByID(r) ==
    /\ At(r, "firmwareSet")
    /\ NoFault
    /\ To(r, "create") \/ Fails(r)
    /\ UNCHANGED <<storeVars, maker, published, following, unsettled>>

\* GetActiveCondition in serverDelete and serverConditionCreate.
CheckActive(r) ==
    /\ At(r, "checking")
    /\ \/ /\ ~InProgress(bucket[req[r].server])
          /\ To(r, IF req[r].op = "serverDelete" THEN "delete" ELSE "create")
          /\ NoFault
       \/ InProgress(bucket[req[r].server]) /\ Fails(r) /\ NoFault
       \/ Fault("get_error") /\ Fails(r)
    /\ UNCHANGED <<storeVars, maker, published, following, unsettled>>

\* The server goes; its credential and attributes stay.
DeleteServer(s) == maker' = [maker EXCEPT ![s]["server"] = Nobody]

\* That the server is not there is no error.
ServerDelete(r) ==
    /\ At(r, "delete")
    /\ \/ /\ DeleteServer(req[r].server)
          /\ To(r, "ok")
          /\ NoFault
       \/ Fault("fleetdb_error") /\ Fails(r) /\ UNCHANGED maker
    /\ UNCHANGED <<storeVars, published, following, unsettled>>

-----------------------------------------------------------------------------
(* conditionCreate, and the same in firmwareInstall and validateFirmware   *)

CreateUnit(r) ==
    /\ At(r, "create")
    /\ \/ /\ \E work \in UnitsFor(req[r].op) : CreateGet(r, req[r].server, work)
          /\ req' = [req EXCEPT ![r].pc = "put", ![r].id = create'[r].rec.id]
          /\ NoFault
       \/ InProgress(bucket[req[r].server]) /\ Fails(r) /\ NoFault /\ UNCHANGED storeVars
       \/ Fault("get_error") /\ Fails(r) /\ UNCHANGED storeVars
    /\ UNCHANGED <<maker, published, following, unsettled>>

\* validateFirmware publishes whatever the kind.
PublishRequired(r) ==
    req[r].op = "validateFirmware" \/ StreamPublishRequired(units[req[r].id][1])

\* The request leaves behind what it did not learn or could not undo.
Unsettle(r) == unsettled' = unsettled \cup {r}

\* A Put that fails may have stored the record and lost only its answer: the
\* request fails, and neither publishes its unit nor marks it.
PutUnit(r) ==
    /\ At(r, "put")
    /\ \/ /\ CreatePut(r) /\ To(r, IF PublishRequired(r) THEN "publish" ELSE "ok")
          /\ NoFault /\ UNCHANGED unsettled
       \/ CreateFails(r) /\ Fails(r) /\ Fault("put_error") /\ UNCHANGED unsettled
       \/ CreatePut(r) /\ Fails(r) /\ Fault("put_lost_ack") /\ Unsettle(r)
    /\ UNCHANGED <<maker, published, following>>

Publish(id) == published' = published \cup {id}

\* A Publish that fails may have published and lost only its answer.
PublishFailed(r) ==
    \/ Fault("publish_error") /\ UNCHANGED published
    \/ Fault("publish_lost_ack") /\ Publish(req[r].id)

\* Variant for mutation: the unit is left pending when it was not published.
PublishUnitUnmarked(r) ==
    /\ At(r, "publish")
    /\ \/ Publish(req[r].id) /\ To(r, "ok") /\ NoFault
       \/ PublishFailed(r) /\ Fails(r)
    /\ UNCHANGED <<storeVars, maker, following, unsettled>>

PublishUnit(r) ==
    /\ At(r, "publish")
    /\ \/ Publish(req[r].id) /\ To(r, "ok") /\ NoFault
       \/ PublishFailed(r) /\ To(r, "mark")
    /\ UNCHANGED <<storeVars, maker, following, unsettled>>

\* The update may be refused: an overlapping request has replaced the unit, or
\* the orchestrator, which published it too, has finished it.  That its Put was
\* done but not acknowledged makes no difference to the request.
MarkUnit(r) ==
    /\ At(r, "mark")
    /\ LET s == req[r].server
           id == req[r].id
       IN \/ /\ update[r] = NoUpdate /\ MarkUnpublished(r, s, id)
             /\ NoFault /\ UNCHANGED <<req, unsettled>>
          \/ /\ update[r] = NoUpdate
             /\ ~UpdateAllowed(bucket[s], Unpublished(id))
             /\ Fails(r) /\ NoFault /\ UNCHANGED <<storeVars, unsettled>>
          \/ /\ update[r] = NoUpdate /\ Fault("get_error")
             /\ Fails(r) /\ Unsettle(r) /\ UNCHANGED storeVars
          \/ UpdatePut(r) /\ Fails(r) /\ NoFault /\ UNCHANGED unsettled
          \/ UpdateFails(r) /\ Fails(r) /\ Fault("put_error") /\ Unsettle(r)
    /\ UNCHANGED <<maker, published, following>>

-----------------------------------------------------------------------------
(* The orchestrator                                                        *)

Known(id) == id \in published \/ units[id][1] \in InbandKinds

\* An update that completes a condition goes on to follow-on work, unless one of
\* the calls in between fails.
CommitUpdate ==
    /\ UpdatePut(Orc)
    /\ \/ UNCHANGED following
       \/ /\ StateIsComplete(update[Orc].upd.state)
          /\ following' = [NoFollowing EXCEPT !.server = update[Orc].server]

UpdateCondition ==
    /\ \/ /\ \E s \in Servers, upd \in Update :
                /\ upd.id = bucket[s].id /\ Known(upd.id)
                /\ MergeUpdate(Orc, s, upd)
          /\ UNCHANGED following
       \/ (UpdateGet(Orc) \/ UpdateRefused(Orc) \/ UpdateFails(Orc)) /\ UNCHANGED following
       \/ CommitUpdate
    /\ UNCHANGED published

\* The active condition of the server is to be published: the next one of the
\* unit, or the first one of a unit a request has put and not yet published.
QueueFollowingCondition ==
    /\ following # NoFollowing /\ following.id = NoRecord.id
    /\ LET rec == bucket[following.server]
       IN /\ \E n \in DOMAIN rec.conds :
                /\ IsActiveCondition(rec, n)
                /\ rec.conds[n].state = Pending
                /\ StreamPublishRequired(rec.conds[n].kind)
          /\ following' = [following EXCEPT !.id = rec.id]
    /\ UNCHANGED <<storeVars, published>>

\* It ends once it has published, with an answer or without, and ends without
\* publishing when there is nothing to publish or a call has failed.
EndFollowing ==
    /\ following # NoFollowing
    /\ following' = NoFollowing
    /\ \/ following.id # NoRecord.id /\ Publish(following.id)
       \/ UNCHANGED published
    /\ UNCHANGED storeVars

Work ==
    /\ UpdateCondition \/ QueueFollowingCondition \/ EndFollowing
    /\ UNCHANGED <<maker, req, unsettled, faults>>

RequestStep(r) ==
    \/ CreateServerRow(r) \/ SetCredential(r) \/ CreateAttributes(r) \/ Rollback(r)
    \/ Lookup(r) \/ FirmwareSetByID(r) \/ CheckActive(r) \/ ServerDelete(r)
    \/ CreateUnit(r) \/ PutUnit(r) \/ PublishUnit(r) \/ MarkUnit(r)

Next ==
    \/ \E r \in Creators :
          RequestStep(r) \/ \E s \in Servers, op \in Ops : Start(r, s, op)
    \/ Work

Spec == Init /\ [][Next]_vars

-----------------------------------------------------------------------------
(* Properties *)

PCs == {"server", "credential", "attributes", "rollback", "lookup", "firmwareSet", "checking",
        "delete", "create", "put", "publish", "mark"} \cup Over

Requests == [op : Ops, server : Servers, pc : PCs, made : SUBSET RowNames,
             id : IDs \cup {NoRecord.id}]

\* Every variable holds a value of its kind.
TypeOK ==
    /\ StoreTypeOK
    /\ maker \in [Servers -> [RowNames -> Creators \cup {Nobody}]]
    /\ req \in [Creators -> Requests \cup {NotMade}]
    /\ published \subseteq IDs
    /\ following \in [server : Servers, id : IDs \cup {NoRecord.id}] \cup {NoFollowing}
    /\ unsettled \subseteq Creators
    /\ faults \in 0 .. MaxFaults

\* When an enrolment has failed and its rollback has not, fleetdb holds nothing
\* the enrolment made.
NothingLeftOver ==
    \A r \in Creators : At(r, "rolledBack") =>
        \A s \in Servers, row \in RowNames : maker[s][row] # r

\* A server whose enrolment was answered with success has, until it is
\* deleted, its credential and its attributes.
EnrolledComplete ==
    \A r \in Creators : At(r, "ok") /\ req[r].op = "serverEnroll" =>
        \A s \in Servers : maker[s]["server"] = r => \A row \in RowNames : Exists(s, row)

\* A rollback deletes only what its own enrolment made: one that fails because
\* the server is there already leaves the server alone.
RollbackOfOwnRows ==
    [][\A r \in Creators : At(r, "rollback") /\ req'[r] # req[r] =>
          \A s \in Servers, row \in RowNames : maker'[s][row] = maker[s][row] \/ maker[s][row] = r
      ]_vars

FailedPCs == {"refused", "rollback", "rolledBack", "rollbackFailed"}

\* A request that was answered with an error leaves the server locked only by
\* work a controller has been told to do, whatever fails and whoever updates at
\* the same time; unless its Put was done but not acknowledged, or it failed to
\* mark the unit it could not publish.
NoWorkOfFailedRequests ==
    \A r \in Creators : req[r].pc \in FailedPCs /\ r \notin unsettled =>
        \A s \in Servers :
            InProgress(bucket[s]) /\ bucket[s].id = req[r].id => Known(req[r].id)

=============================================================================
