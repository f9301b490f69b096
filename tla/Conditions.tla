----------------------------- MODULE Conditions -----------------------------
(***************************************************************************)
(* The values conditionorc works on, as operators without state:          *)
(* conditions, the record that composes several of them into one unit of   *)
(* work, and the three computations every part of the system relies on:    *)
(* which condition of a record is the active one, whether a status update  *)
(* may be merged into it, and what an update does to the record.           *)
(*                                                                         *)
(* A condition is abstracted to its kind and its state; its ID is the ID   *)
(* of its record (natsStore.Create gives them one), its target the key of  *)
(* the record.  Parameters, status text and timestamps carry no control.   *)
(***************************************************************************)
EXTENDS Naturals, Sequences

CONSTANTS
    Kinds,        \* condition kinds, e.g. inventory, firmwareInstall
    InbandKinds   \* the kinds whose controllers poll the orchestrator API

ASSUME KindsAssumption == InbandKinds \subseteq Kinds

Pending   == "pending"
Active    == "active"
Failed    == "failed"
Succeeded == "succeeded"

States == {Pending, Active, Failed, Succeeded}

StateIsComplete(s) == s \in {Failed, Succeeded}

TransitionValid(from, to) ==
    \/ from = Pending /\ to \in States
    \/ from = Active  /\ to \in {Active, Failed, Succeeded}

\* Conditions of in-band kinds are not handed to the JetStream.
StreamPublishRequired(kind) == kind \notin InbandKinds

Condition == [kind : Kinds, state : States]

-----------------------------------------------------------------------------
(* A unit of work is a sequence of kinds; its record starts out pending.   *)

DistinctKinds(work) ==
    \A i, j \in DOMAIN work : work[i] = work[j] => i = j

UnitsOfWork(n) == {w \in UNION {[1 .. m -> Kinds] : m \in 1 .. n} : DistinctKinds(w)}

\* Variant for mutation: the record's state is left unset.
NewRecordWithoutState(id, work) ==
    [id    |-> id,
     state |-> "",
     conds |-> [i \in DOMAIN work |-> [kind |-> work[i], state |-> Pending]]]

NewRecord(id, work) ==
    [id    |-> id,
     state |-> Pending,
     conds |-> [i \in DOMAIN work |-> [kind |-> work[i], state |-> Pending]]]

RecordOf(ids) == [id : ids, state : States, conds : Seq(Condition)]

\* `Get` reports a missing key as ErrConditionNotFound.
NoRecord == [id |-> "none", state |-> Succeeded, conds |-> << >>]

\* Variant for mutation: a failed record still counts as in progress.
InProgressForgettingFailed(rec) == rec # NoRecord /\ rec.state # Succeeded

\* The test under which Create refuses new work and Update goes ahead.
InProgress(rec) == rec # NoRecord /\ ~StateIsComplete(rec.state)

-----------------------------------------------------------------------------
(* GetActiveCondition: the first incomplete condition of an incomplete     *)
(* record; there may be none, which the caller sees as "not found".        *)

IsActiveCondition(rec, i) ==
    /\ InProgress(rec)
    /\ i \in DOMAIN rec.conds
    /\ ~StateIsComplete(rec.conds[i].state)
    /\ \A j \in 1 .. (i - 1) : StateIsComplete(rec.conds[j].state)

\* Variants for mutation: the update may be of a condition that is not the
\* active one, or along a transition that is not valid.
MergeExistingAnyCondition(rec, upd) ==
    \E i \in DOMAIN rec.conds :
        /\ InProgress(rec)
        /\ rec.id = upd.id
        /\ rec.conds[i].kind = upd.kind
        /\ TransitionValid(rec.conds[i].state, upd.state)

MergeExistingAnyTransition(rec, upd) ==
    \E i \in DOMAIN rec.conds :
        /\ IsActiveCondition(rec, i)
        /\ rec.id = upd.id
        /\ rec.conds[i].kind = upd.kind

\* What MergeExisting requires of the active condition.  upd is a record
\* with fields id, kind and state.
MergeExisting(rec, upd) ==
    \E i \in DOMAIN rec.conds :
        /\ IsActiveCondition(rec, i)
        /\ rec.id = upd.id
        /\ rec.conds[i].kind = upd.kind
        /\ TransitionValid(rec.conds[i].state, upd.state)

-----------------------------------------------------------------------------
(* Update: the first condition of the update's kind is replaced, and the   *)
(* record takes the update's state when it is still pending, when the      *)
(* update is a failure, or when the last condition was the one replaced.   *)

\* Variant for mutation: the first condition is replaced, whatever its kind.
ReplacedFirst(rec, upd, i) == i = 1

Replaced(rec, upd, i) ==
    /\ i \in DOMAIN rec.conds
    /\ rec.conds[i].kind = upd.kind
    /\ \A j \in 1 .. (i - 1) : rec.conds[j].kind # upd.kind

\* Variants for mutation: the record does not take a failure, or not the state
\* of its last condition.
RecordAdoptsNotFailed(rec, upd) ==
    rec.state = Pending \/ Replaced(rec, upd, Len(rec.conds))
RecordAdoptsNotLast(rec, upd) ==
    rec.state = Pending \/ upd.state = Failed

RecordAdopts(rec, upd) ==
    \/ rec.state = Pending
    \/ upd.state = Failed
    \/ Replaced(rec, upd, Len(rec.conds))

ApplyUpdate(rec, upd) ==
    [id    |-> rec.id,
     state |-> IF RecordAdopts(rec, upd) THEN upd.state ELSE rec.state,
     conds |-> [i \in DOMAIN rec.conds |->
                   IF Replaced(rec, upd, i)
                   THEN [kind |-> upd.kind, state |-> upd.state]
                   ELSE rec.conds[i]]]

=============================================================================
