------------------------- MODULE ServersAPI_proofs -------------------------
(***************************************************************************)
(* Proofs about ServersAPI, for any number of servers, overlapping         *)
(* requests and faults: the requests use the store as ConditionStore says, *)
(* an enrolment is complete or, but for a rollback that fails, undone, and *)
(* a request that failed locks no server with work no controller knows of. *)
(***************************************************************************)
EXTENDS ServersAPI, ConditionStore_proofs

USE DEF storeVars

EnrolPCs == {"server", "credential", "attributes", "rollback", "rolledBack", "rollbackFailed"}

\* Where a request is tells what it asked for and whether it has a unit.
OpInv(r) ==
    /\ req[r].pc = "idle" => req[r] = NotMade
    /\ req[r].pc \in EnrolPCs => req[r].op = "serverEnroll"
    /\ req[r].pc \in {"lookup", "firmwareSet", "checking", "delete", "refused"}
          => req[r].op # "serverEnroll"
    /\ req[r].pc = "delete" => req[r].op = "serverDelete"
    /\ req[r].pc \in {"put", "publish", "mark"} => req[r].id \in IDs

RequestInv == TypeOK /\ \A r \in Creators : OpInv(r)

\* Request r is at p now, the others are where they were.
Moved(r, p) ==
    /\ req' \in [Creators -> Requests \cup {NotMade}]
    /\ req'[r] = [req[r] EXCEPT !.pc = p]
    /\ req'[r].pc = p /\ req'[r].op = req[r].op /\ req'[r].server = req[r].server
    /\ req'[r].made = req[r].made /\ req'[r].id = req[r].id
    /\ \A q \in Creators : q # r => req'[q] = req[q]

LEMMA RowNamesAre == RowNames = {"server", "credential", "attributes"}
BY DEF RowNames, Rows

LEMMA ToMoves ==
  ASSUME TypeOK, NEW r \in Creators, ~At(r, "idle"), NEW p \in PCs, To(r, p)
  PROVE  Moved(r, p)
<1>1. req[r] \in Requests
  BY DEF TypeOK, At, NotMade
<1>2. [req[r] EXCEPT !.pc = p] \in Requests
  BY <1>1 DEF Requests
<1> QED
  BY <1>1, <1>2 DEF TypeOK, To, Moved, Requests

LEMMA FailsMoves ==
  ASSUME TypeOK, NEW r \in Creators, ~At(r, "idle"), Fails(r)
  PROVE  \/ req[r].op = "serverEnroll" /\ Moved(r, "rollback")
         \/ req[r].op # "serverEnroll" /\ Moved(r, "refused")
BY ToMoves DEF Fails, PCs, Over

\* A row is made: the request also keeps that it made it.
MadeAt(r, row, p) ==
    /\ req' \in [Creators -> Requests \cup {NotMade}]
    /\ req'[r].pc = p /\ req'[r].op = req[r].op /\ req'[r].server = req[r].server
    /\ req'[r].made = req[r].made \cup {row} /\ req'[r].id = req[r].id
    /\ \A q \in Creators : q # r => req'[q] = req[q]
    /\ maker' \in [Servers -> [RowNames -> Creators \cup {Nobody}]]
    /\ maker'[req[r].server][row] = r
    /\ \A s \in Servers, w \in RowNames :
          ~(s = req[r].server /\ w = row) => maker'[s][w] = maker[s][w]

LEMMA MakesRow ==
  ASSUME TypeOK, NEW r \in Creators, ~At(r, "idle"), NEW p \in PCs, NEW row \in RowNames,
         Makes(r, row, p)
  PROVE  MadeAt(r, row, p)
<1>1. req[r] \in Requests
  BY DEF TypeOK, At, NotMade
<1> DEFINE new == [[req[r] EXCEPT !.made = @ \cup {row}] EXCEPT !.pc = p]
<1>2. /\ new \in Requests /\ new.pc = p /\ new.op = req[r].op /\ new.server = req[r].server
      /\ new.made = req[r].made \cup {row} /\ new.id = req[r].id
  BY <1>1 DEF Requests
<1>3. req' = [req EXCEPT ![r] = new]
  BY DEF TypeOK, Makes, Made
<1> HIDE DEF new
<1>4. /\ req' \in [Creators -> Requests \cup {NotMade}]
      /\ req'[r] = new
      /\ \A q \in Creators : q # r => req'[q] = req[q]
  BY <1>2, <1>3 DEF TypeOK
<1>5. req[r].server \in Servers
  BY <1>1 DEF Requests
<1>6. /\ maker' \in [Servers -> [RowNames -> Creators \cup {Nobody}]]
      /\ maker'[req[r].server][row] = r
      /\ \A s \in Servers, w \in RowNames :
            ~(s = req[r].server /\ w = row) => maker'[s][w] = maker[s][w]
  BY <1>5 DEF TypeOK, Makes
<1> QED
  BY <1>2, <1>4, <1>6 DEF MadeAt

-----------------------------------------------------------------------------
(* The steps of a request, by what they do to it and to the rows           *)

\* An enrolment goes on, or turns back, and makes no row.
Turns == {<<"server", "rollback">>, <<"credential", "rollback">>, <<"attributes", "rollback">>,
          <<"create", "rollback">>, <<"put", "rollback">>, <<"mark", "rollback">>,
          <<"put", "ok">>, <<"put", "publish">>, <<"publish", "ok">>, <<"publish", "mark">>,
          <<"rollback", "rolledBack">>, <<"rollback", "rollbackFailed">>}

Turn(r) ==
    /\ UNCHANGED maker
    /\ \E p \in PCs : /\ Moved(r, p)
                      /\ <<req[r].pc, p>> \in Turns
                      /\ p = "rolledBack" => req[r].made = {}
    /\ req[r].op = "serverEnroll"

\* So does another request.
GoOn(r) ==
    /\ UNCHANGED maker
    /\ \E p \in PCs \ (EnrolPCs \cup {"idle"}) :
          /\ Moved(r, p)
          /\ p = "delete" => req[r].op = "serverDelete"
          /\ p \in {"put", "publish", "mark"} => req[r].pc \in {"put", "publish"}
    /\ req[r].op # "serverEnroll"
    /\ req[r].pc \notin Over

\* The request gets the id of its unit.
GetsUnit(r) ==
    /\ UNCHANGED maker
    /\ req[r].pc = "create"
    /\ req' \in [Creators -> Requests \cup {NotMade}]
    /\ req'[r].pc = "put" /\ req'[r].op = req[r].op /\ req'[r].server = req[r].server
    /\ req'[r].made = req[r].made /\ req'[r].id = create'[r].rec.id /\ req'[r].id \in IDs
    /\ \A q \in Creators : q # r => req'[q] = req[q]

MakesNext(r) ==
    \/ req[r].pc = "server" /\ ~Exists(req[r].server, "server") /\ MadeAt(r, "server", "credential")
    \/ req[r].pc = "credential" /\ MadeAt(r, "credential", "attributes")
    \/ req[r].pc = "attributes" /\ MadeAt(r, "attributes", "create")

\* The row is gone, with s and row as they were when r began the step.
Gone(s, row) ==
    /\ maker' \in [Servers -> [RowNames -> Creators \cup {Nobody}]]
    /\ maker'[s][row] = Nobody
    /\ \A t \in Servers, w \in RowNames : ~(t = s /\ w = row) => maker'[t][w] = maker[t][w]

\* The rollback deletes a row, the server before the others.
Undoes(r, row) ==
    /\ req[r].pc = "rollback"
    /\ row \in req[r].made
    /\ "server" \in req[r].made => row = "server"
    /\ Gone(req[r].server, row)
    /\ req' \in [Creators -> Requests \cup {NotMade}]
    /\ req'[r].pc = "rollback" /\ req'[r].op = req[r].op /\ req'[r].server = req[r].server
    /\ req'[r].made = req[r].made \ {row} /\ req'[r].id = req[r].id
    /\ \A q \in Creators : q # r => req'[q] = req[q]

Deletes(r) ==
    /\ req[r].pc = "delete"
    /\ Gone(req[r].server, "server")
    /\ Moved(r, "ok")

Effects(r) ==
    \/ UNCHANGED <<req, maker>>
    \/ Turn(r) \/ GoOn(r) \/ GetsUnit(r) \/ MakesNext(r) \/ Deletes(r)
    \/ \E row \in RowNames : Undoes(r, row)

LEMMA TurnBack ==
  ASSUME RequestInv, NEW r \in Creators, UNCHANGED maker, Fails(r),
         req[r].pc \in {"server", "credential", "attributes", "create", "put", "mark", "lookup",
                        "firmwareSet", "checking", "delete"}
  PROVE  Turn(r) \/ GoOn(r)
<1>1. ~At(r, "idle") /\ TypeOK /\ OpInv(r)
  BY DEF At, RequestInv
<1>2. CASE req[r].op = "serverEnroll" /\ Moved(r, "rollback")
  BY <1>1, <1>2 DEF Turn, Turns, OpInv, PCs
<1>3. CASE req[r].op # "serverEnroll" /\ Moved(r, "refused")
  BY <1>1, <1>3 DEF GoOn, PCs, Over, EnrolPCs
<1> QED
  BY <1>1, <1>2, <1>3, FailsMoves

LEMMA EnrolEffects ==
  ASSUME RequestInv, NEW r \in Creators,
         CreateServerRow(r) \/ SetCredential(r) \/ CreateAttributes(r)
  PROVE  Effects(r)
<1>1. ~At(r, "idle") /\ TypeOK
  BY DEF At, RequestInv, CreateServerRow, SetCredential, CreateAttributes
<1>2. {"server", "credential", "attributes"} = RowNames
  BY RowNamesAre
<1>3. CASE CreateServerRow(r)
  BY <1>1, <1>2, <1>3, MakesRow, TurnBack DEF CreateServerRow, Effects, MakesNext, At, PCs
<1>4. CASE SetCredential(r)
  BY <1>1, <1>2, <1>4, MakesRow, TurnBack DEF SetCredential, Effects, MakesNext, At, PCs
<1>5. CASE CreateAttributes(r)
  BY <1>1, <1>2, <1>5, MakesRow, TurnBack DEF CreateAttributes, Effects, MakesNext, At, PCs
<1> QED
  BY <1>3, <1>4, <1>5

LEMMA RollbackEffects ==
  ASSUME RequestInv, NEW r \in Creators, Rollback(r)
  PROVE  Effects(r)
<1>1. /\ req[r].pc = "rollback" /\ ~At(r, "idle") /\ TypeOK /\ req[r].op = "serverEnroll"
      /\ req[r] \in Requests /\ req[r].server \in Servers
  BY DEF Rollback, At, RequestInv, OpInv, EnrolPCs, TypeOK, NotMade, Requests
<1> DEFINE left == {i \in DOMAIN Rows : Rows[i] \in req[r].made}
<1>2. CASE left = {} /\ To(r, "rolledBack") /\ UNCHANGED maker
  <2>1. req[r].made = {}
    BY <1>1, <1>2 DEF RowNames, Requests
  <2>2. Moved(r, "rolledBack")
    BY <1>1, <1>2, ToMoves DEF PCs, Over
  <2> QED
    BY <1>1, <1>2, <2>1, <2>2 DEF Effects, Turn, Turns, PCs, Over
<1>3. CASE To(r, "rollbackFailed") /\ UNCHANGED maker
  <2>1. Moved(r, "rollbackFailed")
    BY <1>1, <1>3, ToMoves DEF PCs, Over
  <2> QED
    BY <1>1, <1>3, <2>1 DEF Effects, Turn, Turns, PCs, Over
<1>4. ASSUME NEW i \in left, \A j \in left : i <= j,
             maker' = [maker EXCEPT ![req[r].server][Rows[i]] = Nobody],
             req' = [req EXCEPT ![r].made = @ \ {Rows[i]}]
      PROVE  Effects(r)
  <2>1. Rows[i] \in RowNames /\ Rows[i] \in req[r].made
    BY DEF RowNames
  <2>2. "server" \in req[r].made => Rows[i] = "server"
    <3>1. DOMAIN Rows = 1 .. 3 /\ Rows[1] = "server"
      BY DEF Rows
    <3>2. ASSUME "server" \in req[r].made PROVE 1 \in left
      BY <3>1, <3>2
    <3> QED
      BY <1>4, <3>1, <3>2
  <2> DEFINE row == Rows[i]
             new == [req[r] EXCEPT !.made = @ \ {row}]
  <2>3. /\ new \in Requests /\ new.pc = req[r].pc /\ new.op = req[r].op
        /\ new.server = req[r].server /\ new.made = req[r].made \ {row} /\ new.id = req[r].id
    BY <1>1 DEF Requests
  <2>4. req' = [req EXCEPT ![r] = new]
    BY <1>4 DEF RequestInv, TypeOK
  <2> HIDE DEF new, row
  <2>5. /\ req' \in [Creators -> Requests \cup {NotMade}]
        /\ req'[r] = new
        /\ \A q \in Creators : q # r => req'[q] = req[q]
    BY <2>3, <2>4 DEF RequestInv, TypeOK
  <2>6. Gone(req[r].server, row)
    BY <1>1, <1>4, <2>1 DEF Gone, RequestInv, TypeOK, row
  <2>7. Undoes(r, row)
    BY <1>1, <2>1, <2>2, <2>3, <2>5, <2>6 DEF Undoes, row
  <2> QED
    BY <2>1, <2>7 DEF Effects, row
<1> QED
  BY <1>2, <1>3, <1>4 DEF Rollback

LEMMA CheckEffects ==
  ASSUME RequestInv, NEW r \in Creators, Lookup(r) \/ FirmwareSetByID(r) \/ CheckActive(r)
  PROVE  Effects(r)
<1>1. /\ ~At(r, "idle") /\ TypeOK /\ UNCHANGED maker
      /\ req[r].pc \in {"lookup", "firmwareSet", "checking"} /\ req[r].op # "serverEnroll"
  BY DEF At, RequestInv, OpInv, Lookup, FirmwareSetByID, CheckActive
<1>2. CASE Fails(r)
  BY <1>1, <1>2, TurnBack DEF Effects
<1>3. ASSUME NEW p \in {"checking", "firmwareSet", "create", "delete"}, To(r, p),
             p = "delete" => req[r].op = "serverDelete"
      PROVE  Effects(r)
  <2>1. p \in PCs \ (EnrolPCs \cup {"idle"}) /\ Moved(r, p)
    BY <1>1, <1>3, ToMoves DEF PCs, Over, EnrolPCs
  <2> QED
    BY <1>1, <1>3, <2>1 DEF Effects, GoOn, Over
<1>4. CASE Lookup(r)
  BY <1>2, <1>3, <1>4 DEF Lookup
<1>5. CASE FirmwareSetByID(r)
  BY <1>2, <1>3, <1>5 DEF FirmwareSetByID
<1>6. CASE CheckActive(r)
  BY <1>2, <1>3, <1>6 DEF CheckActive
<1> QED
  BY <1>4, <1>5, <1>6

LEMMA DeleteEffects ==
  ASSUME RequestInv, NEW r \in Creators, ServerDelete(r)
  PROVE  Effects(r)
<1>1. /\ req[r].pc = "delete" /\ ~At(r, "idle") /\ TypeOK
      /\ req[r].server \in Servers
  BY DEF At, RequestInv, ServerDelete, TypeOK, Requests, NotMade
<1>2. CASE Fails(r) /\ UNCHANGED maker
  BY <1>1, <1>2, TurnBack DEF Effects
<1>3. CASE DeleteServer(req[r].server) /\ To(r, "ok")
  <2>1. Moved(r, "ok")
    BY <1>1, <1>3, ToMoves DEF PCs, Over
  <2>2. Gone(req[r].server, "server")
    BY <1>1, <1>3, RowNamesAre DEF Gone, DeleteServer, TypeOK
  <2> QED
    BY <1>1, <2>1, <2>2 DEF Effects, Deletes
<1> QED
  BY <1>2, <1>3 DEF ServerDelete

\* What CreateGet leaves with its caller.
LEMMA UnitGiven ==
  ASSUME StoreTypeOK, NEW r \in Creators, NEW s \in Servers, NEW work, CreateGet(r, s, work)
  PROVE  \E id \in IDs :
            /\ units[id] = NoWork
            /\ units' = [units EXCEPT ![id] = work]
            /\ create' = [create EXCEPT ![r] = [server |-> s, rec |-> NewRecord(id, work)]]
            /\ create'[r].server = s /\ create'[r].rec.id = id
            /\ create'[r] # NoCreate
<1>1. PICK id \in IDs :
         /\ units[id] = NoWork
         /\ units' = [units EXCEPT ![id] = work]
         /\ create' = [create EXCEPT ![r] = [server |-> s, rec |-> NewRecord(id, work)]]
  BY DEF CreateGet
<1>2. create'[r] = [server |-> s, rec |-> NewRecord(id, work)]
  BY <1>1 DEF StoreTypeOK
<1>3. NewRecord(id, work).id = id
  BY DEF NewRecord
<1>4. create'[r].server = s /\ create'[r].rec.id = id
  BY <1>2, <1>3
<1>5. create'[r] # NoCreate
  BY <1>4, ServersAssumption DEF NoCreate
<1> QED
  BY <1>1, <1>4, <1>5

LEMMA CreateEffects ==
  ASSUME RequestInv, NEW r \in Creators, CreateUnit(r)
  PROVE  Effects(r)
<1>1. /\ req[r].pc = "create" /\ ~At(r, "idle") /\ TypeOK /\ UNCHANGED maker
      /\ req[r] \in Requests /\ req[r].server \in Servers
  BY DEF At, RequestInv, CreateUnit, TypeOK, Requests, NotMade
<1>2. CASE Fails(r)
  BY <1>1, <1>2, TurnBack DEF Effects
<1>3. ASSUME NEW work \in UnitsFor(req[r].op), CreateGet(r, req[r].server, work),
             req' = [req EXCEPT ![r].pc = "put", ![r].id = create'[r].rec.id]
      PROVE  Effects(r)
  <2>1. create'[r].rec.id \in IDs
    BY <1>1, <1>3, UnitGiven DEF TypeOK
  <2> DEFINE id  == create'[r].rec.id
             new == [[req[r] EXCEPT !.pc = "put"] EXCEPT !.id = id]
  <2>2. /\ new \in Requests /\ new.pc = "put" /\ new.op = req[r].op
        /\ new.server = req[r].server /\ new.made = req[r].made /\ new.id = id
    BY <1>1, <2>1 DEF Requests, PCs
  <2>3. req' = [req EXCEPT ![r] = new]
    BY <1>1, <1>3 DEF TypeOK
  <2> HIDE DEF new
  <2>4. /\ req' \in [Creators -> Requests \cup {NotMade}]
        /\ req'[r] = new
        /\ \A q \in Creators : q # r => req'[q] = req[q]
    BY <1>1, <2>2, <2>3 DEF TypeOK
  <2> QED
    BY <1>1, <2>1, <2>2, <2>4 DEF Effects, GetsUnit
<1> QED
  BY <1>2, <1>3 DEF CreateUnit

LEMMA PublishEffects ==
  ASSUME RequestInv, NEW r \in Creators, PutUnit(r) \/ PublishUnit(r) \/ MarkUnit(r)
  PROVE  Effects(r)
<1>1. /\ req[r].pc \in {"put", "publish", "mark"} /\ ~At(r, "idle") /\ TypeOK /\ UNCHANGED maker
      /\ req[r].id \in IDs
  BY DEF At, RequestInv, OpInv, PutUnit, PublishUnit, MarkUnit
<1>2. CASE Fails(r) /\ ~At(r, "publish")
  BY <1>1, <1>2, TurnBack DEF Effects, At
<1>3. ASSUME NEW p \in {"publish", "ok", "mark"}, To(r, p), <<req[r].pc, p>> \in Turns
      PROVE  Effects(r)
  <2>1. p \in PCs \ (EnrolPCs \cup {"idle"}) /\ Moved(r, p)
    BY <1>1, <1>3, ToMoves DEF PCs, Over, EnrolPCs
  <2>2. p \in {"put", "publish", "mark"} => req[r].pc \in {"put", "publish"}
    BY <1>3 DEF Turns
  <2> QED
    BY <1>1, <1>3, <2>1, <2>2 DEF Effects, GoOn, Turn, Over
<1>4. CASE PutUnit(r)
  BY <1>2, <1>3, <1>4 DEF PutUnit, At, Turns
<1>5. CASE PublishUnit(r)
  BY <1>2, <1>3, <1>5 DEF PublishUnit, At, Turns
<1>6. CASE MarkUnit(r)
  BY <1>1, <1>2, <1>6 DEF MarkUnit, At, Effects
<1> QED
  BY <1>4, <1>5, <1>6

LEMMA RequestEffects ==
  ASSUME RequestInv, NEW r \in Creators, RequestStep(r)
  PROVE  Effects(r)
BY EnrolEffects, RollbackEffects, CheckEffects, DeleteEffects, CreateEffects, PublishEffects
DEF RequestStep

\* A request starts: it has made and stored nothing.
Starts(r) ==
    /\ req[r].pc = "idle"
    /\ UNCHANGED maker
    /\ req' \in [Creators -> Requests \cup {NotMade}]
    /\ req'[r].made = {} /\ req'[r].id = NoRecord.id
    /\ \/ req'[r].op = "serverEnroll" /\ req'[r].pc = "server"
       \/ req'[r].op = "serverDelete" /\ req'[r].pc = "checking"
       \/ req'[r].op \notin ServerOps /\ req'[r].pc = "lookup"
    /\ req'[r].op \in ServerOps => ServerOpsDone(req'[r].server)
    /\ \A q \in Creators : q # r => req'[q] = req[q]

LEMMA StartEffects ==
  ASSUME RequestInv, NEW r \in Creators, NEW s \in Servers, NEW op \in Ops, Start(r, s, op)
  PROVE  Starts(r)
<1> DEFINE pc == CASE op = "serverEnroll" -> "server"
                   [] op = "serverDelete" -> "checking"
                   [] OTHER -> "lookup"
           new == [NotMade EXCEPT !.op = op, !.server = s, !.pc = pc]
<1>1. /\ op = "serverEnroll" => pc = "server"
      /\ op = "serverDelete" => pc = "checking"
      /\ op \notin ServerOps => pc = "lookup"
      /\ op \in ServerOps => op = "serverEnroll" \/ op = "serverDelete"
      /\ pc \in PCs
  BY DEF ServerOps, PCs
<1>2. req' = [req EXCEPT ![r] = new]
  BY Zenon DEF Start
<1> HIDE DEF pc
<1>3. new \in Requests
  BY <1>1 DEF NotMade, Requests
<1>4. new.op = op /\ new.server = s /\ new.pc = pc /\ new.made = {} /\ new.id = NoRecord.id
  BY DEF NotMade
<1> HIDE DEF new
<1>5. /\ req' \in [Creators -> Requests \cup {NotMade}]
      /\ req'[r] = new
      /\ \A q \in Creators : q # r => req'[q] = req[q]
  BY <1>2, <1>3 DEF RequestInv, TypeOK
<1>6. req[r].pc = "idle" /\ UNCHANGED maker /\ (op \in ServerOps => ServerOpsDone(s))
  BY DEF Start, At
<1> QED
  BY <1>1, <1>4, <1>5, <1>6 DEF Starts

-----------------------------------------------------------------------------
(* Types, and the store                                                    *)

\* What any step does to requests and rows.
LEMMA NextEffects ==
  ASSUME RequestInv, Next
  PROVE  \/ UNCHANGED <<req, maker>>
         \/ \E r \in Creators : Effects(r) \/ Starts(r)
<1>1. CASE Work
  BY <1>1 DEF Work
<1>2. ASSUME NEW r \in Creators, RequestStep(r) PROVE Effects(r)
  BY <1>2, RequestEffects
<1>3. ASSUME NEW r \in Creators, NEW s \in Servers, NEW op \in Ops, Start(r, s, op) PROVE Starts(r)
  BY <1>3, StartEffects
<1> QED
  BY <1>1, <1>2, <1>3 DEF Next

LEMMA OpStep ==
  ASSUME RequestInv, NEW r \in Creators, Effects(r) \/ Starts(r)
  PROVE  /\ req' \in [Creators -> Requests \cup {NotMade}]
         /\ maker' \in [Servers -> [RowNames -> Creators \cup {Nobody}]]
         /\ \A q \in Creators : OpInv(q)'
<1>1. OpInv(r) /\ TypeOK
  BY DEF RequestInv
<1>2. ASSUME req' \in [Creators -> Requests \cup {NotMade}],
             maker' \in [Servers -> [RowNames -> Creators \cup {Nobody}]],
             \A q \in Creators : q # r => req'[q] = req[q],
             OpInv(r)'
      PROVE  /\ req' \in [Creators -> Requests \cup {NotMade}]
             /\ maker' \in [Servers -> [RowNames -> Creators \cup {Nobody}]]
             /\ \A q \in Creators : OpInv(q)'
  <2>1. ASSUME NEW q \in Creators, q # r PROVE OpInv(q)'
    BY <1>2, <2>1 DEF OpInv, RequestInv
  <2> QED
    BY <1>2, <2>1
<1>3. CASE UNCHANGED <<req, maker>>
  BY <1>1, <1>2, <1>3 DEF OpInv, TypeOK
<1>4. CASE Turn(r)
  <2>1. PICK p \in PCs : Moved(r, p) /\ <<req[r].pc, p>> \in Turns
    BY <1>4 DEF Turn
  <2>2. /\ p \notin {"idle", "lookup", "firmwareSet", "checking", "delete", "refused"}
        /\ p \in {"put", "publish", "mark"} => req[r].pc \in {"put", "publish", "mark"}
    BY <2>1 DEF Turns
  <2>3. OpInv(r)'
    BY <1>1, <1>4, <2>1, <2>2 DEF OpInv, Moved, Turn
  <2> QED
    BY <1>1, <1>2, <1>4, <2>1, <2>3 DEF Moved, Turn, TypeOK
<1>5. CASE GoOn(r)
  <2>1. OpInv(r)'
    BY <1>1, <1>5 DEF OpInv, Moved, GoOn
  <2> QED
    BY <1>1, <1>2, <1>5, <2>1 DEF Moved, GoOn, TypeOK
<1>6. CASE GetsUnit(r)
  <2>1. OpInv(r)'
    BY <1>1, <1>6 DEF OpInv, GetsUnit, EnrolPCs
  <2> QED
    BY <1>1, <1>2, <1>6, <2>1 DEF GetsUnit, TypeOK
<1>7. CASE MakesNext(r)
  <2>1. OpInv(r)'
    BY <1>1, <1>7 DEF OpInv, MakesNext, MadeAt, EnrolPCs
  <2> QED
    BY <1>2, <1>7, <2>1 DEF MakesNext, MadeAt
<1>8. ASSUME NEW row \in RowNames, Undoes(r, row)
      PROVE  /\ req' \in [Creators -> Requests \cup {NotMade}]
             /\ maker' \in [Servers -> [RowNames -> Creators \cup {Nobody}]]
             /\ \A q \in Creators : OpInv(q)'
  <2>1. OpInv(r)'
    BY <1>1, <1>8 DEF OpInv, Undoes, EnrolPCs
  <2> QED
    BY <1>2, <1>8, <2>1 DEF Undoes, Gone
<1>9. CASE Deletes(r)
  <2>1. OpInv(r)'
    BY <1>1, <1>9 DEF OpInv, Deletes, Moved, EnrolPCs
  <2> QED
    BY <1>2, <1>9, <2>1 DEF Deletes, Gone, Moved
<1>10. CASE Starts(r)
  <2>1. OpInv(r)'
    BY <1>10 DEF OpInv, Starts, EnrolPCs, ServerOps
  <2> QED
    BY <1>1, <1>2, <1>10, <2>1 DEF Starts, TypeOK
<1> QED
  BY <1>3, <1>4, <1>5, <1>6, <1>7, <1>8, <1>9, <1>10 DEF Effects

\* Every request uses the store as ConditionStore says.
LEMMA NextUsesStore ==
  ASSUME RequestInv, Next
  PROVE  [StoreNext]_storeVars
<1>1. Creators \subseteq Updaters /\ Orc \in Updaters
  BY RequestersAssumption
<1>2. CASE Work
  <2>1. ASSUME NEW s \in Servers, NEW upd \in Update, MergeUpdate(Orc, s, upd)
        PROVE  StoreNext
    BY <1>1, <2>1 DEF StoreNext
  <2>2. CASE UpdateGet(Orc) \/ UpdateRefused(Orc) \/ UpdatePut(Orc) \/ UpdateFails(Orc)
    BY <1>1, <2>2 DEF StoreNext
  <2>3. CASE QueueFollowingCondition \/ EndFollowing
    BY <2>3 DEF QueueFollowingCondition, EndFollowing
  <2> QED
    BY <1>2, <2>1, <2>2, <2>3 DEF Work, UpdateCondition, CommitUpdate
<1>3. ASSUME NEW r \in Creators, CreateUnit(r) PROVE [StoreNext]_storeVars
  <2>1. req[r].server \in Servers /\ req[r].op \in Ops
    BY <1>3 DEF RequestInv, TypeOK, Requests, NotMade, CreateUnit, At
  <2>2. UnitsFor(req[r].op) \subseteq Works
    BY <2>1, UnitsAssumption DEF UnitsOfRequests
  <2>3. CASE UNCHANGED storeVars
    BY <2>3
  <2>4. ASSUME NEW work \in UnitsFor(req[r].op), CreateGet(r, req[r].server, work)
        PROVE  StoreNext
    BY <2>1, <2>2, <2>4 DEF StoreNext
  <2> QED
    BY <1>3, <2>3, <2>4 DEF CreateUnit
<1>4. ASSUME NEW r \in Creators, PutUnit(r) PROVE StoreNext
  BY <1>4 DEF PutUnit, StoreNext
<1>5. ASSUME NEW r \in Creators, MarkUnit(r) PROVE [StoreNext]_storeVars
  <2>1. req[r].server \in Servers /\ req[r].id \in IDs
    BY <1>5 DEF RequestInv, OpInv, TypeOK, Requests, NotMade, MarkUnit, At
  <2>2. CASE MarkUnpublished(r, req[r].server, req[r].id)
    BY <1>1, <2>1, <2>2 DEF StoreNext
  <2>3. CASE UpdatePut(r) \/ UpdateFails(r)
    BY <1>1, <2>3 DEF StoreNext
  <2>4. CASE UNCHANGED storeVars
    BY <2>4
  <2> QED
    BY <1>5, <2>2, <2>3, <2>4 DEF MarkUnit
<1>6. ASSUME NEW r \in Creators,
             \/ CreateServerRow(r) \/ SetCredential(r) \/ CreateAttributes(r) \/ Rollback(r)
             \/ Lookup(r) \/ FirmwareSetByID(r) \/ CheckActive(r) \/ ServerDelete(r)
             \/ PublishUnit(r) \/ \E s \in Servers, op \in Ops : Start(r, s, op)
      PROVE  UNCHANGED storeVars
  BY <1>6
  DEF CreateServerRow, SetCredential, CreateAttributes, Rollback, Lookup, FirmwareSetByID,
      CheckActive, ServerDelete, PublishUnit, Start
<1> QED
  BY <1>2, <1>3, <1>4, <1>5, <1>6 DEF Next, RequestStep

\* What the orchestrator publishes is the unit of a server.
FollowingType == [server : Servers, id : IDs \cup {NoRecord.id}] \cup {NoFollowing}

LEMMA WorkTypes ==
  ASSUME RequestInv, Work
  PROVE  published' \subseteq IDs /\ following' \in FollowingType
<1>1. /\ TypeOK /\ StoreTypeOK /\ Orc \in Updaters
      /\ published \subseteq IDs /\ following \in FollowingType
  BY RequestersAssumption DEF RequestInv, TypeOK, FollowingType
<1>2. following # NoFollowing =>
         following.server \in Servers /\ following.id \in IDs \cup {NoRecord.id}
  BY <1>1 DEF FollowingType
<1>3. CASE CommitUpdate /\ UNCHANGED published
  <2>1. update[Orc].server \in Servers
    BY <1>1, <1>3 DEF CommitUpdate, UpdatePut, StoreTypeOK, NoUpdate, Call
  <2> QED
    BY <1>1, <1>3, <2>1 DEF CommitUpdate, NoFollowing, FollowingType
<1>4. CASE QueueFollowingCondition
  <2> DEFINE rec == bucket[following.server]
  <2>1. /\ following # NoFollowing /\ \E n \in DOMAIN rec.conds : InProgress(rec)
        /\ following' = [following EXCEPT !.id = rec.id]
    BY <1>4 DEF QueueFollowingCondition, IsActiveCondition
  <2>2. rec.id \in IDs
    BY <1>1, <1>2, <2>1 DEF StoreTypeOK, RecordOf, InProgress
  <2> QED
    BY <1>1, <1>2, <1>4, <2>1, <2>2 DEF QueueFollowingCondition, FollowingType
<1>5. CASE EndFollowing
  BY <1>1, <1>2, <1>5 DEF EndFollowing, Publish, FollowingType
<1> QED
  BY <1>1, <1>3, <1>4, <1>5 DEF Work, UpdateCondition

LEMMA OtherTypes ==
  ASSUME RequestInv, Next
  PROVE  /\ published' \subseteq IDs
         /\ following' \in FollowingType
         /\ unsettled' \subseteq Creators
         /\ faults' \in 0 .. MaxFaults
<1>1. /\ faults \in 0 .. MaxFaults /\ published \subseteq IDs
      /\ following \in FollowingType /\ unsettled \subseteq Creators
  BY DEF RequestInv, TypeOK, FollowingType
<1>2. ASSUME NoFault \/ \E f : Fault(f) PROVE faults' \in 0 .. MaxFaults
  BY <1>1, <1>2, BoundAssumption DEF NoFault, Fault
<1>3. CASE Work
  BY <1>1, <1>3, WorkTypes DEF Work
<1>4. ASSUME NEW r \in Creators, RequestStep(r)
      PROVE  faults' \in 0 .. MaxFaults /\ UNCHANGED following /\ unsettled' \subseteq Creators
  <2>1. faults' \in 0 .. MaxFaults
    BY <1>2, <1>4
    DEF RequestStep, CreateServerRow, SetCredential, CreateAttributes, Makes, Rollback, Lookup,
        GetServer, FirmwareSetByID, CheckActive, ServerDelete, CreateUnit, PutUnit, PublishUnit,
        PublishFailed, MarkUnit
  <2>2. UNCHANGED following /\ (UNCHANGED unsettled \/ Unsettle(r))
    BY <1>4
    DEF RequestStep, CreateServerRow, SetCredential, CreateAttributes, Rollback, Lookup,
        FirmwareSetByID, CheckActive, ServerDelete, CreateUnit, PutUnit, PublishUnit, MarkUnit
  <2> QED
    BY <1>1, <2>1, <2>2 DEF Unsettle
<1>5. ASSUME NEW r \in Creators, PublishUnit(r) PROVE published' \subseteq IDs
  <2>1. req[r].id \in IDs
    BY <1>5 DEF RequestInv, OpInv, PublishUnit, At
  <2> QED
    BY <1>1, <1>5, <2>1 DEF PublishUnit, PublishFailed, Publish
<1>6. ASSUME NEW r \in Creators, RequestStep(r), ~PublishUnit(r) PROVE UNCHANGED published
  BY <1>6
  DEF RequestStep, CreateServerRow, SetCredential, CreateAttributes, Rollback, Lookup,
      FirmwareSetByID, CheckActive, ServerDelete, CreateUnit, PutUnit, MarkUnit
<1>7. ASSUME NEW r \in Creators, NEW s \in Servers, NEW op \in Ops, Start(r, s, op)
      PROVE  /\ UNCHANGED <<published, following, unsettled>>
             /\ faults' \in 0 .. MaxFaults
  BY <1>1, <1>2, <1>7 DEF Start
<1> QED
  BY <1>1, <1>3, <1>4, <1>5, <1>6, <1>7 DEF Next

LEMMA RequestInit == Init => RequestInv
<1> SUFFICES ASSUME Init PROVE RequestInv
  OBVIOUS
<1>1. StoreTypeOK
  BY StoreTypeInit DEF Init
<1>2. 0 \in 0 .. MaxFaults
  BY BoundAssumption
<1> QED
  BY <1>1, <1>2 DEF Init, RequestInv, TypeOK, OpInv, NotMade, EnrolPCs

LEMMA RequestInvStep == RequestInv /\ [Next]_vars => RequestInv'
<1> SUFFICES ASSUME RequestInv, [Next]_vars PROVE RequestInv'
  OBVIOUS
<1>1. CASE UNCHANGED vars
  BY <1>1 DEF vars, apiVars, RequestInv, TypeOK, StoreTypeOK, OpInv
<1>2. CASE Next
  <2>1. StoreTypeOK'
    BY <1>2, NextUsesStore, StoreTypeStep DEF RequestInv, TypeOK
  <2>2. CASE UNCHANGED <<req, maker>>
    BY <1>2, <2>1, <2>2, OtherTypes DEF RequestInv, TypeOK, FollowingType, OpInv
  <2>3. ASSUME NEW r \in Creators, Effects(r) \/ Starts(r) PROVE RequestInv'
    BY <1>2, <2>1, <2>3, OpStep, OtherTypes DEF RequestInv, TypeOK, FollowingType
  <2> QED
    BY <1>2, <2>2, <2>3, NextEffects
<1> QED
  BY <1>1, <1>2

LEMMA RequestInvariant == Spec => []RequestInv
  BY RequestInit, RequestInvStep, PTL DEF Spec

\* Requests, rows and records hold what they can, for any requests that overlap.
THEOREM ApiTypeCorrect == Spec => []TypeOK
<1>1. RequestInv => TypeOK
  BY DEF RequestInv
<1> QED
  BY <1>1, RequestInvariant, PTL

\* However requests overlap and whatever fails, each uses the store step by step
\* as its specification says.
THEOREM ApiImplementsStore == Spec => StoreSpec
<1>1. Init => StoreInit
  BY DEF Init
<1>2. RequestInv /\ [Next]_vars => [StoreNext]_storeVars
  BY NextUsesStore DEF vars
<1> QED
  BY <1>1, <1>2, RequestInvariant, PTL DEF Spec, StoreSpec

-----------------------------------------------------------------------------
(* Rows: an enrolment is complete or undone                                *)

UnderWay(r) == req[r].pc \notin Over

\* Of the requests that enrol or delete a server one is under way.
Exclusive ==
    \A q, r \in Creators :
        q # r /\ UnderWay(q) /\ UnderWay(r) /\ req[q].op \in ServerOps /\ req[r].op \in ServerOps
            => req[q].server # req[r].server

\* What an enrolment under way has made tells how far it is, and what it has
\* made is there, the server unless its rollback has deleted it.
MadeInv(r) ==
    req[r].op = "serverEnroll" /\ UnderWay(r) =>
        /\ req[r].pc = "server" => req[r].made = {}
        /\ req[r].pc = "credential" => req[r].made = {"server"}
        /\ req[r].pc = "attributes" => req[r].made = {"server", "credential"}
        /\ req[r].pc \in {"create", "put", "publish", "mark"} => req[r].made = RowNames
        /\ \A row \in req[r].made : maker[req[r].server][row] = r
        /\ req[r].made # {} => maker[req[r].server]["server"] \in {r, Nobody}

\* A request's rows are of its server, and it knows them until it is over.
OwnInv(r) ==
    \A s \in Servers, row \in RowNames : maker[s][row] = r =>
        /\ req[r].op = "serverEnroll"
        /\ s = req[r].server
        /\ req[r].pc \notin {"idle", "rolledBack"}
        /\ UnderWay(r) => row \in req[r].made

CompleteInv(r) ==
    req[r].pc = "ok" /\ req[r].op = "serverEnroll" =>
        \A s \in Servers : maker[s]["server"] = r => \A row \in RowNames : Exists(s, row)

RowInv(r) == MadeInv(r) /\ OwnInv(r) /\ CompleteInv(r)
RowsInv   == Exclusive /\ \A r \in Creators : RowInv(r)

\* A request that enrols or deletes is alone in it when it starts, and no other
\* step takes one up.
LEMMA ExclusiveStep ==
  ASSUME RequestInv, Exclusive, NEW r \in Creators,
         \A q \in Creators : q # r => req'[q] = req[q],
         \/ Starts(r)
         \/ req[r].pc \notin Over /\ req'[r].op = req[r].op /\ req'[r].server = req[r].server
  PROVE  Exclusive'
BY DEF Exclusive, UnderWay, Starts, ServerOpsDone

\* The other requests, when r makes or deletes a row of its server.
LEMMA OthersRows ==
  ASSUME RequestInv, RowsInv, NEW r \in Creators, NEW q \in Creators, q # r, req'[q] = req[q],
         UnderWay(r), req[r].op \in ServerOps, NEW row \in RowNames,
         \A s \in Servers, w \in RowNames :
            ~(s = req[r].server /\ w = row) => maker'[s][w] = maker[s][w],
         \/ maker'[req[r].server][row] = r
         \/ /\ maker'[req[r].server][row] = Nobody
            /\ row = "server" \/ maker[req[r].server]["server"] # q
  PROVE  RowInv(q)'
<1>1. /\ {"server", "credential", "attributes"} = RowNames
      /\ Nobody \notin Creators /\ "server" \in RowNames
      /\ req[q] \in Requests \cup {NotMade}
  BY RowNamesAre, NobodyAssumption DEF RequestInv, TypeOK
<1>2. MadeInv(q) /\ OwnInv(q) /\ CompleteInv(q)
  BY DEF RowsInv, RowInv
<1>3. UnderWay(q) /\ req[q].op = "serverEnroll" => req[q].server # req[r].server
  BY DEF RowsInv, Exclusive, ServerOps
<1>4. UnderWay(q)' = UnderWay(q)
  BY DEF UnderWay
<1>5. MadeInv(q)'
  <2>1. UnderWay(q) => req[q] \in Requests
    BY <1>1 DEF UnderWay, NotMade, Over
  <2> QED
    BY <1>1, <1>2, <1>3, <1>4, <2>1 DEF MadeInv, Requests
<1>6. OwnInv(q)'
  BY <1>1, <1>2, <1>4 DEF OwnInv
<1>7. CompleteInv(q)'
  BY <1>1, <1>2 DEF CompleteInv, Exists
<1> QED
  BY <1>5, <1>6, <1>7 DEF RowInv

\* And when r leaves the rows as they are.
LEMMA OthersSame ==
  ASSUME RowsInv, NEW q \in Creators, req'[q] = req[q], UNCHANGED maker
  PROVE  RowInv(q)'
<1>1. RowInv(q)
  BY DEF RowsInv
<1> QED
  BY <1>1 DEF RowInv, MadeInv, OwnInv, CompleteInv, UnderWay, Exists

LEMMA TurnRows ==
  ASSUME RequestInv, RowsInv, NEW r \in Creators, Turn(r)
  PROVE  RowsInv'
<1>1. PICK p \in PCs : /\ Moved(r, p) /\ <<req[r].pc, p>> \in Turns
                       /\ p = "rolledBack" => req[r].made = {}
  BY DEF Turn
<1>2. /\ UNCHANGED maker /\ req[r].op = "serverEnroll" /\ UnderWay(r)
      /\ MadeInv(r) /\ OwnInv(r)
  BY <1>1 DEF Turn, Turns, UnderWay, Over, RowsInv, RowInv
<1>3. /\ req'[r].pc = p /\ req'[r].op = req[r].op /\ req'[r].server = req[r].server
      /\ req'[r].made = req[r].made
      /\ \A q \in Creators : q # r => req'[q] = req[q]
  BY <1>1 DEF Moved
<1>4. /\ p \notin {"idle", "server", "credential", "attributes", "create"}
      /\ p \in {"put", "publish", "mark", "ok"} => req[r].pc \in {"put", "publish", "mark"}
  BY <1>1 DEF Turns
<1>5. MadeInv(r)'
  BY <1>2, <1>3, <1>4 DEF MadeInv, UnderWay
<1>6. OwnInv(r)'
  BY <1>1, <1>2, <1>3, <1>4 DEF OwnInv, UnderWay
<1>7. CompleteInv(r)'
  <2>1. ASSUME p = "ok" PROVE \A row \in RowNames : maker[req[r].server][row] = r
    BY <1>2, <1>4, <2>1 DEF MadeInv
  <2>2. ASSUME p = "ok", NEW s \in Servers, maker[s]["server"] = r, NEW row \in RowNames
        PROVE  maker[s][row] # Nobody
    <3>1. s = req[r].server
      BY <1>2, <2>2, RowNamesAre DEF OwnInv
    <3> QED
      BY <2>1, <2>2, <3>1, NobodyAssumption
  <2> QED
    BY <1>2, <1>3, <2>2 DEF CompleteInv, Exists
<1>8. Exclusive'
  BY <1>2, <1>3, ExclusiveStep DEF RowsInv, UnderWay
<1> QED
  BY <1>2, <1>3, <1>5, <1>6, <1>7, <1>8, OthersSame DEF RowsInv, RowInv

\* A request that is not an enrolment has no rows.
LEMMA NoRows ==
  ASSUME RowsInv, NEW r \in Creators, req[r].op # "serverEnroll", req'[r].op = req[r].op,
         UNCHANGED maker
  PROVE  RowInv(r)'
<1>1. OwnInv(r)
  BY DEF RowsInv, RowInv
<1> QED
  BY <1>1 DEF RowInv, MadeInv, OwnInv, CompleteInv

LEMMA GoOnRows ==
  ASSUME RequestInv, RowsInv, NEW r \in Creators, GoOn(r)
  PROVE  RowsInv'
<1>1. PICK p \in PCs : Moved(r, p)
  BY DEF GoOn
<1>2. Exclusive'
  BY <1>1, ExclusiveStep DEF GoOn, Moved, RowsInv
<1> QED
  BY <1>1, <1>2, NoRows, OthersSame DEF GoOn, Moved, RowsInv

LEMMA GetsUnitRows ==
  ASSUME RequestInv, RowsInv, NEW r \in Creators, GetsUnit(r)
  PROVE  RowsInv'
<1>1. Exclusive'
  BY ExclusiveStep DEF GetsUnit, RowsInv, Over
<1>2. RowInv(r)'
  <2>1. RowInv(r)
    BY DEF RowsInv
  <2> QED
    BY <2>1 DEF GetsUnit, RowInv, MadeInv, OwnInv, CompleteInv, UnderWay, Over
<1> QED
  BY <1>1, <1>2, OthersSame DEF GetsUnit, RowsInv

LEMMA MakesRows ==
  ASSUME RequestInv, RowsInv, NEW r \in Creators, MakesNext(r)
  PROVE  RowsInv'
<1>1. PICK row \in RowNames, p \in {"credential", "attributes", "create"} :
         /\ MadeAt(r, row, p)
         /\ \/ req[r].pc = "server" /\ row = "server" /\ p = "credential"
            \/ req[r].pc = "credential" /\ row = "credential" /\ p = "attributes"
            \/ req[r].pc = "attributes" /\ row = "attributes" /\ p = "create"
  BY RowNamesAre DEF MakesNext
<1>2. /\ req[r].op = "serverEnroll" /\ UnderWay(r) /\ req[r].pc \notin Over
      /\ req[r].server \in Servers /\ MadeInv(r) /\ OwnInv(r)
  BY <1>1 DEF RequestInv, OpInv, EnrolPCs, TypeOK, Requests, NotMade, UnderWay, Over, RowsInv, RowInv
<1>3. /\ req'[r].pc = p /\ req'[r].op = req[r].op /\ req'[r].server = req[r].server
      /\ req'[r].made = req[r].made \cup {row}
      /\ \A q \in Creators : q # r => req'[q] = req[q]
      /\ maker'[req[r].server][row] = r
      /\ \A s \in Servers, w \in RowNames :
            ~(s = req[r].server /\ w = row) => maker'[s][w] = maker[s][w]
  BY <1>1 DEF MadeAt
<1>4. req[r].made \subseteq RowNames /\ RowNames = {"server", "credential", "attributes"}
  BY <1>1, <1>2, RowNamesAre DEF MadeInv
<1>5. MadeInv(r)'
  <2>1. /\ p = "credential" => req'[r].made = {"server"}
        /\ p = "attributes" => req'[r].made = {"server", "credential"}
        /\ p = "create" => req'[r].made = RowNames
    BY <1>1, <1>2, <1>3, <1>4 DEF MadeInv
  <2>2. \A w \in req'[r].made : maker'[req[r].server][w] = r
    BY <1>2, <1>3, <1>4 DEF MadeInv
  <2>3. "server" \in req'[r].made
    BY <1>1, <2>1, <1>4
  <2> QED
    BY <1>1, <1>3, <2>1, <2>2, <2>3 DEF MadeInv
<1>6. OwnInv(r)'
  BY <1>1, <1>2, <1>3 DEF OwnInv, UnderWay, Over
<1>7. CompleteInv(r)'
  BY <1>1, <1>3 DEF CompleteInv
<1>8. Exclusive'
  BY <1>2, <1>3, ExclusiveStep DEF RowsInv
<1>9. ASSUME NEW q \in Creators, q # r PROVE RowInv(q)'
  BY <1>2, <1>3, <1>9, OthersRows DEF ServerOps
<1> QED
  BY <1>5, <1>6, <1>7, <1>8, <1>9 DEF RowsInv, RowInv

LEMMA UndoesRows ==
  ASSUME RequestInv, RowsInv, NEW r \in Creators, NEW row \in RowNames, Undoes(r, row)
  PROVE  RowsInv' /\ maker[req[r].server][row] = r
<1>1. /\ req[r].op = "serverEnroll" /\ UnderWay(r) /\ req[r].pc \notin Over
      /\ req[r].server \in Servers /\ MadeInv(r) /\ OwnInv(r)
  BY DEF Undoes, RequestInv, OpInv, EnrolPCs, TypeOK, Requests, NotMade, UnderWay, Over, RowsInv,
         RowInv
<1>2. /\ req'[r].pc = "rollback" /\ req'[r].op = req[r].op /\ req'[r].server = req[r].server
      /\ req'[r].made = req[r].made \ {row}
      /\ \A q \in Creators : q # r => req'[q] = req[q]
      /\ maker'[req[r].server][row] = Nobody
      /\ \A s \in Servers, w \in RowNames :
            ~(s = req[r].server /\ w = row) => maker'[s][w] = maker[s][w]
      /\ row \in req[r].made /\ ("server" \in req[r].made => row = "server")
  BY DEF Undoes, Gone
<1>3. req[r].made \subseteq RowNames /\ "server" \in RowNames
  BY RowNamesAre, <1>1 DEF RequestInv, TypeOK, Requests, NotMade, UnderWay, Over
<1>4. MadeInv(r)'
  BY <1>1, <1>2, <1>3 DEF MadeInv
<1>5. OwnInv(r)'
  BY <1>1, <1>2, NobodyAssumption DEF OwnInv
<1>6. CompleteInv(r)'
  BY <1>2 DEF CompleteInv
<1>7. Exclusive'
  BY <1>1, <1>2, ExclusiveStep DEF RowsInv
<1>8. ASSUME NEW q \in Creators, q # r PROVE RowInv(q)'
  <2>1. maker[req[r].server]["server"] # q
    BY <1>1, <1>2, <1>8, NobodyAssumption DEF MadeInv
  <2> QED
    BY <1>1, <1>2, <1>8, <2>1, OthersRows DEF ServerOps
<1> QED
  BY <1>1, <1>2, <1>4, <1>5, <1>6, <1>7, <1>8 DEF RowsInv, RowInv, MadeInv

LEMMA DeletesRows ==
  ASSUME RequestInv, RowsInv, NEW r \in Creators, Deletes(r)
  PROVE  RowsInv'
<1>1. /\ req[r].op = "serverDelete" /\ UnderWay(r) /\ req[r].pc \notin Over
      /\ OwnInv(r) /\ "server" \in RowNames
  BY RowNamesAre DEF Deletes, RequestInv, OpInv, UnderWay, Over, RowsInv, RowInv
<1>2. /\ req'[r].op = req[r].op /\ req'[r].server = req[r].server
      /\ \A q \in Creators : q # r => req'[q] = req[q]
      /\ maker'[req[r].server]["server"] = Nobody
      /\ \A s \in Servers, w \in RowNames :
            ~(s = req[r].server /\ w = "server") => maker'[s][w] = maker[s][w]
  BY DEF Deletes, Gone, Moved
<1>3. RowInv(r)'
  BY <1>1, <1>2, NobodyAssumption DEF RowInv, MadeInv, OwnInv, CompleteInv
<1>4. Exclusive'
  BY <1>1, <1>2, ExclusiveStep DEF RowsInv
<1>5. ASSUME NEW q \in Creators, q # r PROVE RowInv(q)'
  BY <1>1, <1>2, <1>5, OthersRows DEF ServerOps
<1> QED
  BY <1>3, <1>4, <1>5 DEF RowsInv

LEMMA StartsRows ==
  ASSUME RequestInv, RowsInv, NEW r \in Creators, Starts(r)
  PROVE  RowsInv'
<1>1. Exclusive'
  BY ExclusiveStep DEF Starts, RowsInv
<1>2. RowInv(r)'
  <2>1. OwnInv(r)
    BY DEF RowsInv, RowInv
  <2> QED
    BY <2>1 DEF Starts, RowInv, MadeInv, OwnInv, CompleteInv, UnderWay, ServerOps
<1> QED
  BY <1>1, <1>2, OthersSame DEF Starts, RowsInv

LEMMA RowsInit == Init => RowsInv
<1> SUFFICES ASSUME Init PROVE RowsInv
  OBVIOUS
<1>1. \A r \in Creators : req[r].pc = "idle" /\ req[r].op = "none"
  BY DEF Init, NotMade
<1>2. \A s \in Servers, row \in RowNames : maker[s][row] = Nobody
  BY DEF Init
<1>3. Exclusive
  BY <1>1 DEF Exclusive, UnderWay, Over
<1>4. ASSUME NEW r \in Creators PROVE RowInv(r)
  BY <1>1, <1>2, NobodyAssumption DEF RowInv, MadeInv, OwnInv, CompleteInv
<1> QED
  BY <1>3, <1>4 DEF RowsInv

LEMMA RowsStep == RequestInv /\ RowsInv /\ [Next]_vars => RowsInv'
<1> SUFFICES ASSUME RequestInv, RowsInv, [Next]_vars PROVE RowsInv'
  OBVIOUS
<1>1. CASE UNCHANGED <<req, maker>>
  <2>1. Exclusive'
    BY <1>1 DEF RowsInv, Exclusive, UnderWay
  <2> QED
    BY <1>1, <2>1, OthersSame DEF RowsInv
<1>2. CASE Next
  <2>1. ASSUME NEW r \in Creators, Effects(r) \/ Starts(r) PROVE RowsInv'
    BY <1>1, <2>1, TurnRows, GoOnRows, GetsUnitRows, MakesRows, UndoesRows, DeletesRows, StartsRows
    DEF Effects
  <2> QED
    BY <1>1, <1>2, <2>1, NextEffects
<1> QED
  BY <1>1, <1>2 DEF vars, apiVars

LEMMA RowsInvariant == Spec => [](RequestInv /\ RowsInv)
<1>1. Init => RequestInv /\ RowsInv
  BY RequestInit, RowsInit
<1>2. RequestInv /\ RowsInv /\ [Next]_vars => (RequestInv /\ RowsInv)'
  BY RequestInvStep, RowsStep
<1> QED
  BY <1>1, <1>2, PTL DEF Spec

\* Whatever fails when, an enrolment that was rolled back has left no row behind.
THEOREM RollbackLeavesNothing == Spec => []NothingLeftOver
<1>1. RowsInv => NothingLeftOver
  BY DEF RowsInv, RowInv, OwnInv, NothingLeftOver, At
<1> QED
  BY <1>1, RowsInvariant, PTL

\* A server whose enrolment succeeded is complete as long as it is there.
THEOREM SuccessIsComplete == Spec => []EnrolledComplete
<1>1. RowsInv => EnrolledComplete
  BY DEF RowsInv, RowInv, CompleteInv, EnrolledComplete, At
<1> QED
  BY <1>1, RowsInvariant, PTL

\* A rollback deletes no row of another enrolment.
THEOREM RollbackSparesOthers == Spec => RollbackOfOwnRows
<1> DEFINE Spares == \A r \in Creators : At(r, "rollback") /\ req'[r] # req[r] =>
                       \A s \in Servers, row \in RowNames :
                          maker'[s][row] = maker[s][row] \/ maker[s][row] = r
<1>1. ASSUME RequestInv, RowsInv, Next PROVE Spares
  <2>1. CASE UNCHANGED <<req, maker>>
    BY <2>1
  <2>2. ASSUME NEW r \in Creators, Effects(r) \/ Starts(r) PROVE Spares
    <3>1. ASSUME NEW q \in Creators, q # r PROVE req'[q] = req[q]
      BY <2>2, <3>1
      DEF Effects, Starts, Turn, GoOn, Moved, GetsUnit, MakesNext, MadeAt, Deletes, Undoes
    <3>2. ASSUME At(r, "rollback"), ~UNCHANGED maker
          PROVE  \A s \in Servers, row \in RowNames :
                    maker'[s][row] = maker[s][row] \/ maker[s][row] = r
      <4>1. PICK row \in RowNames : Undoes(r, row)
        BY <2>2, <3>2 DEF Effects, Starts, Turn, GoOn, GetsUnit, MakesNext, Deletes, At
      <4>2. maker[req[r].server][row] = r
        BY <1>1, <4>1, UndoesRows
      <4> QED
        BY <4>1, <4>2 DEF Undoes, Gone
    <3> QED
      BY <3>1, <3>2
  <2> QED
    BY <1>1, <2>1, <2>2, NextEffects
<1>2. RequestInv /\ RowsInv /\ [Next]_vars => [Spares]_vars
  BY <1>1
<1> QED
  BY <1>2, RowsInvariant, PTL DEF Spec, RollbackOfOwnRows

-----------------------------------------------------------------------------
(* Units: a request that failed leaves none in progress that is not known  *)

Early == {"idle", "server", "credential", "attributes", "lookup", "firmwareSet", "checking",
          "delete", "create"}

\* No server is locked by unit id, unless a controller knows of it.
Settled(id) == \A s \in Servers : InProgress(bucket[s]) /\ bucket[s].id = id => Known(id)

\* The unit of request r is on its server only, is r's alone, is nowhere before
\* r puts it, and is settled when r has failed.
OwnUnit(r) ==
    LET id == req[r].id
        pc == req[r].pc
    IN /\ units[id] # NoWork
       /\ \A q \in Creators : q # r => req[q].id # id
       /\ \A s \in Servers : bucket[s].id = id => s = req[r].server
       /\ update[Orc].upd.id = id => update[Orc].server = req[r].server
       /\ pc = "put" => update[Orc].upd.id # id /\ \A s \in Servers : bucket[s].id # id
       /\ pc \in FailedPCs /\ r \notin unsettled => Settled(id)

\* A request has a unit from its Create on, puts no other, and marks no other.
UnitInv(r) ==
    /\ req[r].pc \in Early => req[r].id = NoRecord.id
    /\ create[r] # NoCreate =>
          /\ req[r].pc = "put"
          /\ create[r].server = req[r].server /\ create[r].rec.id = req[r].id
    /\ update[r] # NoUpdate =>
          /\ req[r].pc = "mark" /\ update[r].phase = "put"
          /\ update[r].server = req[r].server
          /\ update[r].rec.id = req[r].id /\ update[r].rec.state = Failed
    /\ req[r].id \in IDs => OwnUnit(r)

\* The orchestrator updates units a controller knows of, and it publishes what
\* a request has created.
WorkInv ==
    /\ update[Orc] # NoUpdate => Known(update[Orc].upd.id)
    /\ update[Orc].phase = "put" => update[Orc].rec.id = update[Orc].upd.id
    /\ \A id \in published : units[id] # NoWork
    /\ following.id \in IDs => units[following.id] # NoWork

UnitsInv == WorkInv /\ \A r \in Creators : UnitInv(r)

\* What the step of another leaves of request q and of its unit.
Untouched(q) ==
    LET id == req[q].id
    IN /\ req'[q] = req[q] /\ create'[q] = create[q] /\ update'[q] = update[q]
       /\ q \in unsettled => q \in unsettled'
       /\ published \subseteq published'
       /\ id \in IDs =>
             /\ units'[id] = units[id]
             /\ \A p \in Creators : p # q => req'[p].id # id
             /\ \A s \in Servers : bucket'[s].id = id => bucket'[s] = bucket[s]
             /\ update'[Orc].upd.id = id => update'[Orc] = update[Orc]

LEMMA UntouchedUnits ==
  ASSUME NEW q \in Creators, UnitInv(q), Untouched(q)
  PROVE  UnitInv(q)'
<1>1. ASSUME req[q].id \in IDs PROVE OwnUnit(q)'
  <2>1. OwnUnit(q)
    BY <1>1 DEF UnitInv
  <2>2. req'[q] = req[q] /\ (Settled(req[q].id) => Settled(req[q].id)')
    BY <1>1 DEF Settled, Known, Untouched
  <2> QED
    BY <1>1, <2>1, <2>2 DEF OwnUnit, Untouched
<1> QED
  BY <1>1 DEF UnitInv, Untouched

\* Another request's unit is another.
LEMMA OtherIds ==
  ASSUME UnitsInv, NEW r \in Creators, NEW q \in Creators, q # r, req[q].id \in IDs
  PROVE  /\ units[req[q].id] # NoWork
         /\ \A p \in Creators : p # q => req[p].id # req[q].id
BY DEF UnitsInv, UnitInv, OwnUnit

\* The step of a request that has no unit, or rolls back its enrolment.
Quiet(r) ==
    /\ UNCHANGED <<storeVars, published, following, unsettled>>
    /\ \A q \in Creators : q # r => req'[q] = req[q]
    /\ \/ req[r].pc \in Early /\ req'[r].id = NoRecord.id
          /\ req'[r].pc \notin {"put", "publish", "mark"}
       \/ /\ req[r].pc = "rollback" /\ req'[r].pc \in FailedPCs
          /\ req'[r].id = req[r].id /\ req'[r].op = req[r].op /\ req'[r].server = req[r].server

LEMMA QuietUnits ==
  ASSUME UnitsInv, NEW r \in Creators, Quiet(r)
  PROVE  UnitsInv'
<1>1. WorkInv'
  BY DEF UnitsInv, WorkInv, Known, Quiet
<1>2. ASSUME NEW q \in Creators, q # r PROVE UnitInv(q)'
  <2>1. req'[r].id = req[r].id \/ req'[r].id \notin IDs
    BY IDsAssumption DEF Quiet
  <2>2. Untouched(q)
    BY <1>2, <2>1, OtherIds DEF Untouched, Quiet
  <2> QED
    BY <1>2, <2>2, UntouchedUnits DEF UnitsInv
<1>3. UnitInv(r)
  BY DEF UnitsInv
<1>4. ASSUME req[r].pc \in Early PROVE UnitInv(r)'
  BY <1>3, <1>4, IDsAssumption DEF Quiet, UnitInv, Early
<1>5. ASSUME req[r].pc = "rollback" PROVE UnitInv(r)'
  <2>1. /\ req'[r].pc \in FailedPCs
        /\ req'[r].id = req[r].id /\ req'[r].op = req[r].op /\ req'[r].server = req[r].server
    BY <1>5 DEF Quiet, Early
  <2>2. /\ create[r] = NoCreate /\ update[r] = NoUpdate
        /\ req'[r].pc \notin Early \cup {"put", "publish", "mark"}
    BY <1>3, <1>5, <2>1 DEF UnitInv, Early, FailedPCs
  <2>3. ASSUME req[r].id \in IDs PROVE OwnUnit(r)'
    <3>1. OwnUnit(r)
      BY <1>3, <2>3 DEF UnitInv
    <3>2. Settled(req[r].id) => Settled(req[r].id)'
      BY <2>1 DEF Settled, Known, Quiet
    <3> QED
      BY <1>5, <2>1, <2>2, <3>1, <3>2 DEF OwnUnit, Quiet, FailedPCs
  <2> QED
    BY <2>1, <2>2, <2>3 DEF UnitInv, Quiet
<1> QED
  BY <1>1, <1>2, <1>4, <1>5 DEF UnitsInv, Quiet

LEMMA QuietEffects ==
  ASSUME RequestInv, NEW r \in Creators, UnitInv(r),
         \/ UNCHANGED <<req, maker>> \/ Turn(r) \/ GoOn(r) \/ MakesNext(r) \/ Deletes(r)
         \/ \E row \in RowNames : Undoes(r, row),
         req[r].pc \in Early \cup {"rollback"},
         UNCHANGED <<storeVars, published, following, unsettled>>
  PROVE  Quiet(r)
<1> USE DEF Early, FailedPCs
<1>1. CASE UNCHANGED <<req, maker>>
  BY <1>1 DEF Quiet, UnitInv
<1>2. CASE Turn(r)
  <2>1. PICK p \in PCs : Moved(r, p) /\ <<req[r].pc, p>> \in Turns
    BY <1>2 DEF Turn
  <2>2. /\ p \notin {"put", "publish", "mark"}
        /\ req[r].pc = "rollback" => p \in FailedPCs
    BY <2>1 DEF Turns
  <2> QED
    BY <2>1, <2>2 DEF Quiet, UnitInv, Moved
<1>3. CASE GoOn(r)
  <2>1. PICK p \in PCs : Moved(r, p) /\ (p \in {"put", "publish", "mark"} => req[r].pc \in {"put", "publish"})
    BY <1>3 DEF GoOn
  <2>2. req[r].pc # "rollback"
    BY <1>3 DEF GoOn, RequestInv, OpInv, EnrolPCs
  <2> QED
    BY <2>1, <2>2 DEF Quiet, UnitInv, Moved
<1>4. CASE MakesNext(r)
  BY <1>4 DEF MakesNext, MadeAt, Quiet, UnitInv
<1>5. CASE Deletes(r)
  BY <1>5 DEF Deletes, Moved, Quiet, UnitInv
<1>6. CASE \E row \in RowNames : Undoes(r, row)
  BY <1>6 DEF Undoes, Quiet
<1> QED
  BY <1>1, <1>2, <1>3, <1>4, <1>5, <1>6

LEMMA QuietSteps ==
  ASSUME RequestInv, UnitsInv, NEW r \in Creators,
         \/ CreateServerRow(r) \/ SetCredential(r) \/ CreateAttributes(r) \/ Rollback(r)
         \/ Lookup(r) \/ FirmwareSetByID(r) \/ CheckActive(r) \/ ServerDelete(r)
  PROVE  Quiet(r)
<1>1. UNCHANGED <<storeVars, published, following, unsettled>>
  BY DEF CreateServerRow, SetCredential, CreateAttributes, Makes, Rollback, Lookup, GetServer,
         FirmwareSetByID, CheckActive, ServerDelete
<1>2. req[r].pc \in Early \cup {"rollback"} /\ req[r].pc # "create"
  BY DEF CreateServerRow, SetCredential, CreateAttributes, Rollback, Lookup, FirmwareSetByID,
         CheckActive, ServerDelete, At, Early
<1>3. Effects(r) /\ ~GetsUnit(r)
  BY <1>2, EnrolEffects, RollbackEffects, CheckEffects, DeleteEffects DEF GetsUnit
<1> QED
  BY <1>1, <1>2, <1>3, QuietEffects DEF Effects, UnitsInv

LEMMA StartQuiet ==
  ASSUME RequestInv, NEW r \in Creators, NEW s \in Servers, NEW op \in Ops, Start(r, s, op)
  PROVE  Quiet(r)
<1>1. Starts(r)
  BY StartEffects
<1>2. UNCHANGED <<storeVars, published, following, unsettled>>
  BY DEF Start
<1> QED
  BY <1>1, <1>2 DEF Starts, Quiet, Early

\* A request stores its unit: the id is new, so the unit is its own.
LEMMA CreateUnitUnits ==
  ASSUME RequestInv, RequestInv', RecordInv, UnitsInv, NEW r \in Creators, CreateUnit(r)
  PROVE  UnitsInv'
<1>1. /\ req[r].pc = "create" /\ UnitInv(r)
      /\ UNCHANGED <<maker, published, following, unsettled>>
      /\ req[r].server \in Servers /\ req[r].op \in Ops /\ StoreTypeOK /\ published \subseteq IDs
  BY DEF At, RequestInv, CreateUnit, TypeOK, Requests, NotMade, UnitsInv
<1>2. CASE Fails(r) /\ UNCHANGED storeVars
  <2>1. Turn(r) \/ GoOn(r)
    BY <1>1, <1>2, TurnBack
  <2>2. Quiet(r)
    BY <1>1, <1>2, <2>1, QuietEffects DEF Early
  <2> QED
    BY <2>2, QuietUnits
<1>3. ASSUME NEW work \in UnitsFor(req[r].op), CreateGet(r, req[r].server, work),
             req' = [req EXCEPT ![r].pc = "put", ![r].id = create'[r].rec.id], NoFault
      PROVE  UnitsInv'
  <2>1. PICK id \in IDs :
           /\ units[id] = NoWork
           /\ units' = [units EXCEPT ![id] = work]
           /\ create' = [create EXCEPT ![r] = [server |-> req[r].server, rec |-> NewRecord(id, work)]]
           /\ create'[r].server = req[r].server /\ create'[r].rec.id = id
    BY <1>1, <1>3, UnitGiven
  <2>2. UNCHANGED <<bucket, update, published, following, unsettled>>
    BY <1>1, <1>3 DEF CreateGet
  <2>3. /\ req'[r].pc = "put" /\ req'[r].id = id
        /\ req'[r].op = req[r].op /\ req'[r].server = req[r].server
        /\ \A q \in Creators : q # r => req'[q] = req[q]
    BY <1>1, <1>3, <2>1 DEF RequestInv, TypeOK, Requests, NotMade
  <2>4. /\ work # NoWork
        /\ units'[id] = work /\ \A i \in IDs : i # id => units'[i] = units[i]
    <3>1. work \in Works
      BY <1>1, UnitsAssumption DEF UnitsOfRequests
    <3> QED
      BY <1>1, <2>1, <3>1, WorksAssumption DEF StoreTypeOK
  <2>5. /\ \A q \in Creators : req[q].id # id
        /\ \A s \in Servers : bucket[s].id # id
        /\ update[Orc].upd.id # id
        /\ id \notin published /\ following.id # id
    <3>1. \A q \in Creators : req[q].id # id
      BY <2>1 DEF UnitsInv, UnitInv, OwnUnit
    <3>2. \A s \in Servers : bucket[s].id # id
      BY <1>1, <2>1, StartedUnits
    <3>3. update[Orc].upd.id # id
      <4>1. CASE update[Orc] = NoUpdate
        BY <4>1, IDsAssumption DEF NoUpdate, Call, NoUpd
      <4>2. CASE update[Orc] # NoUpdate
        BY <2>1, <4>2, RequestersAssumption DEF RecordInv, HasItsKind
      <4> QED
        BY <4>1, <4>2
    <3>4. id \notin published /\ following.id # id
      BY <2>1 DEF UnitsInv, WorkInv
    <3> QED
      BY <3>1, <3>2, <3>3, <3>4
  <2>6. WorkInv'
    <3>1. update[Orc] # NoUpdate => update[Orc].upd.id \in IDs
      BY <1>1, RequestersAssumption DEF StoreTypeOK, Update
    <3> QED
      BY <1>1, <2>2, <2>4, <2>5, <3>1 DEF UnitsInv, WorkInv, Known
  <2>7. ASSUME NEW q \in Creators, q # r PROVE UnitInv(q)'
    <3>1. create'[q] = create[q]
      BY <1>1, <2>1, <2>7 DEF StoreTypeOK
    <3>2. Untouched(q)
      BY <2>2, <2>3, <2>4, <2>5, <2>7, <3>1, OtherIds DEF Untouched
    <3> QED
      BY <2>7, <3>2, UntouchedUnits DEF UnitsInv
  <2>8. UnitInv(r)'
    <3>1. OwnUnit(r)'
      BY <2>2, <2>3, <2>4, <2>5 DEF OwnUnit, FailedPCs
    <3>2. update'[r] = NoUpdate
      BY <1>1, <2>2 DEF UnitInv
    <3> QED
      BY <2>1, <2>3, <3>1, <3>2 DEF UnitInv, Early
  <2> QED
    BY <2>6, <2>7, <2>8 DEF UnitsInv
<1> QED
  BY <1>2, <1>3 DEF CreateUnit

\* What the last steps of a request have in common: its unit stays what it was.
Late(r, p) ==
    /\ Moved(r, p)
    /\ p \notin Early
    /\ req[r].id \in IDs /\ req[r].server \in Servers
    /\ OwnUnit(r)
    /\ UNCHANGED <<units, following>>
    /\ unsettled \subseteq unsettled'
    /\ published \subseteq published'

LEMMA LateOthers ==
  ASSUME RequestInv, RequestInv', UnitsInv, NEW r \in Creators, NEW p \in PCs, Late(r, p),
         \A q \in Creators : q # r => create'[q] = create[q] /\ update'[q] = update[q],
         update'[Orc] = update[Orc],
         \A s \in Servers : bucket'[s] = bucket[s] \/ bucket'[s].id = req[r].id,
         \A id \in published' : id \in published \/ id = req[r].id
  PROVE  /\ \A q \in Creators : q # r => UnitInv(q)'
         /\ WorkInv'
<1>1. ASSUME NEW q \in Creators, q # r PROVE UnitInv(q)'
  <2>1. req'[q] = req[q] /\ create'[q] = create[q] /\ update'[q] = update[q]
    BY <1>1 DEF Late, Moved
  <2>2. ASSUME req[q].id \in IDs
        PROVE  /\ req[q].id # req[r].id
               /\ \A c \in Creators : c # q => req'[c].id # req[q].id
    <3>1. \A c \in Creators : c # q => req[c].id # req[q].id
      BY <1>1, <2>2, OtherIds
    <3>2. \A c \in Creators : req'[c].id = req[c].id
      BY DEF Late, Moved
    <3> QED
      BY <1>1, <3>1, <3>2
  <2>3. Untouched(q)
    BY <2>1, <2>2 DEF Untouched, Late
  <2> QED
    BY <1>1, <2>3, UntouchedUnits DEF UnitsInv
<1>2. WorkInv'
  BY DEF UnitsInv, WorkInv, Known, Late, OwnUnit
<1> QED
  BY <1>1, <1>2

\* Where a request that puts, publishes or marks its unit may go.
LEMMA LateMoves ==
  ASSUME RequestInv, UnitsInv, NEW r \in Creators, req[r].pc \in {"put", "publish", "mark"},
         UNCHANGED <<units, following>>, unsettled \subseteq unsettled',
         published \subseteq published'
  PROVE  /\ TypeOK /\ UnitInv(r)
         /\ \A p \in PCs \ Early : To(r, p) => Late(r, p)
         /\ Fails(r) => Late(r, "rollback") \/ Late(r, "refused")
<1>1. /\ req[r].id \in IDs /\ req[r].server \in Servers /\ ~At(r, "idle") /\ TypeOK
      /\ UnitInv(r) /\ OwnUnit(r)
  BY DEF RequestInv, OpInv, TypeOK, Requests, NotMade, At, UnitsInv, UnitInv
<1>2. ASSUME NEW p \in PCs \ Early, To(r, p) PROVE Late(r, p)
  BY <1>1, <1>2, ToMoves DEF Late
<1>3. ASSUME Fails(r) PROVE Late(r, "rollback") \/ Late(r, "refused")
  BY <1>1, <1>3, FailsMoves DEF Late, Early
<1> QED
  BY <1>1, <1>2, <1>3

LEMMA PutUnitUnits ==
  ASSUME RequestInv, RequestInv', UnitsInv, NEW r \in Creators, PutUnit(r)
  PROVE  UnitsInv'
<1>1. /\ req[r].pc = "put" /\ UNCHANGED <<units, update, published, following>>
      /\ create[r] # NoCreate /\ create' = [create EXCEPT ![r] = NoCreate]
      /\ unsettled \subseteq unsettled'
  BY DEF PutUnit, At, CreatePut, CreateFails, Unsettle
<1>2. /\ TypeOK /\ UnitInv(r)
      /\ req[r].id \in IDs /\ req[r].server \in Servers /\ OwnUnit(r)
  BY <1>1, LateMoves DEF RequestInv, OpInv, TypeOK, Requests, NotMade, UnitInv
<1>3. /\ create'[r] = NoCreate /\ \A q \in Creators : q # r => create'[q] = create[q]
      /\ create[r].server = req[r].server /\ create[r].rec.id = req[r].id
      /\ update[r] = NoUpdate
  BY <1>1, <1>2 DEF TypeOK, StoreTypeOK, UnitInv
<1>4. ASSUME NEW p \in PCs, Late(r, p), p # "put",
             \A s \in Servers : bucket'[s] = bucket[s] \/ bucket'[s].id = req[r].id,
             \A s \in Servers : s # req[r].server => bucket'[s] = bucket[s],
             p \in FailedPCs /\ r \notin unsettled' => UNCHANGED bucket
      PROVE  UnitsInv'
  <2>1. /\ req'[r].id = req[r].id /\ req'[r].pc = p /\ req'[r].server = req[r].server
        /\ \A q \in Creators : q # r => req'[q] = req[q]
    BY <1>4 DEF Late, Moved
  <2>2. p \in FailedPCs /\ r \notin unsettled' => Settled(req[r].id)'
    BY <1>1, <1>2, <1>4, <2>1 DEF OwnUnit, Settled
  <2>3. OwnUnit(r)'
    BY <1>1, <1>2, <1>4, <2>1, <2>2 DEF OwnUnit
  <2>4. UnitInv(r)'
    BY <1>1, <1>3, <1>4, <2>1, <2>3 DEF UnitInv, Late
  <2> QED
    BY <1>1, <1>3, <1>4, <2>4, LateOthers DEF UnitsInv
<1>5. ASSUME CreatePut(r)
      PROVE  /\ bucket'[req[r].server].id = req[r].id
             /\ \A s \in Servers : s # req[r].server => bucket'[s] = bucket[s]
  BY <1>2, <1>3, <1>5 DEF CreatePut, TypeOK, StoreTypeOK
<1>6. CASE CreatePut(r) /\ To(r, IF PublishRequired(r) THEN "publish" ELSE "ok")
  <2>1. PICK p \in {"publish", "ok"} : To(r, p)
    BY <1>6
  <2>2. Late(r, p)
    BY <1>1, <2>1, LateMoves DEF PCs, Over, Early
  <2> QED
    BY <1>4, <1>5, <1>6, <2>2 DEF PCs, Over, FailedPCs
<1>7. CASE CreateFails(r) /\ Fails(r)
  <2>1. PICK p \in {"rollback", "refused"} : Late(r, p)
    BY <1>1, <1>7, LateMoves
  <2> QED
    BY <1>4, <1>7, <2>1 DEF PCs, Over, CreateFails
<1>8. CASE CreatePut(r) /\ Fails(r) /\ Unsettle(r)
  <2>1. PICK p \in {"rollback", "refused"} : Late(r, p)
    BY <1>1, <1>8, LateMoves
  <2> QED
    BY <1>4, <1>5, <1>8, <2>1 DEF PCs, Over, Unsettle
<1> QED
  BY <1>6, <1>7, <1>8 DEF PutUnit

LEMMA PublishUnitUnits ==
  ASSUME RequestInv, RequestInv', UnitsInv, NEW r \in Creators, PublishUnit(r)
  PROVE  UnitsInv'
<1>1. /\ req[r].pc = "publish" /\ UNCHANGED <<storeVars, following, unsettled>>
      /\ published' \in {published, published \cup {req[r].id}}
  BY DEF PublishUnit, PublishFailed, Publish, At
<1>2. UnitInv(r) /\ create[r] = NoCreate /\ update[r] = NoUpdate
  BY <1>1, LateMoves DEF UnitInv
<1>3. PICK p \in {"ok", "mark"} : Late(r, p)
  <2>1. PICK p \in {"ok", "mark"} : To(r, p)
    BY DEF PublishUnit
  <2> QED
    BY <1>1, <2>1, LateMoves DEF PCs, Over, Early
<1>4. OwnUnit(r)'
  BY <1>1, <1>3 DEF Late, Moved, OwnUnit, FailedPCs
<1>5. UnitInv(r)'
  BY <1>1, <1>2, <1>3, <1>4 DEF UnitInv, Late, Moved
<1> QED
  BY <1>1, <1>3, <1>5, LateOthers DEF UnitsInv, PCs, Over

\* A mark is a failure of the whole unit.
LEMMA MarkFails ==
  ASSUME NEW rec, NEW id
  PROVE  /\ ApplyUpdate(rec, Unpublished(id)).id = rec.id
         /\ ApplyUpdate(rec, Unpublished(id)).state = Failed
BY DEF ApplyUpdate, RecordAdopts, Unpublished

LEMMA MarkUnitUnits ==
  ASSUME RequestInv, RequestInv', UnitsInv, NEW r \in Creators, MarkUnit(r)
  PROVE  UnitsInv'
<1>1. /\ req[r].pc = "mark" /\ r # Orc
      /\ UNCHANGED <<published, following, units, create>>
      /\ unsettled \subseteq unsettled'
  BY RequestersAssumption
  DEF MarkUnit, At, MarkUnpublished, ReadForUpdate, UpdatePut, UpdateFails, Unsettle
<1>2. /\ TypeOK /\ UnitInv(r) /\ create[r] = NoCreate /\ OwnUnit(r)
      /\ req[r].id \in IDs /\ req[r].server \in Servers /\ r \in Updaters /\ Orc \in Updaters
      /\ Creators \subseteq Updaters
  BY <1>1, LateMoves, RequestersAssumption
  DEF UnitInv, RequestInv, OpInv, TypeOK, Requests, NotMade
<1>3. ASSUME NEW p \in {"rollback", "refused"}, Late(r, p), update'[r] = NoUpdate,
             \A u \in Updaters : u # r => update'[u] = update[u],
             \A s \in Servers : bucket'[s] = bucket[s] \/ bucket'[s].id = req[r].id,
             \A s \in Servers : s # req[r].server => bucket'[s] = bucket[s],
             \/ r \in unsettled'
             \/ bucket'[req[r].server].id = req[r].id => ~InProgress(bucket'[req[r].server])
      PROVE  UnitsInv'
  <2>1. update'[Orc] = update[Orc]
    BY <1>1, <1>2, <1>3
  <2>2. OwnUnit(r)'
    <3>1. \A s \in Servers : bucket'[s].id = req[r].id => s = req[r].server
      BY <1>2, <1>3 DEF OwnUnit
    <3>2. /\ req'[r].id = req[r].id /\ req'[r].pc = p /\ req'[r].op = req[r].op
          /\ req'[r].server = req[r].server
          /\ \A q \in Creators : q # r => req'[q] = req[q]
      BY <1>3 DEF Late, Moved
    <3>3. r \notin unsettled' => Settled(req[r].id)'
      BY <1>3, <3>1, <3>2 DEF Settled
    <3> QED
      BY <1>1, <1>2, <1>3, <2>1, <3>1, <3>2, <3>3 DEF OwnUnit
  <2>3. UnitInv(r)'
    BY <1>1, <1>2, <1>3, <2>2 DEF UnitInv, Late, Moved
  <2>4. p \in PCs
    BY DEF PCs, Over
  <2> QED
    BY <1>1, <1>2, <1>3, <2>1, <2>3, <2>4, LateOthers DEF UnitsInv
<1>4. CASE /\ update[r] = NoUpdate /\ MarkUnpublished(r, req[r].server, req[r].id)
           /\ UNCHANGED <<req, unsettled>>
  <2> DEFINE s   == req[r].server
             id  == req[r].id
             rec == ApplyUpdate(bucket[s], Unpublished(id))
  <2>1. /\ bucket[s].id = id /\ UNCHANGED bucket
        /\ update' = [update EXCEPT ![r] = Call("put", s, Unpublished(id), rec)]
    BY <1>4 DEF MarkUnpublished, ReadForUpdate, UpdateAllowed, Unpublished
  <2>2. rec.id = id /\ rec.state = Failed
    BY <2>1, MarkFails
  <2> HIDE DEF rec
  <2>3. /\ update'[r].phase = "put" /\ update'[r].server = s /\ update'[r].rec = rec
        /\ \A u \in Updaters : u # r => update'[u] = update[u]
    BY <1>2, <2>1 DEF TypeOK, StoreTypeOK, Call
  <2>4. update'[Orc] = update[Orc]
    BY <1>1, <1>2, <2>3
  <2>5. OwnUnit(r)'
    BY <1>1, <1>2, <1>4, <2>1, <2>4 DEF OwnUnit, FailedPCs
  <2>6. UnitInv(r)'
    BY <1>1, <1>2, <1>4, <2>2, <2>3, <2>5 DEF UnitInv, Early
  <2>7. WorkInv'
    BY <1>1, <1>4, <2>4 DEF UnitsInv, WorkInv, Known
  <2>8. ASSUME NEW q \in Creators, q # r PROVE UnitInv(q)'
    <3>1. Untouched(q)
      BY <1>1, <1>2, <1>4, <2>1, <2>3, <2>4, <2>8, OtherIds DEF Untouched
    <3> QED
      BY <2>8, <3>1, UntouchedUnits DEF UnitsInv
  <2> QED
    BY <2>6, <2>7, <2>8 DEF UnitsInv
<1>5. CASE /\ update[r] = NoUpdate /\ Fails(r) /\ UNCHANGED storeVars
           /\ ~UpdateAllowed(bucket[req[r].server], Unpublished(req[r].id)) \/ Unsettle(r)
  <2>1. PICK p \in {"rollback", "refused"} : Late(r, p)
    BY <1>1, <1>5, LateMoves
  <2>2. \/ r \in unsettled'
        \/ bucket[req[r].server].id = req[r].id => ~InProgress(bucket[req[r].server])
    BY <1>5 DEF UpdateAllowed, Unpublished, Unsettle
  <2> QED
    BY <1>3, <1>5, <2>1, <2>2
<1>6. CASE UpdatePut(r) /\ Fails(r)
  <2>1. PICK p \in {"rollback", "refused"} : Late(r, p)
    BY <1>1, <1>6, LateMoves
  <2>2. update[r] # NoUpdate
    BY <1>6 DEF UpdatePut, NoUpdate, Call
  <2>3. /\ update[r].server = req[r].server
        /\ update[r].rec.id = req[r].id /\ update[r].rec.state = Failed
    BY <1>2, <2>2 DEF UnitInv
  <2>4. /\ bucket'[req[r].server] = update[r].rec
        /\ \A s \in Servers : s # req[r].server => bucket'[s] = bucket[s]
        /\ update'[r] = NoUpdate /\ \A u \in Updaters : u # r => update'[u] = update[u]
    BY <1>2, <1>6, <2>3 DEF UpdatePut, TypeOK, StoreTypeOK
  <2>5. ~InProgress(bucket'[req[r].server])
    BY <2>3, <2>4 DEF InProgress, StateIsComplete
  <2> QED
    BY <1>3, <2>1, <2>3, <2>4, <2>5
<1>7. CASE UpdateFails(r) /\ Fails(r) /\ Unsettle(r)
  <2>1. PICK p \in {"rollback", "refused"} : Late(r, p)
    BY <1>1, <1>7, LateMoves
  <2>2. /\ UNCHANGED bucket /\ r \in unsettled'
        /\ update'[r] = NoUpdate /\ \A u \in Updaters : u # r => update'[u] = update[u]
    BY <1>2, <1>7 DEF UpdateFails, TypeOK, StoreTypeOK, Unsettle
  <2> QED
    BY <1>3, <2>1, <2>2
<1> QED
  BY <1>4, <1>5, <1>6, <1>7 DEF MarkUnit

\* The orchestrator's steps: it takes up units in progress that a controller
\* knows of, puts back no other than it read, and publishes what is stored.
LEMMA UpdateUnits ==
  ASSUME RequestInv, UnitsInv, UpdateCondition, UNCHANGED <<req, unsettled>>
  PROVE  UnitsInv'
<1>1. /\ TypeOK /\ StoreTypeOK /\ UNCHANGED <<req, unsettled, published>> /\ Orc \in Updaters
      /\ \A r \in Creators : r # Orc /\ r \in Updaters
  BY RequestersAssumption DEF RequestInv, TypeOK, UpdateCondition
<1>2. NoUpdate.upd.id \notin IDs /\ NoUpdate.phase # "put" /\ NoRecord.id \notin IDs
  BY IDsAssumption DEF NoUpdate, Call, NoUpd
<1>3. ASSUME UNCHANGED <<units, create>>,
             \A u \in Updaters : u # Orc => update'[u] = update[u],
             WorkInv',
             \A r \in Creators : req[r].id \in IDs => OwnUnit(r)'
      PROVE  UnitsInv'
  <2>1. ASSUME NEW r \in Creators PROVE UnitInv(r)'
    BY <1>1, <1>3 DEF UnitsInv, UnitInv
  <2> QED
    BY <1>3, <2>1 DEF UnitsInv
<1>4. ASSUME NEW s \in Servers, NEW upd \in Update, upd.id = bucket[s].id, Known(upd.id),
             MergeUpdate(Orc, s, upd), UNCHANGED following
      PROVE  UnitsInv'
  <2>1. /\ UNCHANGED <<bucket, units, create>>
        /\ update' = [update EXCEPT ![Orc] = Call("merged", s, upd, NoRecord)]
    BY <1>4 DEF MergeUpdate
  <2>2. /\ update'[Orc].upd = upd /\ update'[Orc].server = s /\ update'[Orc].phase = "merged"
        /\ \A u \in Updaters : u # Orc => update'[u] = update[u]
    BY <1>1, <2>1 DEF StoreTypeOK, Call
  <2>3. WorkInv'
    BY <1>1, <1>4, <2>1, <2>2 DEF UnitsInv, WorkInv, Known
  <2>4. ASSUME NEW r \in Creators, req[r].id \in IDs PROVE OwnUnit(r)'
    <3>1. OwnUnit(r)
      BY <2>4 DEF UnitsInv, UnitInv
    <3>2. Settled(req[r].id) => Settled(req[r].id)'
      BY <1>1, <2>1 DEF Settled, Known
    <3>3. ASSUME upd.id = req[r].id PROVE s = req[r].server /\ req[r].pc # "put"
      BY <1>4, <3>1, <3>3 DEF OwnUnit
    <3> QED
      BY <1>1, <2>1, <2>2, <3>1, <3>2, <3>3 DEF OwnUnit
  <2> QED
    BY <1>3, <2>1, <2>2, <2>3, <2>4
<1>5. CASE UpdateGet(Orc) /\ UNCHANGED following
  <2> DEFINE s   == update[Orc].server
             upd == update[Orc].upd
             rec == ApplyUpdate(bucket[s], upd)
  <2>1. /\ bucket[s].id = upd.id /\ UNCHANGED <<bucket, units, create>>
        /\ update' = [update EXCEPT ![Orc] = Call("put", s, upd, rec)]
        /\ update[Orc].phase = "merged"
    BY <1>5 DEF UpdateGet, ReadForUpdate, UpdateAllowed
  <2>2. rec.id = upd.id
    BY <2>1 DEF ApplyUpdate
  <2> HIDE DEF rec
  <2>3. /\ update'[Orc].upd = upd /\ update'[Orc].server = s /\ update'[Orc].rec = rec
        /\ \A u \in Updaters : u # Orc => update'[u] = update[u]
    BY <1>1, <2>1 DEF StoreTypeOK, Call
  <2>4. update[Orc] # NoUpdate
    BY <2>1 DEF NoUpdate, Call
  <2>5. WorkInv'
    BY <1>1, <1>5, <2>1, <2>2, <2>3, <2>4 DEF UnitsInv, WorkInv, Known
  <2>6. ASSUME NEW r \in Creators, req[r].id \in IDs PROVE OwnUnit(r)'
    <3>1. OwnUnit(r)
      BY <2>6 DEF UnitsInv, UnitInv
    <3>2. Settled(req[r].id) => Settled(req[r].id)'
      BY <1>1, <2>1 DEF Settled, Known
    <3> QED
      BY <1>1, <2>1, <2>3, <3>1, <3>2 DEF OwnUnit
  <2> QED
    BY <1>3, <2>1, <2>3, <2>5, <2>6
<1>6. CASE \/ (UpdateRefused(Orc) \/ UpdateFails(Orc)) /\ UNCHANGED following
           \/ CommitUpdate
  <2>1. /\ UNCHANGED <<units, create>> /\ update'[Orc] = NoUpdate
        /\ \A u \in Updaters : u # Orc => update'[u] = update[u]
        /\ UNCHANGED following \/ following'.id = NoRecord.id
    BY <1>1, <1>6
    DEF UpdateRefused, UpdateFails, CommitUpdate, UpdatePut, StoreTypeOK, NoFollowing
  <2>2. \/ UNCHANGED bucket
        \/ /\ update[Orc] # NoUpdate /\ Known(update[Orc].upd.id)
           /\ bucket'[update[Orc].server].id = update[Orc].upd.id
           /\ \A s \in Servers : s # update[Orc].server => bucket'[s] = bucket[s]
    <3>1. CASE CommitUpdate
      <4>1. update[Orc] # NoUpdate /\ update[Orc].phase = "put" /\ Known(update[Orc].upd.id)
        BY <1>2, <3>1 DEF CommitUpdate, UpdatePut, UnitsInv, WorkInv
      <4>2. update[Orc].server \in Servers /\ update[Orc].rec.id = update[Orc].upd.id
        BY <1>1, <4>1 DEF StoreTypeOK, UnitsInv, WorkInv
      <4> QED
        BY <1>1, <3>1, <4>1, <4>2 DEF CommitUpdate, UpdatePut, StoreTypeOK
    <3> QED
      BY <1>6, <3>1 DEF UpdateRefused, UpdateFails
  <2>3. WorkInv'
    BY <1>1, <1>2, <2>1 DEF UnitsInv, WorkInv
  <2>4. ASSUME NEW r \in Creators, req[r].id \in IDs PROVE OwnUnit(r)'
    <3>1. OwnUnit(r)
      BY <2>4 DEF UnitsInv, UnitInv
    <3>2. ASSUME NEW s \in Servers, bucket'[s].id = req[r].id
          PROVE  s = req[r].server /\ req[r].pc # "put"
      BY <2>2, <3>1, <3>2 DEF OwnUnit
    <3>3. update'[Orc].upd.id # req[r].id
      BY <1>2, <2>1, <2>4
    <3>4. Settled(req[r].id) => Settled(req[r].id)'
      BY <1>1, <2>1, <2>2 DEF Settled, Known
    <3> QED
      BY <1>1, <2>1, <3>1, <3>2, <3>3, <3>4 DEF OwnUnit
  <2> QED
    BY <1>3, <2>1, <2>3, <2>4
<1> QED
  BY <1>4, <1>5, <1>6 DEF UpdateCondition

LEMMA FollowingUnits ==
  ASSUME RequestInv, RecordInv, UnitsInv, QueueFollowingCondition \/ EndFollowing,
         UNCHANGED <<req, unsettled>>
  PROVE  UnitsInv'
<1>1. /\ TypeOK /\ StoreTypeOK /\ UNCHANGED storeVars /\ published \subseteq published'
  BY DEF RequestInv, TypeOK, QueueFollowingCondition, EndFollowing, Publish
<1>2. ASSUME NEW r \in Creators PROVE UnitInv(r)'
  <2>1. UnitInv(r)
    BY DEF UnitsInv
  <2>2. Settled(req[r].id) => Settled(req[r].id)'
    BY <1>1 DEF Settled, Known
  <2>3. ASSUME OwnUnit(r) PROVE OwnUnit(r)'
    BY <1>1, <2>2, <2>3 DEF OwnUnit
  <2> QED
    BY <1>1, <2>1, <2>3 DEF UnitInv
<1>3. CASE QueueFollowingCondition
  <2> DEFINE id == bucket[following.server].id
  <2>1. /\ following # NoFollowing /\ UNCHANGED published
        /\ following' = [following EXCEPT !.id = id]
    BY <1>3 DEF QueueFollowingCondition
  <2>2. following.server \in Servers /\ following'.id = id
    BY <1>1, <2>1 DEF TypeOK
  <2>3. id \in IDs => units[id] # NoWork
    BY <1>1, <2>2, StartedUnits
  <2> QED
    BY <1>1, <1>2, <2>1, <2>2, <2>3 DEF UnitsInv, WorkInv, Known
<1>4. CASE EndFollowing
  <2>1. /\ following'.id \notin IDs
        /\ UNCHANGED published \/ published' = published \cup {following.id}
        /\ following # NoFollowing
        /\ following.id = NoRecord.id => UNCHANGED published
    BY <1>4, IDsAssumption DEF EndFollowing, Publish, NoFollowing
  <2>2. following.id \in IDs \cup {NoRecord.id}
    BY <1>1, <2>1 DEF TypeOK
  <2> QED
    BY <1>1, <1>2, <2>1, <2>2 DEF UnitsInv, WorkInv, Known
<1> QED
  BY <1>3, <1>4

LEMMA UnitsInit == Init => UnitsInv
<1> SUFFICES ASSUME Init PROVE UnitsInv
  OBVIOUS
<1>1. Orc \in Updaters /\ Creators \subseteq Updaters
  BY RequestersAssumption
<1>2. /\ update[Orc] = NoUpdate /\ NoUpdate.phase # "put"
      /\ \A r \in Creators : req[r] = NotMade /\ create[r] = NoCreate /\ update[r] = NoUpdate
  BY <1>1 DEF Init, StoreInit, NoUpdate, Call
<1>3. NotMade.pc \in Early /\ NotMade.id = NoRecord.id
  BY DEF NotMade, Early
<1> QED
  BY <1>2, <1>3, IDsAssumption DEF Init, UnitsInv, WorkInv, UnitInv, NoFollowing

ApiInv == RequestInv /\ RecordInv /\ UnitsInv

LEMMA UnitsStep == ApiInv /\ [Next]_vars => ApiInv'
<1> SUFFICES ASSUME ApiInv, [Next]_vars PROVE ApiInv'
  OBVIOUS
<1>1. RequestInv /\ RecordInv /\ UnitsInv /\ StoreTypeOK
  BY DEF ApiInv, RequestInv, TypeOK
<1>2. RequestInv'
  BY <1>1, RequestInvStep
<1>3. [StoreNext]_storeVars
  BY <1>1, NextUsesStore DEF vars
<1>4. RecordInv'
  BY <1>1, <1>2, <1>3, RecordInvStep DEF RequestInv, TypeOK
<1>5. UnitsInv'
  <2>1. CASE UNCHANGED vars
    BY <1>1, <2>1
    DEF vars, apiVars, UnitsInv, WorkInv, Known, UnitInv, OwnUnit, Settled
  <2>2. CASE Work
    BY <1>1, <2>2, UpdateUnits, FollowingUnits DEF Work
  <2>3. ASSUME NEW r \in Creators, RequestStep(r) PROVE UnitsInv'
    BY <1>1, <1>2, <2>3, QuietSteps, QuietUnits, CreateUnitUnits, PutUnitUnits, PublishUnitUnits,
       MarkUnitUnits
    DEF RequestStep
  <2>4. ASSUME NEW r \in Creators, NEW s \in Servers, NEW op \in Ops, Start(r, s, op)
        PROVE  UnitsInv'
    BY <1>1, <1>2, <2>4, StartQuiet, QuietUnits
  <2> QED
    BY <2>1, <2>2, <2>3, <2>4 DEF Next
<1> QED
  BY <1>2, <1>4, <1>5 DEF ApiInv

\* However requests overlap and whatever fails, the unit of a request that was
\* answered with an error is in progress only if a controller knows of it, but
\* for a Put whose answer was lost and a mark that failed.
THEOREM FailureUnlocks == Spec => []NoWorkOfFailedRequests
<1>1. Init => ApiInv
  BY RequestInit, RecordInvInit, UnitsInit DEF Init, ApiInv
<1>2. ApiInv => NoWorkOfFailedRequests
  <2> SUFFICES ASSUME ApiInv, NEW r \in Creators, req[r].pc \in FailedPCs, r \notin unsettled,
                      NEW s \in Servers, InProgress(bucket[s]), bucket[s].id = req[r].id
               PROVE  Known(req[r].id)
    BY DEF NoWorkOfFailedRequests
  <2>1. req[r].id \in IDs
    BY DEF ApiInv, RequestInv, TypeOK, StoreTypeOK, InProgress, RecordOf
  <2>2. OwnUnit(r)
    BY <2>1 DEF ApiInv, UnitsInv, UnitInv
  <2> QED
    BY <2>2 DEF OwnUnit, Settled
<1> QED
  BY <1>1, <1>2, UnitsStep, PTL DEF Spec

=============================================================================
