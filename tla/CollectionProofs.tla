--------------------------- MODULE CollectionProofs ---------------------------
(* Collection for every set of endpoints, loops and concurrent requests.     *)
EXTENDS Collection, TLAPS

(* What the process remembers of the device, each with its revision.         *)
Seen == {task, conn, sup.view} \cup {loop[k].device : k \in Loops}

Agree(a, b) == a.revision = b.revision => a.target = b.target

(* While no edit has lost a revision, a revision stands for one endpoint,    *)
(* and none is newer than the row's.                                         *)
RevisionsIdentify ==
    ~lost => /\ \A a \in Seen : a.revision <= row.revision /\ Agree(a, row)
             /\ \A a, b \in Seen : Agree(a, b)

(* A result comes from the endpoint its loop was started for. *)
Working == {"collected", "checked", "inventoried", "found"}

ResultsFollow ==
    ~lost => \A k \in Loops : loop[k].phase \in Working => loop[k].from = loop[k].device.target

(* An edit still has a revision to give. *)
RoomToEdit == \A e \in Editors : edit[e] # NoEdit => edit[e].base.revision < MaxRevision

IInv == TypeOK /\ RoomToEdit /\ RevisionsIdentify /\ ResultsFollow

(* The state lock is held exactly between a check and its commit, and what   *)
(* its holder has read of devices.latest is still there.                     *)
LockHeld ==
    /\ \A k \in Loops : loop[k].phase = "checked" <=> lock = k
    /\ \A k \in Loops : loop[k].phase = "checked" => loop[k].latest = row.latest

StoppedWithTask == task = NoDevice => \A k \in Supervised : loop[k].phase = "off"

KeptInv == LockHeld /\ StoppedWithTask /\ BothSourcesKept

(* A pause leaves behind every task that was started before it, so that a    *)
(* poll that begins late can no longer pass a check.                         *)
LeftBehind(d) == d.revision < row.revision

LateLeftBehind ==
    ~lost => /\ row.paused => /\ LeftBehind(task) /\ LeftBehind(sup.view)
                              /\ \A k \in Supervised : LeftBehind(loop[k].device)
             /\ \A k \in Supervised :
                  loop[k].late => loop[k].phase \in {"collected", "dead"} /\ LeftBehind(loop[k].device)

-----------------------------------------------------------------------------
(* Types. *)
LEMMA DeviceTypes ==
    /\ NoDevice \in Devices /\ Device \subseteq Devices
    /\ \A d \in Devices : d.revision \in 0..MaxRevision /\ d.target \in Results
    /\ \A r \in Row : Of(r) \in Device /\ Active(r) \in Devices
  BY BoundAssumption DEF Devices, Device, NoDevice, Row, Revisions, Results, Of, Active

LEMMA OffType == Off \in LoopState /\ \A d \in Devices : Idle(d) \in LoopState
<1>1. (CHOOSE c \in Clusters : TRUE) \in Clusters
  BY TargetsAssumption
<1>2. NoLatest \in Latest /\ None \in Results
  BY DEF NoLatest, Latest, Results
<1>3. Off \in LoopState
  BY <1>1, <1>2, DeviceTypes DEF Off, LoopState, Info
<1>. QED
  BY <1>3 DEF Idle, LoopState

LEMMA OverType == ASSUME TypeOK, NEW k \in Loops PROVE Over(k) \in [Loops -> LoopState]
<1>1. loop[k].device \in Devices
  BY DEF TypeOK, LoopState
<1>. QED
  BY <1>1, OffType DEF Over, TypeOK

LEMMA MoveType ==
    ASSUME TypeOK, NEW k \in Loops, NEW p \in {"checked", "inventoried", "found", "dead"}
    PROVE  [loop EXCEPT ![k].phase = p] \in [Loops -> LoopState]
<1>1. [loop[k] EXCEPT !.phase = p] \in LoopState
  BY DEF TypeOK, LoopState
<1>. QED
  BY <1>1 DEF TypeOK

LEMMA TypeInit == Init => TypeOK /\ RoomToEdit
<1>. SUFFICES ASSUME Init PROVE TypeOK /\ RoomToEdit
  OBVIOUS
<1>1. row \in Row /\ stored \in Kept
  BY BoundAssumption DEF Init, Row, Revisions, NoLatest, Latest, Info, Results, Kept
<1>2. loop \in [Loops -> LoopState] /\ edit \in [Editors -> EditState] /\ RoomToEdit
  BY OffType DEF Init, EditState, RoomToEdit
<1>. QED
  BY <1>1, <1>2, DeviceTypes DEF Init, TypeOK, Results

LEMMA EditType ==
    ASSUME TypeOK, NEW e \in Editors, edit[e].kind \in {"edit", "save"}
    PROVE  edit[e].base \in Base /\ edit[e] # NoEdit
  BY DEF TypeOK, EditState, NoEdit

LEMMA BumpType ==
    ASSUME TypeOK, RoomToEdit, NEW e \in Editors, edit[e].kind \in {"edit", "save"}
    PROVE  Bump(edit[e].base) \in Revisions
<1>1. edit[e].base.revision \in Revisions /\ edit[e].base.revision < MaxRevision
  BY EditType DEF RoomToEdit, Base
<1>. QED
  BY <1>1, BoundAssumption DEF Bump, Revisions

LEMMA TypeStep == TypeOK /\ RoomToEdit /\ [Next]_vars => (TypeOK /\ RoomToEdit)'
<1>. SUFFICES ASSUME TypeOK, RoomToEdit, [Next]_vars PROVE (TypeOK /\ RoomToEdit)'
  OBVIOUS
<1>. USE DEF database, memory
<1>1. CASE UNCHANGED vars
  BY <1>1 DEF TypeOK, RoomToEdit, vars
<1>2. ASSUME NEW e \in Editors, NEW kind \in {"edit", "save"}, BeginEdit(e, kind)
      PROVE  (TypeOK /\ RoomToEdit)'
  <2>1. Read(row) \in Base /\ Read(row).revision < MaxRevision
    BY <1>2 DEF BeginEdit, TypeOK, Row, Read, Base
  <2>2. edit' = [edit EXCEPT ![e] = [kind |-> kind, base |-> Read(row)]]
    BY <1>2 DEF BeginEdit
  <2>3. edit' \in [Editors -> EditState] /\ RoomToEdit'
    BY <2>1, <2>2 DEF TypeOK, EditState, RoomToEdit
  <2>. QED
    BY <1>2, <2>3 DEF BeginEdit, TypeOK
<1>3. ASSUME NEW e \in Editors, edit' = [edit EXCEPT ![e] = NoEdit]
      PROVE  edit' \in [Editors -> EditState] /\ RoomToEdit'
  BY <1>3 DEF TypeOK, EditState, RoomToEdit
<1>4. ASSUME NEW e \in Editors, NEW paused \in BOOLEAN, NEW c \in Clusters, Edit(e, paused, c)
      PROVE  (TypeOK /\ RoomToEdit)'
  <2>. DEFINE base == edit[e].base
  <2>1. base \in Base /\ Bump(base) \in Revisions
    BY <1>4, EditType, BumpType DEF Edit
  <2>2. Written(paused, base.paused, row.paused) \in BOOLEAN
    BY DEF Written, TypeOK, Row
  <2>3. Written([base.info EXCEPT !.cluster = c], base.info, row.info) \in Info
    BY <2>1 DEF Written, TypeOK, Row, Base, Info
  <2>4. row' \in Row
    BY <1>4, <2>1, <2>2, <2>3 DEF Edit, TypeOK, Row
  <2>5. stored' \in Kept
    BY <1>4 DEF Edit, TypeOK, Kept, Written
  <2>. QED
    BY <1>3, <1>4, <2>4, <2>5 DEF Edit, TypeOK
<1>5. ASSUME NEW e \in Editors, NEW t \in Targets, Save(e, t)
      PROVE  (TypeOK /\ RoomToEdit)'
  <2>. DEFINE base == edit[e].base
  <2>1. base \in Base /\ Bump(base) \in Revisions
    BY <1>5, EditType, BumpType DEF Save
  <2>2. Written(t, base.target, row.target) \in Targets
    BY DEF Written, TypeOK, Row
  <2>3. Written([base.info EXCEPT !.inventory = t], base.info, row.info) \in Info
    BY <2>1 DEF Written, TypeOK, Row, Base, Info, Results
  <2>4. row' \in Row
    BY <1>5, <2>1, <2>2, <2>3 DEF Save, TypeOK, Row
  <2>5. service' \in Results
    BY <1>5 DEF Save, Added, TypeOK, Results
  <2>. QED
    BY <1>3, <1>5, <2>4, <2>5 DEF Save, TypeOK
<1>6. ASSUME NEW e \in Editors, Refuse(e) PROVE (TypeOK /\ RoomToEdit)'
  BY <1>3, <1>6 DEF Refuse, TypeOK
<1>7. CASE Rediscover
  <2>1. Idle(Of(row)) \in LoopState
    BY OffType, DeviceTypes DEF TypeOK
  <2>. QED
    BY <1>7, <2>1 DEF Rediscover, TypeOK, RoomToEdit
<1>8. CASE View
  BY <1>8, DeviceTypes DEF View, TypeOK, RoomToEdit
<1>9. CASE Stop
  BY <1>9, DeviceTypes, OffType DEF Stop, TypeOK, RoomToEdit
<1>10. CASE Start
  <2>1. sup.view \in Devices /\ Idle(sup.view) \in LoopState
    BY OffType DEF TypeOK
  <2>. QED
    BY <1>10, <2>1, DeviceTypes DEF Start, TypeOK, RoomToEdit
<1>11. ASSUME NEW k \in Loops, Progress(k) \/ Fail(k) PROVE (TypeOK /\ RoomToEdit)'
  <2>1. loop[k] \in LoopState /\ loop[k].device \in Devices /\ loop[k].from \in Results
    BY DEF TypeOK, LoopState
  <2>2. CASE Collect(k)
    <3>1. conn' \in Devices /\ conn'.target \in Results
      BY <2>1, <2>2, DeviceTypes DEF Collect, Connected, TypeOK
    <3>2. loop' \in [Loops -> LoopState]
      BY <2>1, <2>2, <3>1 DEF Collect, TypeOK, LoopState, Row
    <3>. QED
      BY <2>2, <3>1, <3>2 DEF Collect, TypeOK, RoomToEdit
  <2>3. CASE Check(k)
    <3>. DEFINE new == [loop[k] EXCEPT !.phase = "checked", !.latest = row.latest, !.info = row.info]
    <3>a. new \in LoopState
      BY <2>1 DEF TypeOK, LoopState, Row
    <3>b. loop' = [loop EXCEPT ![k] = new] \/ loop' = Over(k)
      BY <2>3 DEF Check, TypeOK
    <3>. HIDE DEF new
    <3>1. loop' \in [Loops -> LoopState]
      BY <3>a, <3>b, OverType DEF TypeOK
    <3>. QED
      BY <2>3, <3>1 DEF Check, TypeOK, RoomToEdit
  <2>4. CASE Write(k)
    <3>1. loop' \in [Loops -> LoopState]
      BY <2>1, <2>4, OverType, MoveType DEF Write
    <3>2. row' \in Row
      BY <2>1, <2>4 DEF Write, TypeOK, LoopState, Row, Latest, Info
    <3>3. stored' \in Kept
      BY <2>1, <2>4 DEF Write, TypeOK, Kept
    <3>. QED
      BY <2>4, <3>1, <3>2, <3>3 DEF Write, TypeOK, RoomToEdit
  <2>5. CASE Find(k)
    <3>1. loop' \in [Loops -> LoopState]
      BY <2>1, <2>5, OverType, MoveType DEF Find
    <3>. QED
      BY <2>5, <3>1 DEF Find, TypeOK, RoomToEdit
  <2>6. CASE Add(k) \/ Update(k)
    BY <2>1, <2>6, OverType DEF Add, Added, Update, TypeOK, RoomToEdit
  <2>7. CASE Fail(k)
    <3>1. loop' \in [Loops -> LoopState]
      BY <2>1, <2>7, OverType, MoveType DEF Fail
    <3>. QED
      BY <2>7, <3>1, DeviceTypes DEF Fail, TypeOK, RoomToEdit
  <2>. QED
    BY <1>11, <2>2, <2>3, <2>4, <2>5, <2>6, <2>7 DEF Progress
<1>12. CASE Restart
  BY <1>12, DeviceTypes, OffType DEF Restart, TypeOK, RoomToEdit, EditState
<1>. QED
  BY <1>1, <1>2, <1>4, <1>5, <1>6, <1>7, <1>8, <1>9, <1>10, <1>11, <1>12
     DEF Next, Administration, Supervise

(* The row, the tasks and the requests stay in their types, for any loops,   *)
(* any number of requests at once and any bound on revisions.                *)
THEOREM TypeCorrect == Spec => []TypeOK
<1>1. Init => TypeOK /\ RoomToEdit
  BY TypeInit
<1>2. (TypeOK /\ RoomToEdit) /\ [Next]_vars => (TypeOK /\ RoomToEdit)'
  BY TypeStep
<1>. QED
  BY <1>1, <1>2, PTL DEF Spec
-----------------------------------------------------------------------------
(* Revisions stand for endpoints.                                            *)
LEMMA IdentifyInit == Init => RevisionsIdentify /\ ResultsFollow
<1>. SUFFICES ASSUME Init PROVE RevisionsIdentify /\ ResultsFollow
  OBVIOUS
<1>1. \A k \in Loops : loop[k].device = NoDevice /\ loop[k].phase = "off"
  BY DEF Init, Off
<1>2. \A a \in Seen : a = NoDevice
  BY <1>1 DEF Init, Seen
<1>. QED
  BY <1>1, <1>2 DEF RevisionsIdentify, ResultsFollow, Working, Agree, NoDevice, Init

(* What a step of the collector remembers it knew before, or has just read.  *)
Learns == Seen' \subseteq Seen \cup {NoDevice, Of(row)}

LEMMA SeenType == ASSUME TypeOK, NEW a \in Seen PROVE a \in Devices
  BY DEF Seen, TypeOK, LoopState

LEMMA LearnsKeepsIdentities ==
    ASSUME TypeOK, RevisionsIdentify, Learns, lost' = lost,
           row'.revision = row.revision, row'.target = row.target
    PROVE  RevisionsIdentify'
<1>. SUFFICES ASSUME ~lost PROVE /\ \A a \in Seen' : a.revision <= row.revision /\ Agree(a, row)
                                 /\ \A a, b \in Seen' : Agree(a, b)
  BY DEF RevisionsIdentify, Agree
<1>1. NoDevice.revision = 0 /\ Of(row).revision = row.revision /\ Of(row).target = row.target
  BY DEF NoDevice, Of
<1>2. row.revision \in Nat /\ row.revision >= 1
  BY BoundAssumption DEF TypeOK, Row, Revisions
<1>3. \A a \in Seen : a.revision <= row.revision /\ Agree(a, row)
  BY DEF RevisionsIdentify
<1>4. \A a \in Seen : a \in Devices
  BY SeenType
<1>5. \A a \in Seen : a.revision = 0 => a.target = None
  BY <1>4 DEF Devices, Device, NoDevice, Revisions
<1>6. NoDevice.target = None
  BY DEF NoDevice
<1>7. \A a \in Seen \cup {NoDevice, Of(row)} : a.revision <= row.revision /\ Agree(a, row)
  BY <1>1, <1>2, <1>3 DEF Agree
<1>8. \A a, b \in Seen \cup {NoDevice, Of(row)} : Agree(a, b)
  BY <1>1, <1>2, <1>3, <1>5, <1>6 DEF Agree, RevisionsIdentify
<1>. QED
  BY <1>7, <1>8 DEF Learns

(* A commit that loses nothing gives a revision nobody has seen. *)
LEMMA CommitIdentifies ==
    ASSUME TypeOK, RevisionsIdentify, ResultsFollow, NEW e \in Editors,
           edit[e].kind \in {"edit", "save"},
           row'.revision = Bump(edit[e].base), lost' = (lost \/ edit[e].base.revision # row.revision),
           UNCHANGED memory
    PROVE  RevisionsIdentify' /\ ResultsFollow'
<1>1. Seen' = Seen
  BY DEF memory, Seen
<1>2. ResultsFollow'
  BY DEF ResultsFollow, memory
<1>3. row.revision \in Int
  BY DEF TypeOK, Row, Revisions
<1>4. ASSUME ~lost' PROVE ~lost /\ row'.revision = row.revision + 1
  BY <1>4 DEF Bump
<1>5. ASSUME ~lost', NEW a \in Seen PROVE a.revision <= row'.revision /\ a.revision # row'.revision
  <2>1. a.revision \in Int /\ a.revision <= row.revision
    BY <1>4, <1>5, SeenType, DeviceTypes DEF RevisionsIdentify
  <2>. QED
    BY <1>3, <1>4, <1>5, <2>1
<1>. QED
  BY <1>1, <1>2, <1>4, <1>5 DEF RevisionsIdentify, Agree

LEMMA OverKeeps ==
    ASSUME TypeOK, ResultsFollow, NEW k \in Loops, loop' = Over(k), lost' = lost
    PROVE  /\ \A j \in Loops : loop'[j].device \in {loop[j].device, NoDevice}
           /\ ResultsFollow'
<1>1. \A j \in Loops : j # k => loop'[j] = loop[j]
  BY DEF Over, TypeOK
<1>2. loop'[k].device \in {loop[k].device, NoDevice} /\ loop'[k].phase \notin Working
  BY DEF Over, Off, Idle, TypeOK, Working
<1>. QED
  BY <1>1, <1>2 DEF ResultsFollow

LEMMA MoveKeeps ==
    ASSUME TypeOK, ResultsFollow, NEW k \in Loops, lost' = lost,
           loop[k].phase \in Working \/ loop'[k].phase \notin Working,
           loop'[k].device = loop[k].device, loop'[k].from = loop[k].from,
           \A j \in Loops : j # k => loop'[j] = loop[j]
    PROVE  /\ \A j \in Loops : loop'[j].device = loop[j].device
           /\ ResultsFollow'
  BY DEF ResultsFollow

LEMMA MoveIs ==
    ASSUME TypeOK, NEW k \in Loops, NEW p, loop' = [loop EXCEPT ![k].phase = p]
    PROVE  /\ loop'[k].phase = p
           /\ loop'[k].device = loop[k].device /\ loop'[k].from = loop[k].from
           /\ \A j \in Loops : j # k => loop'[j] = loop[j]
  BY DEF TypeOK, LoopState

LEMMA IdentifyStep ==
    TypeOK /\ RevisionsIdentify /\ ResultsFollow /\ [Next]_vars => (RevisionsIdentify /\ ResultsFollow)'
<1>. SUFFICES ASSUME TypeOK, RevisionsIdentify, ResultsFollow, [Next]_vars
              PROVE  RevisionsIdentify' /\ ResultsFollow'
  OBVIOUS
<1>0. ASSUME UNCHANGED memory, UNCHANGED <<row, lost>> PROVE RevisionsIdentify' /\ ResultsFollow'
  BY <1>0 DEF memory, RevisionsIdentify, ResultsFollow, Seen
<1>1. CASE UNCHANGED vars
  BY <1>0, <1>1 DEF vars, database
<1>2. ASSUME NEW e \in Editors, NEW kind \in {"edit", "save"}, BeginEdit(e, kind)
      PROVE  RevisionsIdentify' /\ ResultsFollow'
  BY <1>0, <1>2 DEF BeginEdit, database
<1>3. ASSUME NEW e \in Editors, Refuse(e) PROVE RevisionsIdentify' /\ ResultsFollow'
  BY <1>0, <1>3 DEF Refuse, database
<1>4. ASSUME NEW e \in Editors, NEW paused \in BOOLEAN, NEW c \in Clusters, Edit(e, paused, c)
      PROVE  RevisionsIdentify' /\ ResultsFollow'
  <2>1. row'.revision = Bump(edit[e].base)
    BY <1>4 DEF Edit, TypeOK, Row
  <2>. QED
    BY <1>4, <2>1, CommitIdentifies DEF Edit
<1>5. ASSUME NEW e \in Editors, NEW t \in Targets, Save(e, t)
      PROVE  RevisionsIdentify' /\ ResultsFollow'
  <2>1. row'.revision = Bump(edit[e].base)
    BY <1>5 DEF Save, TypeOK, Row
  <2>. QED
    BY <1>5, <2>1, CommitIdentifies DEF Save
<1>6. CASE Rediscover
  <2>1. /\ \A j \in Loops : j # "rediscover" => loop'[j] = loop[j]
        /\ loop'["rediscover"].device = Of(row) /\ loop'["rediscover"].phase = "idle"
    BY <1>6 DEF Rediscover, TypeOK, Idle, Off
  <2>2. ResultsFollow'
    BY <1>6, <2>1 DEF Rediscover, ResultsFollow, Working, database
  <2>3. Learns
    BY <1>6, <2>1 DEF Rediscover, Learns, Seen
  <2>. QED
    BY <1>6, <2>2, <2>3, LearnsKeepsIdentities DEF Rediscover, database
<1>7. CASE View
  <2>1. Learns
    BY <1>7 DEF View, Learns, Seen, Active
  <2>. QED
    BY <1>7, <2>1, LearnsKeepsIdentities DEF View, database, ResultsFollow
<1>8. CASE Stop
  <2>1. \A j \in Loops : loop'[j] \in {loop[j], Off}
    BY <1>8 DEF Stop, TypeOK
  <2>2. Off.device = NoDevice /\ Off.phase \notin Working
    BY DEF Off, Working
  <2>3. sup'.view = sup.view /\ task' \in {task, NoDevice} /\ conn' \in {conn, NoDevice}
    BY <1>8 DEF Stop, TypeOK
  <2>4. Learns
    BY <2>1, <2>2, <2>3 DEF Learns, Seen
  <2>5. ResultsFollow'
    BY <1>8, <2>1, <2>2 DEF Stop, ResultsFollow, database
  <2>. QED
    BY <1>8, <2>4, <2>5, LearnsKeepsIdentities DEF Stop, database
<1>9. CASE Start
  <2>1. \A j \in Loops : loop'[j] \in {loop[j], Idle(sup.view)}
    BY <1>9 DEF Start, TypeOK
  <2>2. Idle(sup.view).device = sup.view /\ Idle(sup.view).phase \notin Working
    BY DEF Idle, Off, Working
  <2>3. sup'.view = NoDevice /\ task' \in {task, sup.view} /\ conn' = conn
    BY <1>9 DEF Start, TypeOK
  <2>4. Learns
    BY <2>1, <2>2, <2>3 DEF Learns, Seen
  <2>5. ResultsFollow'
    BY <1>9, <2>1, <2>2 DEF Start, ResultsFollow, database
  <2>. QED
    BY <1>9, <2>4, <2>5, LearnsKeepsIdentities DEF Start, database
<1>10. ASSUME NEW k \in Loops, Collect(k) PROVE RevisionsIdentify' /\ ResultsFollow'
  <2>1. /\ \A j \in Loops : j # k => loop'[j] = loop[j]
        /\ loop'[k].device = loop[k].device /\ loop'[k].from = conn'.target
    BY <1>10 DEF Collect, TypeOK, LoopState
  <2>2. conn' \in {conn, loop[k].device} /\ conn'.revision = loop[k].device.revision
    BY <1>10 DEF Collect, Connected, Usable
  <2>3. Learns
    BY <1>10, <2>1, <2>2 DEF Collect, Learns, Seen
  <2>4. ~lost => conn'.target = loop[k].device.target
    BY <2>2 DEF RevisionsIdentify, Agree, Seen
  <2>5. ResultsFollow'
    BY <1>10, <2>1, <2>4 DEF Collect, ResultsFollow, database
  <2>. QED
    BY <1>10, <2>3, <2>5, LearnsKeepsIdentities DEF Collect, database
<1>11. ASSUME NEW k \in Loops, Check(k) \/ Write(k) \/ Find(k) \/ Add(k) \/ Update(k) \/ Fail(k)
       PROVE  RevisionsIdentify' /\ ResultsFollow'
  <2>1. lost' = lost /\ row'.revision = row.revision /\ row'.target = row.target
    BY <1>11 DEF Check, Write, Find, Add, Update, Fail, database, TypeOK, Row
  <2>2. task' = task /\ sup' = sup /\ conn' \in {conn, NoDevice}
    BY <1>11 DEF Check, Write, Find, Add, Update, Fail
  <2>3. /\ \A j \in Loops : loop'[j].device \in {loop[j].device, NoDevice}
        /\ ResultsFollow'
    <3>1. CASE loop' = Over(k)
      BY <2>1, <3>1, OverKeeps
    <3>2. CASE loop' = [loop EXCEPT ![k].phase = "checked", ![k].latest = row.latest, ![k].info = row.info]
               /\ loop[k].phase \in Working
      <4>1. /\ loop'[k].device = loop[k].device /\ loop'[k].from = loop[k].from
            /\ \A j \in Loops : j # k => loop'[j] = loop[j]
        BY <3>2 DEF TypeOK, LoopState
      <4>. QED
        BY <2>1, <3>2, <4>1, MoveKeeps
    <3>3. CASE \E p \in {"inventoried", "found"} : loop' = [loop EXCEPT ![k].phase = p] /\ loop[k].phase \in Working
      BY <2>1, <3>3, MoveIs, MoveKeeps
    <3>4. CASE loop' = [loop EXCEPT ![k].phase = "dead"]
      BY <2>1, <3>4, MoveIs, MoveKeeps DEF Working
    <3>5. Check(k) => loop' = Over(k) \/ (loop' = [loop EXCEPT ![k].phase = "checked", ![k].latest = row.latest, ![k].info = row.info]
                                          /\ loop[k].phase \in Working)
      BY DEF Check, Working
    <3>6. Write(k) \/ Find(k) => loop' = Over(k) \/ \E p \in {"inventoried", "found"} :
                                   loop' = [loop EXCEPT ![k].phase = p] /\ loop[k].phase \in Working
      BY DEF Write, Find, Working
    <3>7. Add(k) \/ Update(k) => loop' = Over(k)
      BY DEF Add, Update
    <3>8. Fail(k) => loop' = Over(k) \/ loop' = [loop EXCEPT ![k].phase = "dead"]
      BY DEF Fail
    <3>. QED
      BY <1>11, <3>1, <3>2, <3>3, <3>4, <3>5, <3>6, <3>7, <3>8
  <2>4. Learns
    BY <2>2, <2>3 DEF Learns, Seen
  <2>. QED
    BY <2>1, <2>3, <2>4, LearnsKeepsIdentities
<1>12. CASE Restart
  <2>1. /\ \A j \in Loops : loop'[j].device = NoDevice /\ loop'[j].phase = "off"
        /\ task' = NoDevice /\ conn' = NoDevice /\ sup'.view = NoDevice
    BY <1>12 DEF Restart, Off
  <2>2. Learns
    BY <2>1 DEF Learns, Seen
  <2>3. ResultsFollow'
    BY <2>1 DEF ResultsFollow, Working
  <2>. QED
    BY <1>12, <2>2, <2>3, LearnsKeepsIdentities DEF Restart, database
<1>. QED
  BY <1>1, <1>2, <1>3, <1>4, <1>5, <1>6, <1>7, <1>8, <1>9, <1>10, <1>11, <1>12
     DEF Next, Administration, Supervise, Progress
LEMMA IInvariant == Spec => []IInv
<1>1. Init => IInv
  BY TypeInit, IdentifyInit DEF IInv
<1>2. IInv /\ [Next]_vars => IInv'
  BY TypeStep, IdentifyStep DEF IInv
<1>. QED
  BY <1>1, <1>2, PTL DEF Spec

(* No check of revisions lets a result of another endpoint through, for any  *)
(* number of endpoints, of edits and of requests at once, as long as no edit *)
(* has lost the revision of another.                                         *)
THEOREM OldEndpointsCaught == Spec => ChecksCatchOldEndpoints
<1>. DEFINE Caught == \A k \in Loops : Passes(k) /\ ~lost => loop[k].from = row.target
<1>1. ASSUME IInv, Next, NEW k \in Loops, Passes(k), ~lost PROVE loop[k].from = row.target
  <2>1. \A j \in Loops : loop[j].phase \in Working => loop[j].from = loop[j].device.target
    BY <1>1 DEF IInv, ResultsFollow
  <2>2. loop[k].device \in Seen
    BY DEF Seen
  <2>3. loop[k].device.revision = row.revision => loop[k].device.target = row.target
    BY <1>1, <2>2 DEF IInv, RevisionsIdentify, Agree
  <2>4. loop[k].phase \in Working /\ loop[k].device.revision = row.revision
    <3>1. loop'[k].phase \in {"checked", "found"} /\ loop'[k].phase # loop[k].phase
      BY <1>1 DEF Passes
    <3>2. ASSUME NEW j \in Loops, loop' = Over(j) PROVE FALSE
      BY <1>1, <3>1, <3>2 DEF Over, Off, Idle, IInv, TypeOK
    <3>3. ASSUME NEW j \in Loops, Check(j) \/ Find(j)
          PROVE  loop[k].phase \in Working /\ loop[k].device.revision = row.revision
      BY <1>1, <3>1, <3>2, <3>3 DEF Check, Find, Current, Working, IInv, TypeOK
    <3>4. ~(loop' = loop)
      BY <3>1
    <3>5. ASSUME NEW j \in Loops, Collect(j) \/ Write(j) \/ Add(j) \/ Update(j) \/ Fail(j) PROVE FALSE
      <4>1. ASSUME NEW p \in {"inventoried", "dead"}, loop' = [loop EXCEPT ![j].phase = p] PROVE FALSE
        BY <1>1, <3>1, <4>1, MoveIs DEF IInv
      <4>2. CASE Collect(j)
        BY <1>1, <3>1, <4>2 DEF Collect, IInv, TypeOK, LoopState
      <4>3. CASE Write(j)
        BY <4>1, <4>3, <3>2 DEF Write
      <4>4. CASE Add(j) \/ Update(j) \/ Fail(j)
        BY <4>1, <4>4, <3>2 DEF Add, Update, Fail
      <4>. QED
        BY <3>5, <4>2, <4>3, <4>4
    <3>6. ~Rediscover /\ ~Stop /\ ~Start /\ ~Restart
      <4>1. Off.phase = "off" /\ \A d : Idle(d).phase = "idle"
        BY DEF Off, Idle
      <4>2. ~Rediscover
        BY <1>1, <3>1, <4>1 DEF Rediscover, IInv, TypeOK
      <4>3. ~Stop
        BY <1>1, <3>1, <4>1 DEF Stop
      <4>4. ~Start /\ ~Restart
        BY <1>1, <3>1, <4>1 DEF Start, Restart
      <4>. QED
        BY <4>2, <4>3, <4>4
    <3>7. ~View /\ ~(\E e \in Editors : \/ \E kind \in {"edit", "save"} : BeginEdit(e, kind)
                                        \/ \E paused \in BOOLEAN, c \in Clusters : Edit(e, paused, c)
                                        \/ \E t \in Targets : Save(e, t)
                                        \/ Refuse(e))
      BY <3>4 DEF View, BeginEdit, Edit, Save, Refuse, memory
    <3>. QED
      BY <1>1, <3>3, <3>5, <3>6, <3>7 DEF Next, Administration, Supervise, Progress
  <2>. QED
    BY <2>1, <2>3, <2>4
<1>2. IInv /\ [Next]_vars => [Caught]_vars
  BY <1>1
<1>. QED
  BY <1>2, IInvariant, PTL DEF Spec, ChecksCatchOldEndpoints

-----------------------------------------------------------------------------
(* The state lock.                                                           *)
LEMMA KeptInit == Init => KeptInv
<1>. SUFFICES ASSUME Init PROVE KeptInv
  OBVIOUS
<1>1. \A k \in Loops : loop[k].phase = "off"
  BY DEF Init, Off
<1>2. lock \notin Loops
  BY LoopsAssumption DEF Init, None, Kinds
<1>3. BothSourcesKept
  BY DEF Init, BothSourcesKept, NoLatest
<1>. QED
  BY <1>1, <1>2, <1>3 DEF KeptInv, LockHeld, StoppedWithTask, Supervised

LEMMA KeptStep == TypeOK /\ KeptInv /\ [Next]_vars => KeptInv'
<1>. SUFFICES ASSUME TypeOK, KeptInv, [Next]_vars PROVE KeptInv'
  OBVIOUS
<1>. USE DEF KeptInv, LockHeld, StoppedWithTask, Supervised, BothSourcesKept
<1>a. None \notin Loops
  BY LoopsAssumption DEF None, Kinds
<1>0. ASSUME UNCHANGED memory, row'.latest = row.latest,
             stored'.system = stored.system, stored'.smart = stored.smart
      PROVE  KeptInv'
  BY <1>0 DEF memory
<1>1. CASE UNCHANGED vars
  BY <1>0, <1>1 DEF vars, database
<1>2. ASSUME NEW e \in Editors, \/ \E kind \in {"edit", "save"} : BeginEdit(e, kind)
                                \/ Refuse(e)
      PROVE  KeptInv'
  BY <1>0, <1>2 DEF BeginEdit, Refuse, database
<1>3. ASSUME NEW e \in Editors, NEW paused \in BOOLEAN, NEW c \in Clusters, Edit(e, paused, c)
      PROVE  KeptInv'
  BY <1>0, <1>3 DEF Edit, TypeOK, Row, Kept
<1>4. ASSUME NEW e \in Editors, NEW t \in Targets, Save(e, t) PROVE KeptInv'
  BY <1>0, <1>4 DEF Save, TypeOK, Row
<1>b. Off.phase = "off" /\ \A d : Idle(d).phase = "idle"
  BY DEF Off, Idle
<1>5. CASE Rediscover
  BY <1>5, <1>b DEF Rediscover, TypeOK, database, Supervised
<1>6. CASE View
  BY <1>6 DEF View, database
<1>7. CASE Start
  <2>1. CASE task = NoDevice /\ sup.view # NoDevice
    <3>1. \A k \in Loops : loop'[k].phase = "checked" <=> loop[k].phase = "checked"
      BY <1>7, <1>b, <2>1 DEF Start
    <3>2. \A k \in Loops : loop'[k].phase = "checked" => loop'[k] = loop[k]
      BY <1>7, <1>b, <2>1 DEF Start
    <3>. QED
      BY <1>7, <2>1, <3>1, <3>2 DEF Start, database
  <2>2. CASE ~(task = NoDevice /\ sup.view # NoDevice)
    BY <1>7, <2>2 DEF Start, database
  <2>. QED
    BY <2>1, <2>2
<1>8. CASE Stop
  BY <1>8, <1>a, <1>b DEF Stop, database, Supervised
<1>9. CASE Restart
  BY <1>9, <1>a, <1>b DEF Restart, database
<1>10. ASSUME NEW k \in Loops, Progress(k) \/ Fail(k) PROVE KeptInv'
  <2>1. k \in Supervised /\ loop[k].phase # "off" => task # NoDevice
    OBVIOUS
  <2>2. ASSUME loop' = Over(k)
        PROVE  /\ \A j \in Loops : j # k => loop'[j] = loop[j]
               /\ loop'[k].phase \in {"off", "idle"}
               /\ k # "rediscover" => loop'[k].phase = "idle"
    BY <1>b, <2>2 DEF Over, TypeOK
  <2>3. CASE Collect(k)
    BY <2>1, <2>3 DEF Collect, TypeOK, LoopState, database
  <2>4. CASE Check(k)
    <3>1. CASE loop' = Over(k) /\ lock' = lock
      BY <2>1, <2>2, <2>4, <3>1 DEF Check, database
    <3>2. CASE lock' = k /\ loop' = [loop EXCEPT ![k].phase = "checked", ![k].latest = row.latest, ![k].info = row.info]
      <4>1. /\ loop'[k].phase = "checked" /\ loop'[k].latest = row.latest
            /\ \A j \in Loops : j # k => loop'[j] = loop[j]
        BY <3>2 DEF TypeOK, LoopState
      <4>2. \A j \in Loops : loop[j].phase # "checked"
        BY <1>a, <2>4 DEF Check, Free
      <4>. QED
        BY <2>1, <2>4, <3>2, <4>1, <4>2 DEF Check, database
    <3>. QED
      BY <2>4, <3>1, <3>2 DEF Check
  <2>5. CASE Write(k)
    <3>1. lock = k /\ loop[k].latest = row.latest /\ \A j \in Loops : j # k => loop[j].phase # "checked"
      BY <2>5 DEF Write
    <3>2. /\ \A j \in Loops : j # k => loop'[j] = loop[j]
          /\ loop'[k].phase # "checked" /\ task' = task /\ lock' = None
      <4>1. /\ loop' = Over(k) \/ loop' = [loop EXCEPT ![k].phase = "inventoried"]
            /\ task' = task /\ lock' = None
        BY <2>5 DEF Write
      <4>. QED
        BY <2>2, <4>1, MoveIs
    <3>3. BothSourcesKept'
      BY <2>5, <3>1 DEF Write, TypeOK, Row, Latest, Kept
    <3>. QED
      BY <1>a, <2>1, <2>5, <3>1, <3>2, <3>3 DEF Write
  <2>6. CASE Find(k)
    <3>1. /\ \A j \in Loops : j # k => loop'[j] = loop[j]
          /\ loop'[k].phase # "checked"
      BY <2>2, <2>6, MoveIs DEF Find
    <3>. QED
      BY <2>1, <2>6, <3>1 DEF Find, database
  <2>7. CASE Add(k) \/ Update(k)
    BY <2>1, <2>2, <2>7 DEF Add, Update
  <2>8. CASE Fail(k)
    <3>1. /\ \A j \in Loops : j # k => loop'[j] = loop[j]
          /\ loop'[k].phase # "checked"
      BY <2>2, <2>8, MoveIs DEF Fail
    <3>. QED
      BY <1>a, <2>1, <2>8, <3>1 DEF Fail, database
  <2>. QED
    BY <1>10, <2>3, <2>4, <2>5, <2>6, <2>7, <2>8 DEF Progress
<1>. QED
  BY <1>1, <1>2, <1>3, <1>4, <1>5, <1>6, <1>7, <1>8, <1>9, <1>10 DEF Next, Administration, Supervise

(* Under the state lock neither the system nor the SMART poll loses what the *)
(* other one stored, with any loops and edits beside them.                   *)
THEOREM SourcesKept == Spec => []BothSourcesKept
<1>1. Init => TypeOK /\ RoomToEdit /\ KeptInv
  BY TypeInit, KeptInit
<1>2. (TypeOK /\ RoomToEdit /\ KeptInv) /\ [Next]_vars => (TypeOK /\ RoomToEdit /\ KeptInv)'
  BY TypeStep, KeptStep
<1>3. KeptInv => BothSourcesKept
  BY DEF KeptInv
<1>. QED
  BY <1>1, <1>2, <1>3, PTL DEF Spec

-----------------------------------------------------------------------------
(* Pauses.                                                                   *)
LEMMA LateInit == Init => LateLeftBehind
<1>. SUFFICES ASSUME Init PROVE LateLeftBehind
  OBVIOUS
<1>1. \A k \in Supervised : ~loop[k].late
  BY DEF Init, Off, Supervised
<1>. QED
  BY <1>1 DEF Init, LateLeftBehind

LEMMA CommitLeavesBehind ==
    ASSUME TypeOK, RevisionsIdentify, LateLeftBehind, NEW e \in Editors,
           edit[e].kind \in {"edit", "save"},
           row'.revision = Bump(edit[e].base), lost' = (lost \/ edit[e].base.revision # row.revision),
           UNCHANGED memory
    PROVE  LateLeftBehind'
<1>. SUFFICES ASSUME ~lost' PROVE LateLeftBehind'
  BY DEF LateLeftBehind
<1>0. ~lost /\ edit[e].base.revision = row.revision
  OBVIOUS
<1>1. ~lost /\ row'.revision = row.revision + 1 /\ row.revision \in Int
  BY <1>0 DEF Bump, TypeOK, Row, Revisions
<1>2. ASSUME NEW a \in Seen PROVE a.revision < row'.revision
  <2>1. a.revision \in Int /\ a.revision <= row.revision
    BY <1>1, SeenType, DeviceTypes DEF RevisionsIdentify
  <2>. QED
    BY <1>1, <2>1
<1>3. LeftBehind(task)' /\ LeftBehind(sup.view)' /\ \A k \in Supervised : LeftBehind(loop[k].device)'
  BY <1>2 DEF LeftBehind, Seen, memory, Supervised
<1>4. \A k \in Supervised : loop'[k].late => loop'[k].phase \in {"collected", "dead"}
  BY <1>1 DEF LateLeftBehind, memory
<1>. QED
  BY <1>3, <1>4 DEF LateLeftBehind

LEMMA LateStep == TypeOK /\ RevisionsIdentify /\ LateLeftBehind /\ [Next]_vars => LateLeftBehind'
<1>. SUFFICES ASSUME TypeOK, RevisionsIdentify, LateLeftBehind, [Next]_vars PROVE LateLeftBehind'
  OBVIOUS
<1>. USE DEF LateLeftBehind, LeftBehind, Supervised
<1>a. ~Off.late /\ Off.device = NoDevice /\ \A d : ~Idle(d).late /\ Idle(d).device = d
  BY DEF Off, Idle
<1>b. NoDevice.revision < row.revision
  BY BoundAssumption DEF NoDevice, TypeOK, Row, Revisions
<1>0. ASSUME UNCHANGED memory, UNCHANGED database PROVE LateLeftBehind'
  BY <1>0 DEF memory, database
<1>1. CASE UNCHANGED vars
  BY <1>0, <1>1 DEF vars
<1>2. ASSUME NEW e \in Editors, \/ \E kind \in {"edit", "save"} : BeginEdit(e, kind)
                                \/ Refuse(e)
      PROVE  LateLeftBehind'
  BY <1>0, <1>2 DEF BeginEdit, Refuse
<1>3. ASSUME NEW e \in Editors, NEW paused \in BOOLEAN, NEW c \in Clusters, Edit(e, paused, c)
      PROVE  LateLeftBehind'
  <2>1. row'.revision = Bump(edit[e].base)
    BY <1>3 DEF Edit, TypeOK, Row
  <2>. QED
    BY <1>3, <2>1, CommitLeavesBehind DEF Edit
<1>4. ASSUME NEW e \in Editors, NEW t \in Targets, Save(e, t) PROVE LateLeftBehind'
  <2>1. row'.revision = Bump(edit[e].base)
    BY <1>4 DEF Save, TypeOK, Row
  <2>. QED
    BY <1>4, <2>1, CommitLeavesBehind DEF Save
<1>5. CASE Rediscover
  BY <1>5 DEF Rediscover, TypeOK, database
<1>6. CASE View
  BY <1>6, <1>b DEF View, Active, database
<1>7. CASE Start
  BY <1>7, <1>a, <1>b DEF Start, database
<1>8. CASE Stop
  BY <1>8, <1>a, <1>b DEF Stop, TypeOK, database
<1>9. CASE Restart
  BY <1>9, <1>a, <1>b DEF Restart, database
<1>10. ASSUME NEW k \in Loops, Progress(k) \/ Fail(k) PROVE LateLeftBehind'
  <2>1. UNCHANGED <<task, sup, lost>> /\ row'.revision = row.revision /\ row'.paused = row.paused
    BY <1>10 DEF Progress, Collect, Check, Write, Find, Add, Update, Fail, database, TypeOK, Row
  <2>2. ASSUME NEW j \in Loops, j # k PROVE loop'[j] = loop[j]
    BY <1>10, <2>2 DEF Progress, Collect, Check, Write, Find, Add, Update, Fail, Over, TypeOK
  <2>3. SUFFICES ASSUME k \in Supervised, ~lost
                 PROVE  /\ loop'[k].device = loop[k].device
                        /\ loop'[k].late => \/ /\ loop[k].late
                                               /\ loop'[k].phase \in {"collected", "dead"}
                                            \/ row.paused /\ loop'[k].phase = "collected"
    BY <2>1, <2>2, <2>3
  <2>4. CASE loop' = Over(k)
    BY <1>a, <2>3, <2>4 DEF Over, TypeOK
  <2>5. CASE Collect(k)
    BY <2>3, <2>5 DEF Collect, TypeOK, LoopState
  <2>6. CASE Check(k) /\ loop' # Over(k)
    <3>1. ~loop[k].late
      BY <2>3, <2>6 DEF Check, Current, TypeOK, Row, Revisions
    <3>2. loop' = [loop EXCEPT ![k].phase = "checked", ![k].latest = row.latest, ![k].info = row.info]
      BY <2>6 DEF Check
    <3>3. loop'[k].device = loop[k].device /\ loop'[k].late = loop[k].late
      BY <3>2 DEF TypeOK, LoopState
    <3>. QED
      BY <3>1, <3>3
  <2>7. ASSUME NEW p, loop' = [loop EXCEPT ![k].phase = p]
        PROVE  loop'[k].device = loop[k].device /\ loop'[k].late = loop[k].late /\ loop'[k].phase = p
    BY <2>7 DEF TypeOK, LoopState
  <2>8. CASE (Write(k) \/ Find(k)) /\ loop' # Over(k)
    <3>1. \E p : loop' = [loop EXCEPT ![k].phase = p]
      BY <2>8 DEF Write, Find
    <3>2. ~loop[k].late
      BY <2>3, <2>8 DEF Write, Find
    <3>. QED
      BY <2>7, <3>1, <3>2
  <2>9. CASE Fail(k) /\ loop' # Over(k)
    BY <2>7, <2>9 DEF Fail
  <2>10. Add(k) \/ Update(k) => loop' = Over(k)
    BY DEF Add, Update
  <2>. QED
    BY <1>10, <2>4, <2>5, <2>6, <2>8, <2>9, <2>10 DEF Progress
<1>. QED
  BY <1>1, <1>2, <1>3, <1>4, <1>5, <1>6, <1>7, <1>8, <1>9, <1>10 DEF Next, Administration, Supervise

(* The loops that compare revisions drop every poll that began during a      *)
(* pause, whatever is edited in between and whichever loops run beside them; *)
(* nothing is said of the service poll, which compares nothing.              *)
THEOREM PausesObserved == Spec => PausedPollsDropped
<1>. DEFINE Inv == IInv /\ LateLeftBehind
            Observed == \A k \in Supervised \cap Guarded :
                           Stores(k) => ~(loop[k].late /\ row.paused /\ ~lost)
<1>1. Init => Inv
  BY TypeInit, IdentifyInit, LateInit DEF IInv
<1>2. Inv /\ [Next]_vars => Inv'
  BY TypeStep, IdentifyStep, LateStep DEF IInv
<1>3. Inv => [Observed]_vars
  <2>. SUFFICES ASSUME Inv, NEW k \in Supervised \cap Guarded, Stores(k), loop[k].late, ~lost PROVE FALSE
    OBVIOUS
  <2>1. loop[k].phase \in {"collected", "dead"}
    BY DEF LateLeftBehind
  <2>2. k # "services" /\ k \in Loops
    BY DEF Supervised, Guarded
  <2>. QED
    BY <2>1, <2>2 DEF Stores, Write, Add, Update
<1>. QED
  BY <1>1, <1>2, <1>3, PTL DEF Spec, PausedPollsDropped
=============================================================================
