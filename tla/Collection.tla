------------------------------ MODULE Collection ------------------------------
(***************************************************************************)
(* How one device is collected while administrators change it: supervise   *)
(* and the loops of sparkscope/collector.py, the connection cache of       *)
(* sparkscope/ssh.py, and edit_device, save_device and rediscover of       *)
(* sparkscope/api.py.  All of them are tasks of one event loop that        *)
(* interleave at every await; a transaction reads first and commits later. *)
(***************************************************************************)
EXTENDS Integers

CONSTANTS
    Targets,        \* endpoints a device may be configured for
    Clusters,       \* cluster names
    Loops,          \* the loops of this instance
    Editors,        \* requests that may edit the device at the same time
    MaxRevision     \* bound: edits stop here

Kinds   == {"system", "smart", "discovery", "services", "rediscover"}
Guarded == {"system", "smart", "discovery", "rediscover"}   \* they compare revisions

ASSUME LoopsAssumption == Loops \subseteq Kinds
ASSUME BoundAssumption == MaxRevision \in Nat \ {0}
ASSUME TargetsAssumption == Targets # {} /\ Clusters # {}

None == "none"
ASSUME NoneAssumption == None \notin Targets

Revisions == 1..MaxRevision
Device    == [revision : Revisions, target : Targets]   \* what a task is started for
Results   == Targets \cup {None}                        \* a result is known by its origin
Latest    == [system : Results, smart : Results]        \* column devices.latest
Info      == [cluster : Clusters, inventory : Results]  \* column devices.info
Row       == [revision : Revisions, target : Targets, paused : BOOLEAN,
              latest : Latest, info : Info]

VARIABLES
    row,        \* the device's row; paused stands for paused or archived
    service,    \* the device's services, known by the origin of their data, or None
    task,       \* what the loops were started for, or NoDevice
    loop,       \* [Loops -> LoopState]
    lock,       \* the loop that holds the device's state lock, or None
    conn,       \* the cached connection, or NoDevice
    sup,        \* supervise: its phase and the device it has read, or NoDevice
    edit,       \* [Editors -> EditState]
    stored,     \* history: what each loop stored last
    lost        \* history: an edit committed over a revision it had not read

database == <<row, service, stored, lost>>
memory   == <<task, loop, lock, conn, sup>>
vars     == <<database, memory, edit>>

NoDevice  == [revision |-> 0, target |-> None]
Devices   == Device \cup {NoDevice}
LoopState == [phase : {"off", "idle", "collected", "checked", "inventoried", "found", "dead"}, device : Devices,
              from : Results, late : BOOLEAN, latest : Latest, info : Info]
Base      == [revision : Revisions, target : Targets, paused : BOOLEAN, info : Info]
NoEdit    == [kind |-> "idle"]
EditState == {NoEdit} \cup [kind : {"edit", "save"}, base : Base]
Kept      == [system : Results, smart : Results]

TypeOK ==
    /\ row \in Row
    /\ service \in Results
    /\ task \in Devices
    /\ loop \in [Loops -> LoopState]
    /\ lock \in Loops \cup {None}
    /\ conn \in Devices
    /\ sup \in [phase : {"idle", "viewed", "stopped"}, view : Devices]
    /\ edit \in [Editors -> EditState]
    /\ stored \in Kept
    /\ lost \in BOOLEAN

NoLatest == [system |-> None, smart |-> None]

Of(r) == [revision |-> r.revision, target |-> r.target]

Active(r) == IF r.paused THEN NoDevice ELSE Of(r)

Off == [phase |-> "off", device |-> NoDevice, from |-> None, late |-> FALSE,
        latest |-> NoLatest, info |-> [cluster |-> CHOOSE c \in Clusters : TRUE, inventory |-> None]]

Idle(d) == [Off EXCEPT !.phase = "idle", !.device = d]

Init ==
    /\ \E t \in Targets, c \in Clusters :
         /\ row = [revision |-> 1, target |-> t, paused |-> FALSE, latest |-> NoLatest,
                   info |-> [cluster |-> c, inventory |-> None]]
         /\ stored = [system |-> None, smart |-> None]
    /\ service = None
    /\ lost = FALSE
    /\ task = NoDevice
    /\ loop = [k \in Loops |-> Off]
    /\ lock = None
    /\ conn = NoDevice
    /\ sup = [phase |-> "idle", view |-> NoDevice]
    /\ edit = [e \in Editors |-> NoEdit]

-----------------------------------------------------------------------------
(* Administrators.  A request reads the row, changes some of its columns and*)
(* commits: only the columns that differ from what it read are written.     *)
Read(r) == [revision |-> r.revision, target |-> r.target, paused |-> r.paused, info |-> r.info]

BeginEdit(e, kind) ==
    /\ edit[e] = NoEdit
    /\ kind = "save" => \A f \in Editors : edit[f].kind # "save"      \* setup_lock
    /\ row.revision < MaxRevision
    /\ edit' = [edit EXCEPT ![e] = [kind |-> kind, base |-> Read(row)]]
    /\ UNCHANGED <<database, memory>>

Written(new, base, current) == IF new # base THEN new ELSE current

Bump(base) == base.revision + 1

Added(origin) == IF service = None THEN origin ELSE service

(* edit_device: paused or archived, and the cluster name. *)
Edit(e, paused, cluster) ==
    LET base == edit[e].base IN
    /\ edit[e].kind = "edit"
    /\ edit' = [edit EXCEPT ![e] = NoEdit]
    /\ row' = [row EXCEPT
         !.revision = Bump(base),
         !.paused = Written(paused, base.paused, @),
         !.info = Written([base.info EXCEPT !.cluster = cluster], base.info, @)]
    /\ lost' = (lost \/ base.revision # row.revision)
    /\ UNCHANGED <<service, stored, memory>>

(* save_device for a device that exists: endpoint, credentials, inventory, *)
(* and the services of the new endpoint that are not listed yet.           *)
Save(e, target) ==
    LET base == edit[e].base IN
    /\ edit[e].kind = "save"
    /\ edit' = [edit EXCEPT ![e] = NoEdit]
    /\ row' = [row EXCEPT
         !.revision = Bump(base),
         !.target = Written(target, base.target, @),
         !.info = Written([base.info EXCEPT !.inventory = target], base.info, @)]
    /\ service' = Added(target)
    /\ lost' = (lost \/ base.revision # row.revision)
    /\ UNCHANGED <<stored, memory>>

(* A request that is refused or fails changes nothing. *)
Refuse(e) ==
    /\ edit[e] # NoEdit
    /\ edit' = [edit EXCEPT ![e] = NoEdit]
    /\ UNCHANGED <<database, memory>>

(* rediscover runs discover_services once, for the row it has read.         *)
Rediscover ==
    /\ "rediscover" \in Loops /\ loop["rediscover"].phase = "off"
    /\ loop' = [loop EXCEPT !["rediscover"] = Idle(Of(row))]
    /\ UNCHANGED <<database, task, lock, conn, sup, edit>>

-----------------------------------------------------------------------------
(* supervise: it reads the active devices, stops the tasks of a device that *)
(* is not active, has another revision or has a task that ended, and starts *)
(* tasks where there are none.                                              *)
Supervised == Loops \ {"rediscover"}

View ==
    /\ sup.phase = "idle"
    /\ sup' = [phase |-> "viewed", view |-> Active(row)]
    /\ UNCHANGED <<database, task, loop, lock, conn, edit>>

Ended_ignored == FALSE

Ended == \E k \in Supervised : loop[k].phase = "dead"

Outdated ==
    /\ task # NoDevice
    /\ sup.view = NoDevice \/ sup.view.revision # task.revision \/ Ended

Stop ==
    /\ sup.phase = "viewed"
    /\ sup' = [sup EXCEPT !.phase = "stopped"]
    /\ IF Outdated
       THEN /\ task' = NoDevice
            /\ loop' = [k \in Loops |-> IF k \in Supervised THEN Off ELSE loop[k]]
            /\ lock' = IF lock \in Supervised THEN None ELSE lock
            /\ conn' = NoDevice
       ELSE UNCHANGED <<task, loop, lock, conn>>
    /\ UNCHANGED <<database, edit>>

Start ==
    /\ sup.phase = "stopped"
    /\ sup' = [phase |-> "idle", view |-> NoDevice]
    /\ IF task = NoDevice /\ sup.view # NoDevice
       THEN /\ task' = sup.view
            /\ loop' = [k \in Loops |-> IF k \in Supervised THEN Idle(sup.view) ELSE loop[k]]
       ELSE UNCHANGED <<task, loop>>
    /\ UNCHANGED <<database, lock, conn, edit>>

Supervise == View \/ Stop \/ Start

-----------------------------------------------------------------------------
(* A loop takes the cached connection if it was made for the same revision, *)
(* else it connects to its own device; then it runs its commands.           *)
Usable_always(d) == conn # NoDevice

Usable(d) == conn.revision = d.revision

Connected(d) == IF Usable(d) THEN conn ELSE d

Collect(k) ==
    /\ loop[k].phase = "idle"
    /\ k = "services" => service # None
    /\ conn' = Connected(loop[k].device)
    /\ loop' = [loop EXCEPT ![k].phase = "collected", ![k].from = conn'.target,
                            ![k].late = row.paused]
    /\ UNCHANGED <<database, task, lock, sup, edit>>

(* What a loop does when its poll is over. *)
Over(k) == [loop EXCEPT ![k] = IF k = "rediscover" THEN Off ELSE Idle(loop[k].device)]

(* The state lock: one loop of a device at a time reads and writes its row. *)
Free_always == TRUE

Free == lock = None

Current_unchecked(k) == TRUE

Current(k) ==
    /\ row.revision = loop[k].device.revision
    /\ k = "system" => ~row.paused

(* It reads the row; if the row has changed, the result is dropped.         *)
Check(k) ==
    /\ k \in Guarded
    /\ loop[k].phase = "collected" /\ Free
    /\ IF Current(k)
       THEN /\ loop' = [loop EXCEPT ![k].phase = "checked", ![k].latest = row.latest, ![k].info = row.info]
            /\ lock' = k
       ELSE /\ loop' = Over(k)
            /\ lock' = lock
    /\ UNCHANGED <<database, task, conn, sup, edit>>

(* It commits the column computed from what it has read.                    *)
Write(k) ==
    LET from == loop[k].from IN
    /\ loop[k].phase = "checked"
    /\ lock' = None
    /\ CASE k = "system" -> /\ row' = [row EXCEPT !.latest = [loop[k].latest EXCEPT !.system = from]]
                            /\ stored' = [stored EXCEPT !.system = from]
                            /\ loop' = Over(k)
         [] k = "smart" -> /\ row' = [row EXCEPT !.latest = [loop[k].latest EXCEPT !.smart = from]]
                           /\ stored' = [stored EXCEPT !.smart = from]
                           /\ loop' = Over(k)
         [] OTHER -> /\ row' = [row EXCEPT !.info = [loop[k].info EXCEPT !.inventory = from]]
                     /\ stored' = stored
                     /\ loop' = [loop EXCEPT ![k].phase = "inventoried"]
    /\ UNCHANGED <<service, lost, task, conn, sup, edit>>

(* discover_services goes on without the lock: it looks for services over   *)
(* the same connection, compares revisions again and adds those it found.   *)
Find(k) ==
    /\ loop[k].phase = "inventoried"
    /\ loop' = IF Current(k) THEN [loop EXCEPT ![k].phase = "found"] ELSE Over(k)
    /\ UNCHANGED <<database, task, lock, conn, sup, edit>>

Add(k) ==
    /\ loop[k].phase = "found"
    /\ service' = Added(loop[k].from)
    /\ loop' = Over(k)
    /\ UNCHANGED <<row, stored, lost, task, lock, conn, sup, edit>>

(* poll_services writes the rows of the services, and compares nothing.     *)
Update(k) ==
    /\ k = "services"
    /\ loop[k].phase = "collected"
    /\ service' = loop[k].from
    /\ loop' = Over(k)
    /\ UNCHANGED <<row, stored, lost, task, lock, conn, sup, edit>>

(* A poll fails; when the connection for a new revision could not be made,  *)
(* or once the failure path of the system poll is through, no connection is *)
(* left.  That path may fail itself before it closes the connection, which  *)
(* ends its task.                                                           *)
Fail(k) ==
    LET unconnected == loop[k].phase = "idle" /\ ~Usable(loop[k].device) IN
    /\ loop[k].phase \notin {"off", "dead"}
    /\ \/ /\ loop' = Over(k)
          /\ conn' = IF k = "system" \/ unconnected THEN NoDevice ELSE conn
       \/ /\ k = "system" /\ loop' = [loop EXCEPT ![k].phase = "dead"]
          /\ conn' = IF unconnected THEN NoDevice ELSE conn
    /\ lock' = IF lock = k THEN None ELSE lock
    /\ UNCHANGED <<database, task, sup, edit>>

Progress(k) == Collect(k) \/ Check(k) \/ Write(k) \/ Find(k) \/ Add(k) \/ Update(k)

(* A stop and start of the process keeps only the database. *)
Restart ==
    /\ task' = NoDevice
    /\ loop' = [k \in Loops |-> Off]
    /\ lock' = None
    /\ conn' = NoDevice
    /\ sup' = [phase |-> "idle", view |-> NoDevice]
    /\ edit' = [e \in Editors |-> NoEdit]
    /\ UNCHANGED database

Administration ==
    \/ \E e \in Editors :
         \/ \E kind \in {"edit", "save"} : BeginEdit(e, kind)
         \/ \E paused \in BOOLEAN, c \in Clusters : Edit(e, paused, c)
         \/ \E t \in Targets : Save(e, t)
         \/ Refuse(e)
    \/ Rediscover

Next ==
    \/ Administration
    \/ Supervise
    \/ \E k \in Loops : Progress(k) \/ Fail(k)
    \/ Restart

Spec == Init /\ [][Next]_vars

(* The supervisor and the loops go on and asyncio.Lock serves its waiters in *)
(* order; failures and restarts end.                                        *)
Regular == Administration \/ Supervise \/ \E k \in Loops : Progress(k)

FairSpec ==
    /\ Spec
    /\ WF_vars(Supervise)
    /\ \A k \in Loops : WF_vars(Progress(k)) /\ SF_vars(Check(k))
    /\ <>[][Regular]_vars

-----------------------------------------------------------------------------
(* A result passes a check of revisions only if it came from the endpoint   *)
(* the row has at that moment: neither a task started before an edit, nor a *)
(* connection cached for another revision, nor a rediscovery that outlives  *)
(* an edit brings data of the old endpoint in.  (Two requests that read the *)
(* same revision store the same next one; nothing tells them apart then.)   *)
Passes(k) == loop'[k].phase \in {"checked", "found"} /\ loop'[k].phase # loop[k].phase

ChecksCatchOldEndpoints ==
    [][ \A k \in Loops : Passes(k) /\ ~lost => loop[k].from = row.target ]_vars

Stores(k) == Write(k) \/ Add(k) \/ Update(k)

(* What deployment/OPERATIONS.md:91 promises ("Pausing/archiving devices    *)
(* stops subsequent collection"): a poll of any loop that began when the    *)
(* device was paused already stores nothing while it is.  A rediscovery is  *)
(* an administrator's wish.                                                 *)
PauseStopsCollection ==
    [][ \A k \in Supervised : Stores(k) => ~(loop[k].late /\ row.paused /\ ~lost) ]_vars

(* What the code keeps of it: the system, the SMART and the discovery loop, *)
(* which compare revisions at their last check but look at the flag in one  *)
(* place only, drop such a poll, through any edits in between and whatever  *)
(* connection the poll was given.  The service poll compares nothing.       *)
PausedPollsDropped ==
    [][ \A k \in Supervised \cap Guarded :
           Stores(k) => ~(loop[k].late /\ row.paused /\ ~lost) ]_vars

(* The system and the SMART poll both rewrite devices.latest; neither loses *)
(* what the other stored.                                                   *)
BothSourcesKept == row.latest = [system |-> stored.system, smart |-> stored.smart]

(* When edits and failures have ended, the row of an active device shows    *)
(* data of its own endpoint, and a paused device has no loop.               *)
SettlesOnEndpoint ==
    /\ <>[](~row.paused /\ ~lost => row.latest.system = row.target)
    /\ <>[](row.paused => task = NoDevice)
=============================================================================
