------------------------------ MODULE Operations ------------------------------
(***************************************************************************)
(* Remote commands: the Operations page of Pages.tsx and the endpoints and *)
(* the execute_job coroutine of api.py behind it.  The page offers the     *)
(* devices it knows, asks for a confirmation of a destructive command,     *)
(* posts the operation and forgets it; the server checks the targets and   *)
(* the confirmation, stores a job, and a coroutine sends the command to    *)
(* one target after the other, looking at the device and at the owner      *)
(* again before each.  Meanwhile devices are paused, edited and archived,  *)
(* the owner's role changes, a request may be delivered twice, and the     *)
(* server may restart.                                                     *)
(*                                                                         *)
(* A device is its state ("silent": stale, which the page does not offer   *)
(* but the server accepts; "held": paused, unverified or archived), its    *)
(* revision and the endpoint it points at.  A cached connection is taken   *)
(* by revision only, so between two endpoints of one revision it may be to *)
(* either; the model sends to the one the row points at.  Exit codes of    *)
(* commands are data, and so is the search of the target list.             *)
(***************************************************************************)
EXTENDS Naturals, FiniteSets

CONSTANTS
    Devices,        \* the devices of the fleet
    Endpoints,      \* what the connection details of a device may point at
    Commands,       \* the commands of the catalogue
    Destructive,    \* those that change a device
    MaxRevision,    \* edits of a device's connection
    MaxProofs,      \* confirmations that may be issued
    MaxJobs,        \* operations that may be stored
    Deliveries      \* deliveries of one request: {1}, or {1, 2} if it may be repeated

ASSUME OperationsAssumption ==
    /\ IsFiniteSet(Devices)
    /\ Endpoints # {}
    /\ Destructive \subseteq Commands /\ "none" \notin Commands
    /\ MaxRevision \in Nat \ {0} /\ {MaxProofs, MaxJobs} \subseteq Nat
    /\ Deliveries \subseteq Nat

VARIABLES
    fleet,          \* the device rows
    role,           \* the role of the page's user, "none" for a viewer or when deactivated
    proofs,         \* the confirmations
    jobs,           \* the operations
    runs,           \* the execute_job coroutine of each operation
    posts,          \* the deliveries of POST /operations
    sent,           \* the commands that reached a device (for the properties)
    known,          \* what the page last heard of each device
    page,           \* the form of the page
    overtaken       \* devices one edit of which lost the revision of another (for the properties)

vars == <<fleet, role, proofs, jobs, runs, posts, sent, known, page, overtaken>>
serverside == <<fleet, role, proofs, jobs, runs, posts, sent>>

Proof == 1 .. MaxProofs
Job == 1 .. MaxJobs
States == {"ready", "silent", "held"}
Roles == {"admin", "operator", "none"}
Revisions == 1 .. MaxRevision
NoCommand == "none"
Targets == SUBSET Devices

\* What a request asks for; proof 0 stands for no confirmation.
Body == [command : Commands \cup {NoCommand}, ids : Targets, proof : 0 .. MaxProofs]
NoBody == [command |-> NoCommand, ids |-> {}, proof |-> 0]
\* What a device row, as read, says of where a command goes; nothing read: NoAim.
Nowhere == "nowhere"
Aims == [revision : 0 .. MaxRevision, target : Endpoints \cup {Nowhere}]
NoAim == [revision |-> 0, target |-> Nowhere]
Aim(d) == [revision |-> fleet[d].revision, target |-> fleet[d].target]
NoRows == [d \in Devices |-> NoAim]
NoPost == [at |-> "idle", body |-> NoBody, rows |-> NoRows]
NoRun == [at |-> "none", todo |-> {}, device |-> {}, seen |-> NoAim]

\* What a job reports of a target: nothing yet, that the command was not sent,
\* its output, or that nobody knows (a timeout, a lost connection).
Reports == {"waiting", "not sent", "output", "unknown"}
NoReport == [d \in Devices |-> "waiting"]

TypeOK ==
    /\ fleet \in [Devices -> [state : States, revision : Revisions, target : Endpoints]]
    /\ role \in Roles
    /\ proofs \in [Proof -> [state : {"none", "good", "expired", "used"},
                             command : Commands \cup {NoCommand}, ids : Targets]]
    /\ jobs \in [Job -> [status : {"none", "queued", "running", "ended", "interrupted"},
                         body : Body, rows : [Devices -> Aims],
                         told : [Devices -> Reports]]]
    /\ runs \in [Job -> [at : {"none", "queued", "looking", "sending"} \cup Reports,
                         todo : Targets, device : Targets, seen : Aims]]
    /\ posts \in [Deliveries -> [at : {"idle", "sent", "validated", "checked", "done", "refused"},
                                 body : Body, rows : [Devices -> Aims]]]
    /\ sent \subseteq [job : Job, device : Devices, target : Endpoints, time : {1, 2}]
    /\ known \in [Devices -> States]
    /\ page \in [command : Commands \cup {NoCommand}, selected : Targets, confirm : BOOLEAN,
                 busy : BOOLEAN]
    /\ overtaken \in Targets

Init ==
    /\ \E first \in [Devices -> Endpoints] :
          fleet = [d \in Devices |-> [state |-> "ready", revision |-> 1, target |-> first[d]]]
    /\ role = "admin"
    /\ proofs = [p \in Proof |-> [state |-> "none", command |-> NoCommand, ids |-> {}]]
    /\ jobs = [j \in Job |-> [status |-> "none", body |-> NoBody, rows |-> NoRows,
                              told |-> NoReport]]
    /\ runs = [j \in Job |-> NoRun]
    /\ posts = [r \in Deliveries |-> NoPost]
    /\ sent = {}
    /\ known = [d \in Devices |-> "ready"]
    /\ page = [command |-> NoCommand, selected |-> {}, confirm |-> FALSE, busy |-> FALSE]
    /\ overtaken = {}

-----------------------------------------------------------------------------
(* The page.                                                               *)

\* reason(d): why the page does not offer a device (a device that was archived
\* is no longer listed).
Eligible(d, seen) == seen[d] = "ready"
Invalid(selected, seen) == {d \in selected : ~Eligible(d, seen)}

\* The command selector: destructive commands are offered to administrators.
ChooseCommand ==
    /\ role \in {"admin", "operator"} /\ ~page.confirm
    /\ \E c \in Commands :
          /\ c \in Destructive => role = "admin"
          /\ page' = [page EXCEPT !.command = c]
    /\ UNCHANGED <<serverside, known, overtaken>>

\* A check box, or Remove target: only eligible devices can be added.
Select ==
    /\ ~page.confirm
    /\ \E d \in Devices :
          /\ d \in page.selected \/ Eligible(d, known)
          /\ page' = [page EXCEPT !.selected = IF d \in @ THEN @ \ {d} ELSE @ \cup {d}]
    /\ UNCHANGED <<serverside, known, overtaken>>

\* The button below the form.
Ready == page.command # NoCommand /\ page.selected # {} /\ ~page.busy
         /\ Invalid(page.selected, known) = {}

\* Review & confirm opens the dialog of a destructive command ...
Review ==
    /\ Ready /\ page.command \in Destructive /\ ~page.confirm
    /\ page' = [page EXCEPT !.confirm = TRUE]
    /\ UNCHANGED <<serverside, known, overtaken>>

\* ... which can be cancelled at any moment, a request under way going on.
Cancel ==
    /\ page.confirm
    /\ page' = [page EXCEPT !.confirm = FALSE]
    /\ UNCHANGED <<serverside, known, overtaken>>

\* Targets the server accepts: known, not archived, not paused (validate_targets).
Accepts(body) ==
    /\ role \in {"admin", "operator"}
    /\ body.command \in Destructive => role = "admin"
    /\ \A d \in body.ids : fleet[d].state \in {"ready", "silent"}

\* POST /operations with a body, which may be delivered more than once, or never.
Post(body) ==
    /\ \A r \in Deliveries : posts[r] = NoPost
    /\ \E some \in SUBSET Deliveries :
          posts' = [r \in Deliveries |->
                       IF r \in some THEN [NoPost EXCEPT !.at = "sent", !.body = body]
                       ELSE NoPost]
    /\ page' = [page EXCEPT !.busy = TRUE]

\* run() of a command that changes nothing: posted at once.
RunCommand ==
    /\ Ready /\ page.command \notin Destructive
    /\ Post([command |-> page.command, ids |-> page.selected, proof |-> 0])
    /\ UNCHANGED <<fleet, role, proofs, jobs, runs, sent, known, overtaken>>

\* Confirm & run: run() asks for a confirmation of what the page shows and posts
\* the same body with it.  What else happens between the two could as well happen
\* before or after; a refusal leaves the review open.
ConfirmAndRun ==
    /\ page.confirm /\ Ready
    /\ role = "admin" /\ Accepts([NoBody EXCEPT !.command = page.command, !.ids = page.selected])
    /\ \E p \in Proof :
          /\ proofs[p].state = "none"
          /\ \A q \in Proof : q < p => proofs[q].state # "none"
          /\ proofs' = [proofs EXCEPT ![p] = [state |-> "good", command |-> page.command,
                                              ids |-> page.selected]]
          /\ Post([command |-> page.command, ids |-> page.selected, proof |-> p])
    /\ UNCHANGED <<fleet, role, jobs, runs, sent, known, overtaken>>

\* A refusal, or no answer: a message; the review stays open.
RunFails ==
    /\ page.busy
    /\ page' = [page EXCEPT !.busy = FALSE]
    /\ UNCHANGED <<serverside, known, overtaken>>

\* The operation was accepted.
Queued ==
    /\ page.busy
    /\ \E r \in Deliveries : posts[r].at = "done"
    /\ page' = [page EXCEPT !.busy = FALSE, !.confirm = FALSE]
    /\ UNCHANGED <<serverside, known, overtaken>>

\* The page hears of the fleet (Live view); a change of what is invalid takes
\* an open review back.
Hear ==
    /\ known # [d \in Devices |-> fleet[d].state]
    /\ known' = [d \in Devices |-> fleet[d].state]
    /\ page' = [page EXCEPT !.confirm =
          @ /\ Invalid(page.selected, known) = Invalid(page.selected, known')]
    /\ UNCHANGED <<serverside, overtaken>>

-----------------------------------------------------------------------------
(* The server.                                                             *)

\* validate_targets, in a session of its own.
Validate(r) ==
    /\ posts[r].at = "sent"
    /\ posts' = [posts EXCEPT ![r] =
          IF Accepts(@.body)
          THEN [@ EXCEPT !.at = "validated",
                         !.rows = [d \in Devices |-> IF d \in posts[r].body.ids
                                                     THEN Aim(d) ELSE NoAim]]
          ELSE [NoPost EXCEPT !.at = "refused"]]
    /\ UNCHANGED <<fleet, role, proofs, jobs, runs, sent, known, page, overtaken>>

\* A confirmation is good for its command and targets, for 120 s.
Proves(body) ==
    /\ body.proof # 0
    /\ proofs[body.proof] = [state |-> "good", command |-> body.command, ids |-> body.ids]

\* The transaction reads the confirmation ...
Check(r) ==
    /\ posts[r].at = "validated"
    /\ posts' = [posts EXCEPT ![r] =
          IF posts[r].body.command \in Destructive => Proves(posts[r].body)
          THEN [@ EXCEPT !.at = "checked"] ELSE [NoPost EXCEPT !.at = "refused"]]
    /\ UNCHANGED <<fleet, role, proofs, jobs, runs, sent, known, page, overtaken>>

\* Deleting a confirmation that is gone is no error.
Consumable_gone(body) == TRUE

\* ... deletes it, which succeeds for one transaction only (an expired row is
\* still there to delete) ...
Consumable(body) ==
    body.command \in Destructive => proofs[body.proof].state # "used"

\* ... and stores the job, for which execute_job is spawned.
Store(r) ==
    /\ posts[r].at = "checked"
    /\ LET body == posts[r].body IN
       IF Consumable(body)
       THEN \E j \in Job :
               /\ jobs[j].status = "none"
               /\ \A i \in Job : i < j => jobs[i].status # "none"
               /\ jobs' = [jobs EXCEPT ![j] = [status |-> "queued", body |-> body,
                                               rows |-> posts[r].rows, told |-> NoReport]]
               /\ runs' = [runs EXCEPT ![j] = [NoRun EXCEPT !.at = "queued", !.todo = body.ids]]
               /\ proofs' = [p \in Proof |-> IF p = body.proof
                                             THEN [proofs[p] EXCEPT !.state = "used"]
                                             ELSE proofs[p]]
               /\ posts' = [posts EXCEPT ![r] = [NoPost EXCEPT !.at = "done"]]
       ELSE posts' = [posts EXCEPT ![r] = [NoPost EXCEPT !.at = "refused"]] /\ UNCHANGED <<jobs, runs, proofs>>
    /\ UNCHANGED <<fleet, role, sent, known, page, overtaken>>

\* A delivery is over once the page no longer waits for it.
Forget(r) ==
    /\ posts[r].at \in {"done", "refused"} /\ ~page.busy
    /\ posts' = [posts EXCEPT ![r] = NoPost]
    /\ UNCHANGED <<fleet, role, proofs, jobs, runs, sent, known, page, overtaken>>

Begin(j) ==
    /\ runs[j].at = "queued"
    /\ jobs' = [jobs EXCEPT ![j].status = "running"]
    /\ runs' = [runs EXCEPT ![j].at = "looking"]
    /\ UNCHANGED <<fleet, role, proofs, posts, sent, known, page, overtaken>>

\* The device is only looked up again, not compared.
Permitted_edited(j, d) ==
    /\ fleet[d].state \in {"ready", "silent"}
    /\ role \in {"admin", "operator"}
    /\ jobs[j].body.command \in Destructive => role = "admin"

\* What execute_job demands of a target and of the owner right before sending.
Permitted(j, d) ==
    /\ fleet[d].state \in {"ready", "silent"}
    /\ fleet[d].revision = jobs[j].rows[d].revision
    /\ role \in {"admin", "operator"}
    /\ jobs[j].body.command \in Destructive => role = "admin"

\* The next target: looked at, then sent to or passed over with a note.
Look(j) ==
    /\ runs[j].at = "looking"
    /\ \E d \in runs[j].todo :
          runs' = [runs EXCEPT ![j] = [at |-> IF Permitted(j, d) THEN "sending" ELSE "not sent",
                                       todo |-> @.todo \ {d}, device |-> {d},
                                       seen |-> Aim(d)]]
    /\ UNCHANGED <<fleet, role, proofs, jobs, posts, sent, known, page, overtaken>>

\* The command is sent to the device row that was looked at: it runs and answers,
\* or the connection fails before or after the device began.
Send(j) ==
    /\ runs[j].at = "sending"
    /\ \E d \in runs[j].device, report \in {"output", "unknown"} :
          /\ \/ sent' = sent \cup {[job |-> j, device |-> d, target |-> runs[j].seen.target,
                                    time |-> IF \E s \in sent : s.job = j /\ s.device = d
                                             THEN 2 ELSE 1]}
             \/ report = "unknown" /\ UNCHANGED sent
          /\ runs' = [runs EXCEPT ![j].at = report]
    /\ UNCHANGED <<fleet, role, proofs, jobs, posts, known, page, overtaken>>

\* A failure to store the result is passed over.
StoreResult_lost(j) ==
    /\ runs[j].at \in Reports
    /\ \/ \E d \in runs[j].device : jobs' = [jobs EXCEPT ![j].told[d] = runs[j].at]
       \/ UNCHANGED jobs
    /\ runs' = [runs EXCEPT ![j] = [NoRun EXCEPT !.at = "looking", !.todo = runs[j].todo]]
    /\ UNCHANGED <<fleet, role, proofs, posts, sent, known, page, overtaken>>

\* The result is stored, and the next target is looked at.
StoreResult(j) ==
    /\ runs[j].at \in Reports
    /\ \E d \in runs[j].device : jobs' = [jobs EXCEPT ![j].told[d] = runs[j].at]
    /\ runs' = [runs EXCEPT ![j] = [NoRun EXCEPT !.at = "looking", !.todo = runs[j].todo]]
    /\ UNCHANGED <<fleet, role, proofs, posts, sent, known, page, overtaken>>

Finish(j) ==
    /\ runs[j].at = "looking" /\ runs[j].todo = {}
    /\ jobs' = [jobs EXCEPT ![j].status = "ended"]
    /\ runs' = [runs EXCEPT ![j] = NoRun]
    /\ UNCHANGED <<fleet, role, proofs, posts, sent, known, page, overtaken>>

\* A session of the coroutine fails: nothing catches it, and the job stays as it is.
\* (If it had committed, the step it belongs to comes first; a POST whose commit
\* is not heard stores a job that no coroutine begins, the same in effect.)
Dies(j) ==
    /\ runs[j].at \in {"queued", "looking"} \cup Reports
    /\ runs' = [runs EXCEPT ![j] = NoRun]
    /\ UNCHANGED <<fleet, role, proofs, jobs, posts, sent, known, page, overtaken>>

Execute(j) == Begin(j) \/ Look(j) \/ Send(j) \/ StoreResult(j) \/ Finish(j) \/ Dies(j)

\* Operations under way are queued again.
Restart_requeued ==
    /\ jobs' = [j \in Job |-> IF jobs[j].status = "running"
                              THEN [jobs[j] EXCEPT !.status = "queued"] ELSE jobs[j]]
    /\ runs' = [j \in Job |-> IF jobs[j].status \in {"queued", "running"}
                              THEN [NoRun EXCEPT !.at = "queued", !.todo = jobs[j].body.ids]
                              ELSE NoRun]
    /\ posts' = [r \in Deliveries |-> IF posts[r] = NoPost THEN NoPost
                                      ELSE [NoPost EXCEPT !.at = "refused"]]
    /\ UNCHANGED <<fleet, role, proofs, sent, known, page, overtaken>>

\* A restart interrupts what was under way; it never retries.
Restart ==
    /\ jobs' = [j \in Job |-> IF jobs[j].status \in {"queued", "running"}
                              THEN [jobs[j] EXCEPT !.status = "interrupted"] ELSE jobs[j]]
    /\ runs' = [j \in Job |-> NoRun]
    /\ posts' = [r \in Deliveries |-> IF posts[r] = NoPost THEN NoPost
                                      ELSE [NoPost EXCEPT !.at = "refused"]]
    /\ UNCHANGED <<fleet, role, proofs, sent, known, page, overtaken>>

-----------------------------------------------------------------------------
(* Other administrators, and time.                                         *)

\* The collector loses a device, or hears of it again.
DeviceHeard(d) ==
    /\ fleet[d].state # "held"
    /\ fleet' = [fleet EXCEPT ![d].state = IF @ = "ready" THEN "silent" ELSE "ready"]
    /\ UNCHANGED overtaken

\* edit_device pauses, archives or brings back; save_device sets the connection
\* details.  Either stores one more than the revision it read, and may commit
\* after another one that had read the same.
DeviceEdited(d) ==
    \E read \in Revisions, state \in States, target \in Endpoints :
       /\ read < MaxRevision
       /\ read <= fleet[d].revision \/ d \in overtaken
       /\ \/ (state = "held") # (fleet[d].state = "held") /\ target = fleet[d].target
          \/ state = fleet[d].state
       /\ fleet' = [fleet EXCEPT ![d] = [state |-> state, revision |-> read + 1, target |-> target]]
       /\ overtaken' = IF read = fleet[d].revision THEN overtaken ELSE overtaken \cup {d}

DeviceChanges ==
    /\ \E d \in Devices : DeviceHeard(d) \/ DeviceEdited(d)
    /\ UNCHANGED <<role, proofs, jobs, runs, posts, sent, known, page>>

RoleChanges ==
    /\ \E r \in Roles : r # role /\ role' = r
    /\ UNCHANGED <<fleet, proofs, jobs, runs, posts, sent, known, page, overtaken>>

ProofExpires ==
    /\ \E p \in Proof :
          /\ proofs[p].state = "good"
          /\ proofs' = [proofs EXCEPT ![p].state = "expired"]
    /\ UNCHANGED <<fleet, role, jobs, runs, posts, sent, known, page, overtaken>>

Page == ChooseCommand \/ Select \/ Review \/ Cancel \/ RunCommand \/ ConfirmAndRun
Answers == RunFails \/ Queued \/ Hear
Request(r) == Validate(r) \/ Check(r) \/ Store(r) \/ Forget(r)

Next ==
    \/ Page \/ Answers
    \/ \E r \in Deliveries : Request(r)
    \/ \E j \in Job : Execute(j)
    \/ Restart \/ DeviceChanges \/ RoleChanges \/ ProofExpires

Spec == Init /\ [][Next]_vars

-----------------------------------------------------------------------------
(* Properties.                                                             *)

\* What "Recent operations" shows of each target of a job.
Shown(j) == [d \in jobs[j].body.ids |-> jobs[j].told[d]]

\* A job sends its command to a device at most once, whatever is delivered
\* twice, edited or restarted meanwhile ("never retried automatically").
AtMostOnce == \A s \in sent : s.time = 1

\* A command goes only to targets of its job, and there to the endpoint the target
\* had when the operation was accepted, however often and in whichever order the
\* device was paused, moved and brought back since: unless one edit of the device
\* has lost the revision of another, which makes two endpoints look the same.
SentAsQueued ==
    \A s \in sent : /\ s.device \in jobs[s.job].body.ids
                    /\ \/ s.device \in overtaken
                       \/ s.target = jobs[s.job].rows[s.device].target

\* Each confirmation admits one operation, of the command and for the targets
\* it was issued for, and no destructive operation is admitted without one, even
\* if the request arrives twice and both deliveries are checked before either is
\* stored.
ConfirmedOnce ==
    \A j \in Job :
       LET body == jobs[j].body IN
       body.command \in Destructive =>
          /\ body.proof # 0
          /\ proofs[body.proof] = [state |-> "used", command |-> body.command, ids |-> body.ids]
          /\ \A i \in Job \ {j} : jobs[i].body.proof # body.proof

Got(j, d) == \E s \in sent : s.job = j /\ s.device = d

\* What the job shows as over or as interrupted is: no coroutine works on it.  (The
\* other direction fails: a coroutine that dies leaves its job running.)
OverIsOver == \A j \in Job : runs[j].at # "none" => jobs[j].status \in {"queued", "running"}

\* Targets of a job that are open, but got the command.
Unreported(j) == {d \in DOMAIN Shown(j) : Shown(j)[d] = "waiting" /\ Got(j, d)}

\* The job's report is true, also if its coroutine died or the server restarted: a
\* target said not to have been sent the command has not got it, one with an output
\* has, a job that ended reports on every target, and one that was cut short leaves
\* at most one target open that has got the command, the one it was at.
ReportsTruth ==
    /\ OverIsOver
    /\ \A j \in Job :
          /\ \A d \in DOMAIN Shown(j) :
                /\ Shown(j)[d] = "not sent" => ~Got(j, d)
                /\ Shown(j)[d] = "output" => Got(j, d)
                /\ Shown(j)[d] = "waiting" => jobs[j].status # "ended"
          /\ \A d, e \in Unreported(j) : d = e
=============================================================================
