--------------------------- MODULE OperationsProofs ---------------------------
(* Operations for any fleet, commands, confirmations, jobs and deliveries.   *)
EXTENDS Operations, TLAPS

ProofRow == [state : {"none", "good", "expired", "used"}, command : Commands \cup {NoCommand}, ids : Targets]
JobRow == [status : {"none", "queued", "running", "ended", "interrupted"}, body : Body,
           rows : [Devices -> Aims], told : [Devices -> Reports]]
Run == [at : {"none", "queued", "looking", "sending"} \cup Reports,
        todo : Targets, device : Targets, seen : Aims]
Delivery == [at : {"idle", "sent", "validated", "checked", "done", "refused"}, body : Body,
             rows : [Devices -> Aims]]
Form == [command : Commands \cup {NoCommand}, selected : Targets, confirm : BOOLEAN, busy : BOOLEAN]
Trace == [job : Job, device : Devices, target : Endpoints, time : {1, 2}]
Device == [state : States, revision : Revisions, target : Endpoints]

(* What was read of a device is older than the row, or points where the row  *)
(* does; nothing is claimed once an edit has lost the revision of another.   *)
Aimed(row, d) ==
    \/ d \in overtaken
    \/ /\ row.revision <= fleet[d].revision
       /\ row.revision = fleet[d].revision => row.target = fleet[d].target

AimsHeld ==
    /\ \A r \in Deliveries, d \in Devices : Aimed(posts[r].rows[d], d)
    /\ \A j \in Job, d \in Devices : Aimed(jobs[j].rows[d], d)

(* A coroutine has its job under way, has still to do what is not reported,  *)
(* and nothing it still has to do was sent.                                  *)
Coroutine(j) ==
    LET run == runs[j]
        job == jobs[j]
        ids == jobs[j].body.ids
    IN /\ run.at # "none" => job.status \in {"queued", "running"}
       /\ run.at = "queued" => job.status = "queued"
       /\ job.status = "queued" => run.at \in {"queued", "none"}
       /\ run.at # "waiting"
       /\ run.at # "none" =>
             /\ run.todo \subseteq ids /\ run.device \subseteq ids
             /\ \A d \in ids : job.told[d] = "waiting" <=> d \in run.todo \cup run.device
             /\ \A d \in run.todo : ~Got(j, d) /\ d \notin run.device
       /\ run.at \in {"queued", "looking"} => run.device = {}
       /\ run.at \in {"sending"} \cup Reports => \E d : run.device = {d}
       /\ run.at = "sending" => \A d \in run.device : /\ ~Got(j, d)
                                                      /\ run.seen.target \in Endpoints
                                                      /\ \/ d \in overtaken
                                                         \/ run.seen.target = job.rows[d].target
       /\ run.at = "not sent" => \A d \in run.device : ~Got(j, d)
       /\ run.at = "output" => \A d \in run.device : Got(j, d)

(* What the job says of its targets.                                         *)
Told(j) ==
    /\ jobs[j].status = "none" => jobs[j].body = NoBody
    /\ \A d \in jobs[j].body.ids :
          /\ jobs[j].told[d] = "not sent" => ~Got(j, d)
          /\ jobs[j].told[d] = "output" => Got(j, d)
          /\ jobs[j].status = "ended" => jobs[j].told[d] # "waiting"

(* Of the targets left open, one at most has got the command.                *)
Alone(j) ==
    \A d, e \in jobs[j].body.ids :
       jobs[j].told[d] = "waiting" /\ Got(j, d) /\ jobs[j].told[e] = "waiting" /\ Got(j, e) => d = e

JobsHeld == \A j \in Job : Coroutine(j) /\ Told(j) /\ Alone(j)

SentHeld == AtMostOnce /\ SentAsQueued

(* Destructive operations, and only they, carry a confirmation; one that was *)
(* checked is for the very command and targets.                              *)
Carries(body) == body.command \in Destructive <=> body.proof # 0

IssuedFor(body) ==
    body.command \in Destructive =>
        /\ proofs[body.proof].state # "none"
        /\ proofs[body.proof].command = body.command /\ proofs[body.proof].ids = body.ids

ConfirmHeld ==
    /\ page.confirm => page.command \in Destructive
    /\ \A j \in Job : Carries(jobs[j].body)
    /\ \A r \in Deliveries : /\ Carries(posts[r].body)
                             /\ posts[r].at = "checked" => IssuedFor(posts[r].body)
    /\ ConfirmedOnce

IInv == TypeOK /\ JobsHeld /\ SentHeld /\ ConfirmHeld /\ AimsHeld

-----------------------------------------------------------------------------
LEMMA Values ==
    /\ NoBody \in Body /\ NoRows \in [Devices -> Aims] /\ NoPost \in Delivery
    /\ NoAim \in Aims /\ NoAim.revision = 0
    /\ NoRun \in Run /\ NoReport \in [Devices -> Reports] /\ Carries(NoBody)
    /\ MaxRevision \in Nat /\ MaxProofs \in Nat /\ MaxJobs \in Nat
  BY OperationsAssumption DEF NoBody, Body, NoRows, NoPost, Delivery, NoRun, Run, NoReport, Reports,
     NoCommand, Targets, Carries, NoAim, Aims

LEMMA AimType == ASSUME TypeOK PROVE \A d \in Devices : Aim(d) \in Aims
  BY OperationsAssumption DEF TypeOK, Aim, Aims, Revisions

LEMMA JobType ==
    ASSUME TypeOK, NEW j \in Job
    PROVE  /\ jobs[j] \in JobRow
           /\ \A r \in JobRow : jobs' = [jobs EXCEPT ![j] = r] => jobs' \in [Job -> JobRow]
<1>1. jobs \in [Job -> JobRow]
  BY DEF TypeOK, JobRow
<1>. QED
  BY <1>1

LEMMA RunType ==
    ASSUME TypeOK, NEW j \in Job
    PROVE  /\ runs[j] \in Run
           /\ \A r \in Run : runs' = [runs EXCEPT ![j] = r] => runs' \in [Job -> Run]
<1>1. runs \in [Job -> Run]
  BY DEF TypeOK, Run
<1>. QED
  BY <1>1

LEMMA PostType ==
    ASSUME TypeOK, NEW r \in Deliveries
    PROVE  /\ posts[r] \in Delivery
           /\ \A x \in Delivery : posts' = [posts EXCEPT ![r] = x] => posts' \in [Deliveries -> Delivery]
<1>1. posts \in [Deliveries -> Delivery]
  BY DEF TypeOK, Delivery
<1>. QED
  BY <1>1

LEMMA PostedType ==
    ASSUME TypeOK, NEW body \in Body, Post(body)
    PROVE  posts' \in [Deliveries -> Delivery] /\ page' \in Form
<1>1. [NoPost EXCEPT !.at = "sent", !.body = body] \in Delivery
  BY Values DEF Delivery
<1>2. posts' \in [Deliveries -> Delivery]
  BY <1>1, Values DEF Post
<1>. QED
  BY <1>2 DEF Post, TypeOK, Form

LEMMA PageTypes == ASSUME TypeOK, Page PROVE TypeOK'
<1>1. CASE ChooseCommand
  BY <1>1 DEF ChooseCommand, serverside, TypeOK
<1>2. CASE Select
  <2>1. PICK d \in Devices : page' = [page EXCEPT !.selected = IF d \in @ THEN @ \ {d} ELSE @ \cup {d}]
    BY <1>2 DEF Select
  <2>2. page.selected \in Targets /\ page \in Form
    BY DEF TypeOK, Form
  <2>3. page.selected \ {d} \in Targets /\ page.selected \cup {d} \in Targets
    BY <2>2 DEF Targets
  <2>4. page' \in Form
    <3>. HIDE DEF Targets
    <3>. QED
      BY <2>1, <2>2, <2>3 DEF Form
  <2>. QED
    BY <1>2, <2>4 DEF Select, serverside, TypeOK, Form
<1>3. CASE Review
  BY <1>3 DEF Review, serverside, TypeOK
<1>4. CASE Cancel
  BY <1>4 DEF Cancel, serverside, TypeOK
<1>5. CASE RunCommand
  <2>1. [command |-> page.command, ids |-> page.selected, proof |-> 0] \in Body
    BY Values DEF TypeOK, Body
  <2>2. posts' \in [Deliveries -> Delivery] /\ page' \in Form
    BY <1>5, <2>1, PostedType DEF RunCommand
  <2>. QED
    BY <1>5, <2>2 DEF RunCommand, TypeOK, Delivery, Form
<1>6. CASE ConfirmAndRun
  <2>1. PICK p \in Proof :
           /\ proofs' = [proofs EXCEPT ![p] = [state |-> "good", command |-> page.command, ids |-> page.selected]]
           /\ Post([command |-> page.command, ids |-> page.selected, proof |-> p])
    BY <1>6 DEF ConfirmAndRun
  <2>2. [command |-> page.command, ids |-> page.selected, proof |-> p] \in Body
    BY Values DEF TypeOK, Body, Proof
  <2>3. posts' \in [Deliveries -> Delivery] /\ page' \in Form
    BY <2>1, <2>2, PostedType
  <2>4. proofs' \in [Proof -> ProofRow]
    BY <2>1 DEF TypeOK, ProofRow
  <2>. QED
    BY <1>6, <2>3, <2>4 DEF ConfirmAndRun, TypeOK, Delivery, Form, ProofRow
<1>. QED
  BY <1>1, <1>2, <1>3, <1>4, <1>5, <1>6 DEF Page

LEMMA AnswerTypes == ASSUME TypeOK, Answers PROVE TypeOK'
<1>1. CASE RunFails
  BY <1>1 DEF RunFails, serverside, TypeOK
<1>2. CASE Queued
  BY <1>2 DEF Queued, serverside, TypeOK
<1>3. CASE Hear
  BY <1>3 DEF Hear, serverside, TypeOK
<1>. QED
  BY <1>1, <1>2, <1>3 DEF Answers

LEMMA RequestTypes == ASSUME TypeOK, NEW r \in Deliveries, Request(r) PROVE TypeOK'
<1>1. /\ [NoPost EXCEPT !.at = "refused"] \in Delivery /\ [NoPost EXCEPT !.at = "done"] \in Delivery
      /\ NoPost \in Delivery
  BY Values DEF Delivery
<1>2. CASE Validate(r)
  <2>. DEFINE rows == [d \in Devices |-> IF d \in posts[r].body.ids THEN Aim(d) ELSE NoAim]
  <2>1. rows \in [Devices -> Aims]
    BY Values, AimType
  <2>2. [posts[r] EXCEPT !.at = "validated", !.rows = rows] \in Delivery
    <3>. HIDE DEF rows
    <3>. QED
      BY <2>1, PostType DEF Delivery
  <2>3. posts' \in [Deliveries -> Delivery]
    BY <1>1, <1>2, <2>2, PostType DEF Validate
  <2>. QED
    BY <1>2, <2>3 DEF Validate, TypeOK, Delivery
<1>3. CASE Check(r)
  <2>1. [posts[r] EXCEPT !.at = "checked"] \in Delivery
    BY PostType DEF Delivery
  <2>2. posts' \in [Deliveries -> Delivery]
    BY <1>1, <1>3, <2>1, PostType DEF Check
  <2>. QED
    BY <1>3, <2>2 DEF Check, TypeOK, Delivery
<1>4. CASE Store(r)
  <2>1. CASE posts' = [posts EXCEPT ![r] = [NoPost EXCEPT !.at = "refused"]] /\ UNCHANGED <<jobs, runs, proofs>>
    <3>1. posts' \in [Deliveries -> Delivery]
      BY <1>1, <2>1, PostType
    <3>. QED
      BY <1>4, <2>1, <3>1 DEF Store, TypeOK, Delivery
  <2>2. CASE ~(posts' = [posts EXCEPT ![r] = [NoPost EXCEPT !.at = "refused"]] /\ UNCHANGED <<jobs, runs, proofs>>)
    <3>. DEFINE body == posts[r].body
    <3>1. PICK j \in Job :
             /\ jobs' = [jobs EXCEPT ![j] = [status |-> "queued", body |-> body,
                                             rows |-> posts[r].rows, told |-> NoReport]]
             /\ runs' = [runs EXCEPT ![j] = [NoRun EXCEPT !.at = "queued", !.todo = body.ids]]
             /\ proofs' = [p \in Proof |-> IF p = body.proof THEN [proofs[p] EXCEPT !.state = "used"] ELSE proofs[p]]
             /\ posts' = [posts EXCEPT ![r] = [NoPost EXCEPT !.at = "done"]]
      BY <1>4, <2>2 DEF Store
    <3>2. body \in Body /\ posts[r].rows \in [Devices -> Aims] /\ body.ids \in Targets
      BY PostType DEF Delivery, Body
    <3>. HIDE DEF body
    <3>3. posts' \in [Deliveries -> Delivery]
      BY <1>1, <3>1, PostType
    <3>4. jobs' \in [Job -> JobRow]
      BY <3>1, <3>2, JobType, Values DEF JobRow
    <3>5. runs' \in [Job -> Run]
      <4>1. [NoRun EXCEPT !.at = "queued", !.todo = body.ids] \in Run
        BY <3>2, Values DEF Run
      <4>. QED
        BY <3>1, <4>1, RunType
    <3>6. proofs' \in [Proof -> ProofRow]
      <4>1. \A p \in Proof : proofs[p] \in ProofRow /\ [proofs[p] EXCEPT !.state = "used"] \in ProofRow
        <5>1. proofs \in [Proof -> ProofRow]
          BY DEF TypeOK, ProofRow
        <5>2. \A x \in ProofRow : [x EXCEPT !.state = "used"] \in ProofRow
          BY DEF ProofRow
        <5>. QED
          BY <5>1, <5>2
      <4>. QED
        BY <3>1, <4>1
    <3>. QED
      BY <1>4, <3>3, <3>4, <3>5, <3>6 DEF Store, TypeOK, Delivery, JobRow, Run, ProofRow
  <2>. QED
    BY <2>1, <2>2
<1>5. CASE Forget(r)
  <2>1. posts' \in [Deliveries -> Delivery]
    BY <1>1, <1>5, PostType DEF Forget
  <2>. QED
    BY <1>5, <2>1 DEF Forget, TypeOK, Delivery
<1>. QED
  BY <1>2, <1>3, <1>4, <1>5 DEF Request

(* The steps of one coroutine, by what they leave in its job and in itself.  *)
LEMMA ExecuteFacts ==
    ASSUME TypeOK, NEW j \in Job, Execute(j)
    PROVE  /\ jobs' \in [Job -> JobRow] /\ runs' \in [Job -> Run]
           /\ \A i \in Job : /\ jobs'[i].body = jobs[i].body /\ jobs'[i].rows = jobs[i].rows
                             /\ i # j => jobs'[i] = jobs[i] /\ runs'[i] = runs[i]
           /\ UNCHANGED <<fleet, role, proofs, posts, known, page, overtaken>>
<1>1. CASE Begin(j)
  <2>1. jobs' = [jobs EXCEPT ![j] = [jobs[j] EXCEPT !.status = "running"]]
        /\ runs' = [runs EXCEPT ![j] = [runs[j] EXCEPT !.at = "looking"]]
    BY <1>1 DEF Begin
  <2>2. [jobs[j] EXCEPT !.status = "running"] \in JobRow /\ [runs[j] EXCEPT !.at = "looking"] \in Run
    BY JobType, RunType DEF JobRow, Run
  <2>3. jobs' \in [Job -> JobRow] /\ runs' \in [Job -> Run]
    BY <2>1, <2>2, JobType, RunType
  <2>. QED
    <3>1. jobs \in [Job -> JobRow] /\ runs \in [Job -> Run]
      BY DEF TypeOK, JobRow, Run
    <3>2. /\ jobs'[j].body = jobs[j].body /\ jobs'[j].rows = jobs[j].rows
          /\ \A i \in Job : i # j => jobs'[i] = jobs[i] /\ runs'[i] = runs[i]
      BY <2>1, <3>1 DEF JobRow
    <3>. QED
      BY <1>1, <2>3, <3>2 DEF Begin
<1>2. CASE Look(j)
  <2>1. PICK d \in runs[j].todo :
           runs' = [runs EXCEPT ![j] = [at |-> IF Permitted(j, d) THEN "sending" ELSE "not sent",
                                        todo |-> runs[j].todo \ {d}, device |-> {d}, seen |-> Aim(d)]]
    BY <1>2 DEF Look
  <2>2. d \in Devices /\ runs[j].todo \ {d} \in Targets /\ {d} \in Targets
    BY RunType DEF Run, Targets
  <2>3. Aim(d) \in Aims
    BY <2>2, AimType
  <2>4. runs' \in [Job -> Run]
    BY <2>1, <2>2, <2>3, RunType DEF Run, Reports
  <2>. QED
    BY <1>2, <2>1, <2>4 DEF Look, TypeOK, JobRow
<1>3. CASE Send(j)
  <2>1. PICK report \in {"output", "unknown"} : runs' = [runs EXCEPT ![j] = [runs[j] EXCEPT !.at = report]]
    BY <1>3 DEF Send
  <2>2. [runs[j] EXCEPT !.at = report] \in Run
    BY RunType DEF Run, Reports
  <2>3. runs' \in [Job -> Run]
    BY <2>1, <2>2, RunType
  <2>. QED
    BY <1>3, <2>1, <2>3 DEF Send, TypeOK, JobRow
<1>4. CASE StoreResult(j)
  <2>1. PICK d \in runs[j].device : jobs' = [jobs EXCEPT ![j] = [jobs[j] EXCEPT !.told = [jobs[j].told EXCEPT ![d] = runs[j].at]]]
    BY <1>4 DEF StoreResult
  <2>2. jobs[j].told \in [Devices -> Reports] /\ runs[j].at \in Reports
    BY <1>4, JobType DEF JobRow, StoreResult
  <2>3. [jobs[j].told EXCEPT ![d] = runs[j].at] \in [Devices -> Reports]
    BY <2>2
  <2>4. [jobs[j] EXCEPT !.told = [jobs[j].told EXCEPT ![d] = runs[j].at]] \in JobRow
    BY <2>3, JobType DEF JobRow
  <2>5. jobs' \in [Job -> JobRow]
    BY <2>1, <2>4, JobType
  <2>6. [NoRun EXCEPT !.at = "looking", !.todo = runs[j].todo] \in Run
    BY RunType, Values DEF Run
  <2>7. runs' \in [Job -> Run]
    BY <1>4, <2>6, RunType DEF StoreResult
  <2>. QED
    BY <1>4, <2>1, <2>5, <2>7, JobType DEF StoreResult, JobRow, TypeOK
<1>5. CASE Finish(j)
  <2>1. jobs' = [jobs EXCEPT ![j] = [jobs[j] EXCEPT !.status = "ended"]] /\ runs' = [runs EXCEPT ![j] = NoRun]
    BY <1>5 DEF Finish
  <2>2. [jobs[j] EXCEPT !.status = "ended"] \in JobRow
    BY JobType DEF JobRow
  <2>3. jobs' \in [Job -> JobRow] /\ runs' \in [Job -> Run]
    BY <2>1, <2>2, JobType, RunType, Values
  <2>4. /\ jobs'[j].body = jobs[j].body /\ jobs'[j].rows = jobs[j].rows
        /\ \A i \in Job : i # j => jobs'[i] = jobs[i] /\ runs'[i] = runs[i]
    <3>1. jobs \in [Job -> JobRow] /\ runs \in [Job -> Run]
      BY DEF TypeOK, JobRow, Run
    <3>. QED
      BY <2>1, <3>1 DEF JobRow
  <2>. QED
    BY <1>5, <2>3, <2>4 DEF Finish
<1>6. CASE Dies(j)
  <2>1. runs' \in [Job -> Run]
    BY <1>6, RunType, Values DEF Dies
  <2>. QED
    BY <1>6, <2>1 DEF Dies, TypeOK, JobRow
<1>. QED
  BY <1>1, <1>2, <1>3, <1>4, <1>5, <1>6 DEF Execute

LEMMA RestartTypes == ASSUME TypeOK, Restart PROVE TypeOK'
<1>1. \A x \in JobRow : [x EXCEPT !.status = "interrupted"] \in JobRow
  BY DEF JobRow
<1>2. jobs \in [Job -> JobRow]
  BY DEF TypeOK, JobRow
<1>3. jobs' \in [Job -> JobRow]
  BY <1>1, <1>2 DEF Restart
<1>4. [NoPost EXCEPT !.at = "refused"] \in Delivery
  BY Values DEF Delivery
<1>5. posts' \in [Deliveries -> Delivery] /\ runs' \in [Job -> Run]
  BY <1>4, Values DEF Restart
<1>. QED
  BY <1>3, <1>5 DEF Restart, TypeOK, JobRow, Delivery, Run

LEMMA OthersTypes == ASSUME TypeOK, DeviceChanges \/ RoleChanges \/ ProofExpires PROVE TypeOK'
<1>1. CASE DeviceChanges
  <2>1. PICK d \in Devices : DeviceHeard(d) \/ DeviceEdited(d)
    BY <1>1 DEF DeviceChanges
  <2>2. fleet \in [Devices -> Device]
    BY DEF TypeOK, Device
  <2>3. CASE DeviceHeard(d)
    <3>1. PICK s \in States : fleet' = [fleet EXCEPT ![d] = [fleet[d] EXCEPT !.state = s]]
      BY <2>3 DEF DeviceHeard, States
    <3>2. [fleet[d] EXCEPT !.state = s] \in Device
      BY <2>2 DEF Device
    <3>3. fleet' \in [Devices -> Device]
      <4>. HIDE DEF Device
      <4>. QED
        BY <2>2, <3>1, <3>2
    <3>. QED
      BY <1>1, <2>3, <3>3 DEF DeviceChanges, DeviceHeard, TypeOK, Device
  <2>4. CASE DeviceEdited(d)
    <3>1. PICK read \in Revisions, state \in States, target \in Endpoints :
             /\ read < MaxRevision
             /\ fleet' = [fleet EXCEPT ![d] = [state |-> state, revision |-> read + 1, target |-> target]]
             /\ overtaken' = IF read = fleet[d].revision THEN overtaken ELSE overtaken \cup {d}
      BY <2>4 DEF DeviceEdited
    <3>2. read + 1 \in Revisions
      BY <3>1, Values DEF Revisions
    <3>3. [state |-> state, revision |-> read + 1, target |-> target] \in Device
      BY <3>2 DEF Device
    <3>4. overtaken' \in Targets
      BY <3>1 DEF TypeOK, Targets
    <3>5. fleet' \in [Devices -> Device]
      BY <2>2, <3>1, <3>3
    <3>. QED
      BY <1>1, <3>4, <3>5 DEF DeviceChanges, TypeOK, Device
  <2>. QED
    BY <2>1, <2>3, <2>4
<1>2. CASE RoleChanges
  BY <1>2 DEF RoleChanges, TypeOK
<1>3. CASE ProofExpires
  <2>1. PICK p \in Proof : proofs' = [proofs EXCEPT ![p] = [proofs[p] EXCEPT !.state = "expired"]]
    BY <1>3 DEF ProofExpires
  <2>2. proofs \in [Proof -> ProofRow]
    BY DEF TypeOK, ProofRow
  <2>3. [proofs[p] EXCEPT !.state = "expired"] \in ProofRow
    BY <2>2 DEF ProofRow
  <2>4. proofs' \in [Proof -> ProofRow]
    BY <2>1, <2>2, <2>3
  <2>. QED
    BY <1>3, <2>4 DEF ProofExpires, TypeOK, ProofRow
<1>. QED
  BY <1>1, <1>2, <1>3

-----------------------------------------------------------------------------
(* Coroutines and reports. *)

LEMMA JobFrame ==
    ASSUME NEW i \in Job, jobs'[i] = jobs[i], runs'[i] = runs[i], \A d : Got(i, d)' <=> Got(i, d),
           overtaken \subseteq overtaken', Coroutine(i), Told(i), Alone(i)
    PROVE  (Coroutine(i) /\ Told(i) /\ Alone(i))'
<1>1. Coroutine(i)'
  BY DEF Coroutine
<1>2. Told(i)'
  BY DEF Told
<1>3. Alone(i)'
  BY DEF Alone
<1>. QED
  BY <1>1, <1>2, <1>3

LEMMA JobsFrame ==
    ASSUME IInv, UNCHANGED <<jobs, runs, sent>>, overtaken \subseteq overtaken'
    PROVE  (JobsHeld /\ SentHeld)'
<1>1. \A i, d : Got(i, d)' <=> Got(i, d)
  BY DEF Got
<1>2. JobsHeld'
  BY <1>1, JobFrame DEF IInv, JobsHeld
<1>. QED
  BY <1>2 DEF IInv, SentHeld, AtMostOnce, SentAsQueued

LEMMA SentFrame ==
    ASSUME IInv, UNCHANGED sent, overtaken \subseteq overtaken',
           \A i \in Job : jobs'[i].body = jobs[i].body /\ jobs'[i].rows = jobs[i].rows
    PROVE  SentHeld'
  BY DEF IInv, SentHeld, AtMostOnce, SentAsQueued, TypeOK

LEMMA RestartJobs == ASSUME IInv, Restart PROVE (JobsHeld /\ SentHeld)'
<1>1. \A i, d : Got(i, d)' <=> Got(i, d)
  BY DEF Got, Restart
<1>2. ASSUME NEW i \in Job
      PROVE  /\ jobs'[i].body = jobs[i].body /\ jobs'[i].rows = jobs[i].rows /\ jobs'[i].told = jobs[i].told
             /\ jobs'[i].status \notin {"queued", "running"}
             /\ jobs'[i].status \in {"none", "ended"} => jobs'[i].status = jobs[i].status
             /\ runs'[i] = NoRun
  <2>1. jobs[i] \in JobRow
    BY JobType DEF IInv
  <2>2. jobs'[i] = IF jobs[i].status \in {"queued", "running"}
                   THEN [jobs[i] EXCEPT !.status = "interrupted"] ELSE jobs[i]
    BY DEF Restart
  <2>. QED
    BY <2>1, <2>2 DEF Restart, JobRow
<1>3. ASSUME NEW i \in Job PROVE (Coroutine(i) /\ Told(i) /\ Alone(i))'
  <2>1. Coroutine(i)'
    <3>1. NoRun.at = "none"
      BY DEF NoRun
    <3>2. runs'[i].at = "none" /\ jobs'[i].status \notin {"queued", "running"}
      BY <1>2, <3>1
    <3>. QED
      BY <3>2 DEF Coroutine, Reports
  <2>2. Told(i)'
    BY <1>1, <1>2 DEF Told, IInv, JobsHeld
  <2>3. Alone(i)'
    BY <1>1, <1>2 DEF Alone, IInv, JobsHeld
  <2>. QED
    BY <2>1, <2>2, <2>3
<1>4. SentHeld'
  BY <1>2, SentFrame DEF Restart
<1>. QED
  BY <1>3, <1>4 DEF JobsHeld

LEMMA StoreJobs == ASSUME IInv, NEW r \in Deliveries, Store(r) PROVE (JobsHeld /\ SentHeld)'
<1>. DEFINE body == posts[r].body
<1>1. CASE UNCHANGED <<jobs, runs>>
  BY <1>1, JobsFrame DEF Store
<1>2. CASE ~UNCHANGED <<jobs, runs>>
  <2>1. PICK j \in Job :
           /\ jobs[j].status = "none" /\ UNCHANGED sent
           /\ jobs' = [jobs EXCEPT ![j] = [status |-> "queued", body |-> body,
                                           rows |-> posts[r].rows, told |-> NoReport]]
           /\ runs' = [runs EXCEPT ![j] = [NoRun EXCEPT !.at = "queued", !.todo = body.ids]]
    BY <1>2 DEF Store
  <2>2. body \in Body /\ body.ids \subseteq Devices
    BY PostType DEF IInv, Delivery, Body, Targets
  <2>. HIDE DEF body
  <2>3. /\ jobs'[j] = [status |-> "queued", body |-> body, rows |-> posts[r].rows, told |-> NoReport]
        /\ runs'[j].at = "queued" /\ runs'[j].todo = body.ids /\ runs'[j].device = {}
        /\ \A i \in Job : i # j => jobs'[i] = jobs[i] /\ runs'[i] = runs[i]
    BY <2>1 DEF IInv, TypeOK, NoRun
  <2>4. \A s \in sent : s.job # j
    <3>1. jobs[j].body.ids = {}
      <4>1. Told(j) /\ jobs[j].status = "none"
        BY <2>1 DEF IInv, JobsHeld
      <4>2. jobs[j].body = NoBody
        BY <4>1 DEF Told
      <4>. QED
        BY <4>2 DEF NoBody
    <3>. QED
      BY <3>1 DEF IInv, SentHeld, SentAsQueued
  <2>5. \A i, d : Got(i, d)' <=> Got(i, d)
    BY <2>1 DEF Got
  <2>6. Coroutine(j)'
    <3>1. \A d : ~Got(j, d)'
      BY <2>4, <2>5 DEF Got
    <3>2. \A d \in body.ids : jobs'[j].told[d] = "waiting"
      BY <2>2, <2>3 DEF NoReport
    <3>. QED
      BY <2>3, <3>1, <3>2 DEF Coroutine, Reports
  <2>7. Told(j)'
    <3>1. \A d \in body.ids : jobs'[j].told[d] = "waiting"
      BY <2>2, <2>3 DEF NoReport
    <3>2. jobs'[j].status = "queued" /\ jobs'[j].body = body
      BY <2>3
    <3>. QED
      BY <3>1, <3>2 DEF Told
  <2>8. JobsHeld'
    <3>1. Alone(j)'
      BY <2>4, <2>5 DEF Alone, Got
    <3>2. overtaken' = overtaken
      BY DEF Store
    <3>. QED
      BY <2>3, <2>5, <2>6, <2>7, <3>1, <3>2, JobFrame DEF IInv, JobsHeld
  <2>9. SentHeld'
    BY <2>1, <2>3, <2>4 DEF IInv, SentHeld, AtMostOnce, SentAsQueued, TypeOK, Store
  <2>. QED
    BY <2>8, <2>9
<1>. QED
  BY <1>1, <1>2

(* A step of one coroutine concerns the other jobs in nothing.               *)
LEMMA ExecuteFrame ==
    ASSUME IInv, NEW j \in Job, Execute(j),
           \A i \in Job \ {j} : \A d : Got(i, d)' <=> Got(i, d),
           (Coroutine(j) /\ Told(j))', runs'[j].at = "none" => Alone(j)'
    PROVE  JobsHeld'
<1>1. \A i \in Job \ {j} : jobs'[i] = jobs[i] /\ runs'[i] = runs[i] /\ overtaken' = overtaken
  BY ExecuteFacts DEF IInv
<1>2. \A i \in Job \ {j} : (Coroutine(i) /\ Told(i) /\ Alone(i))'
  BY <1>1, JobFrame DEF IInv, JobsHeld
(* While the coroutine lives, what is open and was sent is what it is at.    *)
<1>3. runs'[j].at # "none" => Alone(j)'
  <2>1. ASSUME runs'[j].at # "none", NEW d \in jobs'[j].body.ids, NEW e \in jobs'[j].body.ids,
               jobs'[j].told[d] = "waiting", Got(j, d)', jobs'[j].told[e] = "waiting", Got(j, e)'
        PROVE  d = e
    <3>1. d \in runs'[j].device /\ e \in runs'[j].device
      BY <2>1 DEF Coroutine
    <3>2. runs'[j].at \in {"sending"} \cup Reports
      <4>1. runs' \in [Job -> Run]
        BY ExecuteFacts DEF IInv
      <4>. QED
        BY <2>1, <3>1, <4>1 DEF Coroutine, Run
    <3>3. PICK x : runs'[j].device = {x}
      BY <3>2 DEF Coroutine
    <3>. QED
      BY <3>1, <3>3
  <2>. QED
    BY <2>1 DEF Alone
<1>. QED
  BY <1>2, <1>3 DEF JobsHeld

LEMMA BeginJobs == ASSUME IInv, NEW j \in Job, Begin(j) PROVE JobsHeld' /\ SentHeld'
<1>1. \A i, d : Got(i, d)' <=> Got(i, d)
  BY DEF Got, Begin
<1>2. Coroutine(j) /\ Told(j) /\ Execute(j)
  BY DEF IInv, JobsHeld, Execute
<1>3. /\ jobs'[j].status = "running" /\ jobs'[j].body = jobs[j].body /\ jobs'[j].rows = jobs[j].rows
      /\ jobs'[j].told = jobs[j].told
      /\ runs'[j].at = "looking" /\ runs'[j].todo = runs[j].todo /\ runs'[j].device = runs[j].device
  BY JobType, RunType DEF Begin, IInv, TypeOK, JobRow, Run
<1>4. runs[j].at = "queued"
  BY DEF Begin
<1>5. Coroutine(j)'
  BY <1>1, <1>2, <1>3, <1>4 DEF Coroutine, Reports
<1>6. Told(j)'
  BY <1>1, <1>2, <1>3 DEF Told
<1>7. SentHeld'
  BY <1>2, SentFrame, ExecuteFacts DEF Begin, IInv
<1>. QED
  BY <1>1, <1>2, <1>3, <1>5, <1>6, <1>7, ExecuteFrame

LEMMA LookJobs == ASSUME IInv, NEW j \in Job, Look(j) PROVE JobsHeld' /\ SentHeld'
<1>1. \A i, d : Got(i, d)' <=> Got(i, d)
  BY DEF Got, Look
<1>2. Coroutine(j) /\ Told(j) /\ Execute(j)
  BY DEF IInv, JobsHeld, Execute
<1>3. PICK e \in runs[j].todo :
         runs' = [runs EXCEPT ![j] = [at |-> IF Permitted(j, e) THEN "sending" ELSE "not sent",
                                      todo |-> runs[j].todo \ {e}, device |-> {e},
                                      seen |-> Aim(e)]]
  BY DEF Look
<1>4. /\ runs'[j].at = IF Permitted(j, e) THEN "sending" ELSE "not sent"
      /\ runs'[j].todo = runs[j].todo \ {e} /\ runs'[j].device = {e}
      /\ runs'[j].seen = Aim(e)
      /\ jobs' = jobs /\ runs[j].at = "looking"
  BY <1>3, RunType DEF Look, IInv, TypeOK
<1>5. runs[j].device = {} /\ runs[j].todo \subseteq jobs[j].body.ids /\ jobs[j].status \in {"queued", "running"}
      /\ jobs[j].status # "queued"
      /\ (\A d \in jobs[j].body.ids : jobs[j].told[d] = "waiting" <=> d \in runs[j].todo)
      /\ (\A d \in runs[j].todo : ~Got(j, d))
  BY <1>2, <1>4 DEF Coroutine
<1>6. /\ Aim(e).target \in Endpoints /\ overtaken' = overtaken
      /\ Permitted(j, e) => e \in overtaken \/ Aim(e).target = jobs[j].rows[e].target
  <2>1. e \in Devices
    BY RunType DEF IInv, Run, Targets
  <2>2. Aimed(jobs[j].rows[e], e)
    BY <2>1 DEF IInv, AimsHeld
  <2>. QED
    BY <2>1, <2>2 DEF IInv, TypeOK, Permitted, Aim, Aimed, Look
<1>7. Coroutine(j)'
  BY <1>1, <1>4, <1>5, <1>6 DEF Coroutine, Reports
<1>8. Told(j)'
  BY <1>1, <1>2, <1>4 DEF Told
<1>9. SentHeld'
  BY <1>2, SentFrame, ExecuteFacts DEF Look, IInv
<1>. QED
  BY <1>1, <1>2, <1>4, <1>7, <1>8, <1>9, ExecuteFrame

LEMMA SendJobs == ASSUME IInv, NEW j \in Job, Send(j) PROVE JobsHeld' /\ SentHeld' /\ sent' \subseteq Trace
<1>1. Coroutine(j) /\ Told(j) /\ Execute(j) /\ runs[j].at = "sending"
  BY DEF IInv, JobsHeld, Execute, Send
<1>2. PICK e \in runs[j].device, report \in {"output", "unknown"}, t \in {1, 2} :
         /\ t = 1 \/ Got(j, e)
         /\ \/ sent' = sent \cup {[job |-> j, device |-> e, target |-> runs[j].seen.target, time |-> t]}
            \/ report = "unknown" /\ sent' = sent
         /\ runs' = [runs EXCEPT ![j] = [runs[j] EXCEPT !.at = report]]
  <2>1. PICK e \in runs[j].device, report \in {"output", "unknown"} :
           /\ \/ sent' = sent \cup {[job |-> j, device |-> e, target |-> runs[j].seen.target,
                                     time |-> IF Got(j, e) THEN 2 ELSE 1]}
              \/ report = "unknown" /\ sent' = sent
           /\ runs' = [runs EXCEPT ![j] = [runs[j] EXCEPT !.at = report]]
    BY DEF Send, Got
  <2>2. PICK t \in {1, 2} : t = (IF Got(j, e) THEN 2 ELSE 1)
    OBVIOUS
  <2>. QED
    BY <2>1, <2>2
<1>. DEFINE trace == [job |-> j, device |-> e, target |-> runs[j].seen.target, time |-> t]
<1>3. /\ runs[j].device = {e} /\ e \in jobs[j].body.ids /\ ~Got(j, e)
      /\ runs[j].seen.target \in Endpoints /\ overtaken' = overtaken
      /\ e \in overtaken \/ runs[j].seen.target = jobs[j].rows[e].target
      /\ runs[j].todo \subseteq jobs[j].body.ids /\ e \notin runs[j].todo
      /\ \A d \in runs[j].todo : ~Got(j, d)
      /\ \A d \in jobs[j].body.ids : jobs[j].told[d] = "waiting" <=> d \in runs[j].todo \cup {e}
      /\ jobs[j].status \in {"queued", "running"} /\ jobs[j].status # "queued"
  BY <1>1 DEF Coroutine, Send
<1>4. runs'[j].at = report /\ runs'[j].todo = runs[j].todo /\ runs'[j].device = {e} /\ jobs' = jobs
  BY <1>2, <1>3, RunType DEF Send, IInv, TypeOK, Run
<1>5. trace \in Trace
  BY <1>2, <1>3, RunType DEF IInv, Run, Targets, Trace
<1>6. sent' = sent \cup {trace} \/ (report = "unknown" /\ sent' = sent)
  BY <1>2
<1>7. trace.job = j /\ trace.device = e /\ trace.target = runs[j].seen.target /\ trace.time = 1
  BY <1>2, <1>3
<1>. HIDE DEF trace
<1>8. /\ \A i \in Job \ {j} : \A d : Got(i, d)' <=> Got(i, d)
      /\ \A d : d # e => (Got(j, d)' <=> Got(j, d))
      /\ report = "output" => Got(j, e)'
  BY <1>6, <1>7 DEF Got
<1>9. Coroutine(j)'
  BY <1>3, <1>4, <1>8 DEF Coroutine, Reports
<1>10. Told(j)'
  <2>1. jobs[j].told[e] = "waiting"
    BY <1>3
  <2>. QED
    BY <1>1, <1>4, <1>8, <2>1 DEF Told
<1>11. SentHeld'
  BY <1>3, <1>4, <1>6, <1>7 DEF IInv, SentHeld, AtMostOnce, SentAsQueued
<1>12. sent' \subseteq Trace
  BY <1>5, <1>6 DEF IInv, TypeOK, Trace
<1>. QED
  BY <1>1, <1>4, <1>8, <1>9, <1>10, <1>11, <1>12, ExecuteFrame

LEMMA StoreResultJobs == ASSUME IInv, NEW j \in Job, StoreResult(j) PROVE JobsHeld' /\ SentHeld'
<1>1. \A i, d : Got(i, d)' <=> Got(i, d)
  BY DEF Got, StoreResult
<1>2. Coroutine(j) /\ Told(j) /\ Execute(j) /\ runs[j].at \in Reports
  BY DEF IInv, JobsHeld, Execute, StoreResult
<1>3. PICK e \in runs[j].device :
         jobs' = [jobs EXCEPT ![j] = [jobs[j] EXCEPT !.told = [jobs[j].told EXCEPT ![e] = runs[j].at]]]
  BY DEF StoreResult
<1>4. /\ runs[j].device = {e} /\ e \in jobs[j].body.ids /\ e \notin runs[j].todo
      /\ runs[j].at \in {"not sent", "output", "unknown"}
      /\ runs[j].at = "not sent" => ~Got(j, e)
      /\ runs[j].at = "output" => Got(j, e)
      /\ runs[j].todo \subseteq jobs[j].body.ids
      /\ \A d \in runs[j].todo : ~Got(j, d)
      /\ \A d \in jobs[j].body.ids : jobs[j].told[d] = "waiting" <=> d \in runs[j].todo \cup {e}
      /\ jobs[j].status \in {"queued", "running"} /\ jobs[j].status # "queued"
  BY <1>2 DEF Coroutine, Reports
<1>5. jobs[j].body.ids \subseteq Devices /\ jobs[j].told \in [Devices -> Reports]
  BY JobType DEF IInv, JobRow, Body, Targets
<1>6. /\ jobs'[j].body = jobs[j].body /\ jobs'[j].rows = jobs[j].rows /\ jobs'[j].status = jobs[j].status
      /\ jobs'[j].told = [jobs[j].told EXCEPT ![e] = runs[j].at]
  BY <1>3, JobType DEF IInv, TypeOK, JobRow
<1>7. jobs'[j].told[e] = runs[j].at /\ \A d \in Devices \ {e} : jobs'[j].told[d] = jobs[j].told[d]
  BY <1>4, <1>5, <1>6
<1>8. runs'[j].at = "looking" /\ runs'[j].todo = runs[j].todo /\ runs'[j].device = {}
  BY RunType DEF StoreResult, IInv, TypeOK, NoRun
<1>9. Coroutine(j)'
  <2>1. \A d \in jobs[j].body.ids : jobs'[j].told[d] = "waiting" <=> d \in runs[j].todo
    BY <1>4, <1>5, <1>7
  <2>2. /\ runs'[j].at = "looking" /\ runs'[j].todo = runs[j].todo /\ runs'[j].device = {}
        /\ jobs'[j].body = jobs[j].body /\ jobs'[j].status \in {"queued", "running"}
        /\ jobs'[j].status # "queued"
    BY <1>4, <1>6, <1>8
  <2>. QED
    BY <1>1, <1>4, <2>1, <2>2 DEF Coroutine, Reports
<1>10. Told(j)'
  <2>1. \A d \in jobs[j].body.ids \ {e} : jobs'[j].told[d] = jobs[j].told[d]
    BY <1>5, <1>7
  <2>2. jobs'[j].told[e] = runs[j].at /\ jobs'[j].body = jobs[j].body
        /\ jobs'[j].status \notin {"none", "ended"}
    BY <1>4, <1>6, <1>7
  <2>. QED
    <3>1. ASSUME NEW d \in jobs[j].body.ids
          PROVE  /\ jobs'[j].told[d] = "not sent" => ~Got(j, d)
                 /\ jobs'[j].told[d] = "output" => Got(j, d)
      <4>1. CASE d = e
        BY <1>4, <2>2, <4>1
      <4>2. CASE d # e
        BY <1>2, <2>1, <4>2 DEF Told
      <4>. QED
        BY <4>1, <4>2
    <3>. QED
      BY <1>1, <2>2, <3>1 DEF Told
<1>11. SentHeld'
  BY <1>2, SentFrame, ExecuteFacts DEF StoreResult, IInv
<1>. QED
  BY <1>1, <1>2, <1>8, <1>9, <1>10, <1>11, ExecuteFrame

LEMMA FinishJobs == ASSUME IInv, NEW j \in Job, Finish(j) PROVE JobsHeld' /\ SentHeld'
<1>1. \A i, d : Got(i, d)' <=> Got(i, d)
  BY DEF Got, Finish
<1>2. Coroutine(j) /\ Told(j) /\ Execute(j) /\ runs[j].at = "looking" /\ runs[j].todo = {}
  BY DEF IInv, JobsHeld, Execute, Finish
<1>3. \A d \in jobs[j].body.ids : jobs[j].told[d] # "waiting"
  BY <1>2 DEF Coroutine
<1>4. /\ jobs'[j].body = jobs[j].body /\ jobs'[j].told = jobs[j].told /\ jobs'[j].status = "ended"
      /\ runs'[j].at = "none" /\ Alone(j)'
  BY <1>3, JobType, RunType DEF Finish, IInv, TypeOK, JobRow, NoRun, Alone
<1>5. Coroutine(j)'
  BY <1>4 DEF Coroutine, Reports
<1>6. Told(j)'
  BY <1>1, <1>2, <1>3, <1>4 DEF Told
<1>7. SentHeld'
  BY <1>2, SentFrame, ExecuteFacts DEF Finish, IInv
<1>. QED
  BY <1>1, <1>2, <1>4, <1>5, <1>6, <1>7, ExecuteFrame

LEMMA DiesJobs == ASSUME IInv, NEW j \in Job, Dies(j) PROVE JobsHeld' /\ SentHeld'
<1>1. \A i, d : Got(i, d)' <=> Got(i, d)
  BY DEF Got, Dies
<1>2. Coroutine(j) /\ Told(j) /\ Alone(j) /\ Execute(j)
  BY DEF IInv, JobsHeld, Execute
<1>3. jobs' = jobs /\ runs'[j].at = "none"
  BY RunType DEF Dies, IInv, TypeOK, NoRun
<1>4. Coroutine(j)'
  BY <1>3 DEF Coroutine, Reports
<1>5. Told(j)' /\ Alone(j)'
  BY <1>1, <1>2, <1>3 DEF Told, Alone
<1>6. SentHeld'
  BY <1>2, <1>3, SentFrame, ExecuteFacts DEF Dies, IInv
<1>. QED
  BY <1>1, <1>2, <1>4, <1>5, <1>6, ExecuteFrame

LEMMA ExecuteJobs == ASSUME IInv, NEW j \in Job, Execute(j) PROVE JobsHeld' /\ SentHeld' /\ TypeOK'
<1>1. JobsHeld' /\ SentHeld'
  BY BeginJobs, LookJobs, SendJobs, StoreResultJobs, FinishJobs, DiesJobs DEF Execute
<1>2. sent' \subseteq Trace
  BY SendJobs DEF Execute, Begin, Look, StoreResult, Finish, Dies, IInv, TypeOK, Trace
<1>3. TypeOK'
  BY <1>2, ExecuteFacts DEF IInv, TypeOK, JobRow, Run, Trace
<1>. QED
  BY <1>1, <1>3

-----------------------------------------------------------------------------
(* Confirmations. *)

LEMMA ConfirmedUsed ==
    ASSUME IInv, NEW i \in Job, jobs[i].body.command \in Destructive
    PROVE  /\ jobs[i].body.proof \in Proof
           /\ proofs[jobs[i].body.proof].state = "used"
           /\ proofs[jobs[i].body.proof].command = jobs[i].body.command
           /\ proofs[jobs[i].body.proof].ids = jobs[i].body.ids
           /\ \A k \in Job \ {i} : jobs[k].body.proof # jobs[i].body.proof
<1>1. ConfirmedOnce
  BY DEF IInv, ConfirmHeld
<1>2. /\ jobs[i].body.proof # 0
      /\ proofs[jobs[i].body.proof] = [state |-> "used", command |-> jobs[i].body.command, ids |-> jobs[i].body.ids]
      /\ \A k \in Job \ {i} : jobs[k].body.proof # jobs[i].body.proof
  BY <1>1 DEF ConfirmedOnce
<1>3. jobs[i].body.proof \in 0 .. MaxProofs
  BY JobType DEF IInv, JobRow, Body
<1>. QED
  BY <1>2, <1>3, Values DEF Proof

LEMMA ConfirmFrame ==
    ASSUME IInv, UNCHANGED <<proofs, posts>>,
           \A j \in Job : jobs'[j].body = jobs[j].body,
           page'.confirm => page'.command \in Destructive
    PROVE  ConfirmHeld'
<1>1. ConfirmedOnce'
  BY DEF IInv, ConfirmHeld, ConfirmedOnce
<1>2. \A body : IssuedFor(body)' <=> IssuedFor(body)
  BY DEF IssuedFor
<1>. QED
  BY <1>1, <1>2 DEF IInv, ConfirmHeld

LEMMA PagesConfirm == ASSUME IInv, Page PROVE ConfirmHeld'
<1>. USE DEF IInv, ConfirmHeld
<1>1. CASE ChooseCommand
  BY <1>1, ConfirmFrame DEF ChooseCommand, serverside, TypeOK
<1>2. CASE Select
  BY <1>2, ConfirmFrame DEF Select, serverside, TypeOK
<1>3. CASE Review
  BY <1>3, ConfirmFrame DEF Review, serverside, TypeOK
<1>4. CASE Cancel
  BY <1>4, ConfirmFrame DEF Cancel, serverside, TypeOK
<1>5. CASE RunCommand
  <2>. DEFINE body == [command |-> page.command, ids |-> page.selected, proof |-> 0]
  <2>1. Carries(body)
    BY <1>5 DEF RunCommand, Carries
  <2>2. \A r \in Deliveries : posts'[r] = NoPost \/ posts'[r] = [NoPost EXCEPT !.at = "sent", !.body = body]
    BY <1>5 DEF RunCommand, Post
  <2>. HIDE DEF body
  <2>3. \A r \in Deliveries : Carries(posts'[r].body) /\ posts'[r].at # "checked"
    <3>1. Carries(NoPost.body) /\ NoPost.at = "idle"
      BY Values DEF NoPost
    <3>2. [NoPost EXCEPT !.at = "sent", !.body = body].body = body
          /\ [NoPost EXCEPT !.at = "sent", !.body = body].at = "sent"
      BY DEF NoPost
    <3>. QED
      BY <2>1, <2>2, <3>1, <3>2
  <2>4. page'.confirm => page'.command \in Destructive
    BY <1>5 DEF RunCommand, Post, TypeOK
  <2>5. ConfirmedOnce'
    BY <1>5 DEF RunCommand, ConfirmedOnce
  <2>. QED
    BY <1>5, <2>3, <2>4, <2>5 DEF RunCommand, Carries
<1>6. CASE ConfirmAndRun
  <2>1. PICK p \in Proof :
           /\ proofs[p].state = "none"
           /\ proofs' = [proofs EXCEPT ![p] = [state |-> "good", command |-> page.command, ids |-> page.selected]]
           /\ Post([command |-> page.command, ids |-> page.selected, proof |-> p])
    BY <1>6 DEF ConfirmAndRun
  <2>. DEFINE body == [command |-> page.command, ids |-> page.selected, proof |-> p]
  <2>2. Carries(body)
    BY <1>6 DEF ConfirmAndRun, Carries, Proof
  <2>3. \A r \in Deliveries : posts'[r] = NoPost \/ posts'[r] = [NoPost EXCEPT !.at = "sent", !.body = body]
    BY <2>1 DEF Post
  <2>. HIDE DEF body
  <2>4. \A r \in Deliveries : Carries(posts'[r].body) /\ posts'[r].at # "checked"
    <3>1. Carries(NoPost.body) /\ NoPost.at = "idle"
      BY Values DEF NoPost
    <3>2. [NoPost EXCEPT !.at = "sent", !.body = body].body = body
          /\ [NoPost EXCEPT !.at = "sent", !.body = body].at = "sent"
      BY DEF NoPost
    <3>. QED
      BY <2>2, <2>3, <3>1, <3>2
  <2>5. page'.confirm => page'.command \in Destructive
    BY <1>6 DEF ConfirmAndRun, Post, TypeOK
  <2>6. \A j \in Job : jobs[j].body.command \in Destructive =>
             jobs[j].body.proof # p /\ proofs'[jobs[j].body.proof] = proofs[jobs[j].body.proof]
    <3>1. \A j \in Job : jobs[j].body.command \in Destructive =>
             proofs[jobs[j].body.proof].state = "used" /\ jobs[j].body.proof \in Proof
      <4>1. ASSUME NEW j \in Job, jobs[j].body.command \in Destructive
            PROVE  proofs[jobs[j].body.proof].state = "used" /\ jobs[j].body.proof \in Proof
        <5>1. IInv
          OBVIOUS
        <5>. HIDE DEF IInv, ConfirmHeld
        <5>. QED
          BY <4>1, <5>1, ConfirmedUsed
      <4>. QED
        BY <4>1
    <3>. QED
      BY <2>1, <3>1 DEF TypeOK
  <2>7. ConfirmedOnce'
    BY <1>6, <2>6 DEF ConfirmAndRun, ConfirmedOnce
  <2>. QED
    BY <1>6, <2>4, <2>5, <2>7 DEF ConfirmAndRun, Carries
<1>. QED
  BY <1>1, <1>2, <1>3, <1>4, <1>5, <1>6 DEF Page

LEMMA AnswersConfirm == ASSUME IInv, Answers PROVE ConfirmHeld'
<1>1. UNCHANGED serverside
  BY DEF Answers, RunFails, Queued, Hear
<1>2. page'.confirm => page'.command \in Destructive
  BY DEF Answers, RunFails, Queued, Hear, IInv, ConfirmHeld, TypeOK
<1>. QED
  BY <1>1, <1>2, ConfirmFrame DEF serverside

(* A delivery that is given up, or goes on to another check.                 *)
LEMMA PostConfirm ==
    ASSUME IInv, NEW r \in Deliveries, NEW x \in Delivery, UNCHANGED <<page, jobs, proofs>>,
           posts' = [posts EXCEPT ![r] = x], Carries(x.body), x.at = "checked" => IssuedFor(x.body)
    PROVE  ConfirmHeld'
<1>1. ConfirmedOnce'
  BY DEF IInv, ConfirmHeld, ConfirmedOnce
<1>2. \A body : IssuedFor(body)' <=> IssuedFor(body)
  BY DEF IssuedFor
<1>3. \A q \in Deliveries : Carries(posts'[q].body) /\ (posts'[q].at = "checked" => IssuedFor(posts'[q].body))
  BY DEF IInv, ConfirmHeld, TypeOK
<1>. QED
  BY <1>1, <1>2, <1>3 DEF IInv, ConfirmHeld, Carries, IssuedFor

LEMMA Given == \A at \in {"refused", "done", "idle"} :
    LET x == [NoPost EXCEPT !.at = at] IN x \in Delivery /\ Carries(x.body) /\ x.at # "checked"
  BY Values DEF NoPost, Delivery

LEMMA RequestConfirm == ASSUME IInv, NEW r \in Deliveries, Request(r) PROVE ConfirmHeld'
<1>1. posts[r] \in Delivery /\ Carries(posts[r].body)
  BY PostType DEF IInv, ConfirmHeld
<1>2. CASE Validate(r)
  <2>. DEFINE rows == [d \in Devices |-> IF d \in posts[r].body.ids THEN Aim(d) ELSE NoAim]
              x == [posts[r] EXCEPT !.at = "validated", !.rows = rows]
  <2>1. rows \in [Devices -> Aims]
    BY Values, AimType DEF IInv
  <2>2. x \in Delivery /\ x.at = "validated" /\ x.body = posts[r].body
    <3>. HIDE DEF rows
    <3>. QED
      BY <1>1, <2>1 DEF Delivery
  <2>3. posts' = [posts EXCEPT ![r] = x] \/ posts' = [posts EXCEPT ![r] = [NoPost EXCEPT !.at = "refused"]]
    BY <1>2 DEF Validate
  <2>. HIDE DEF x
  <2>. QED
    BY <1>1, <1>2, <2>2, <2>3, PostConfirm, Given DEF Validate
<1>3. CASE Check(r)
  <2>. DEFINE x == [posts[r] EXCEPT !.at = "checked"]
  <2>1. x \in Delivery /\ x.body = posts[r].body
    BY <1>1 DEF Delivery
  <2>2. \/ /\ posts[r].body.command \in Destructive => Proves(posts[r].body)
           /\ posts' = [posts EXCEPT ![r] = x]
        \/ posts' = [posts EXCEPT ![r] = [NoPost EXCEPT !.at = "refused"]]
    BY <1>3 DEF Check
  <2>. HIDE DEF x
  <2>3. Proves(posts[r].body) => IssuedFor(posts[r].body)
    BY DEF Proves, IssuedFor
  <2>4. posts[r].body.command \notin Destructive => IssuedFor(posts[r].body)
    BY DEF IssuedFor
  <2>. QED
    BY <1>1, <1>3, <2>1, <2>2, <2>3, <2>4, PostConfirm, Given DEF Check
<1>4. CASE Store(r)
  <2>. DEFINE body == posts[r].body
              done == [NoPost EXCEPT !.at = "done"]
  <2>1. CASE ~Consumable(body)
    BY <1>4, <2>1, PostConfirm, Given DEF Store
  <2>2. CASE Consumable(body)
    <3>1. PICK j \in Job :
             /\ jobs[j].status = "none"
             /\ jobs' = [jobs EXCEPT ![j] = [status |-> "queued", body |-> body,
                                             rows |-> posts[r].rows, told |-> NoReport]]
             /\ proofs' = [p \in Proof |-> IF p = body.proof THEN [proofs[p] EXCEPT !.state = "used"] ELSE proofs[p]]
             /\ posts' = [posts EXCEPT ![r] = done]
      BY <1>4, <2>2 DEF Store
    <3>2. /\ Carries(body) /\ IssuedFor(body) /\ body.proof \in 0 .. MaxProofs
          /\ body.command \in Destructive => body.proof # 0 /\ proofs[body.proof].state # "used"
      BY <1>1, <1>4, <2>2 DEF Store, IInv, ConfirmHeld, Delivery, Body, Carries, Consumable
    <3>3. Carries(done.body) /\ done.at = "done"
      BY Values DEF NoPost
    <3>. HIDE DEF body, done
    <3>4. proofs \in [Proof -> ProofRow]
      BY DEF IInv, TypeOK, ProofRow
    <3>5. \A p \in Proof : /\ proofs'[p].command = proofs[p].command /\ proofs'[p].ids = proofs[p].ids
                           /\ p # body.proof => proofs'[p] = proofs[p]
                           /\ p = body.proof => proofs'[p] = [state |-> "used", command |-> proofs[p].command,
                                                            ids |-> proofs[p].ids]
                           /\ proofs'[p].state # "none" \/ proofs[p].state = "none"
      BY <3>1, <3>4 DEF ProofRow
    <3>6. jobs'[j].body = body /\ \A i \in Job \ {j} : jobs'[i] = jobs[i]
      BY <3>1 DEF IInv, TypeOK
    <3>7. \A b \in Body : Carries(b) => /\ b.command \in Destructive => b.proof \in Proof
                                        /\ b.command \notin Destructive => b.proof = 0
      BY Values DEF Body, Carries, Proof
    <3>8. \A q \in Deliveries : posts[q].body \in Body /\ (q # r => posts'[q] = posts[q])
      BY <3>1, PostType DEF IInv, Delivery, TypeOK
    <3>9. posts'[r] = done
      BY <3>1 DEF IInv, TypeOK
    <3>10. ASSUME NEW q \in Deliveries
           PROVE  Carries(posts'[q].body) /\ (posts'[q].at = "checked" => IssuedFor(posts[q].body)')
      <4>1. CASE q = r
        BY <3>3, <3>9, <4>1
      <4>2. CASE q # r
        <5>1. Carries(posts[q].body) /\ (posts[q].at = "checked" => IssuedFor(posts[q].body)) /\ posts'[q] = posts[q]
          BY <3>8, <4>2 DEF IInv, ConfirmHeld
        <5>2. posts[q].body \in Body
          BY <3>8
        <5>3. posts[q].body.command \in Destructive =>
                 /\ proofs'[posts[q].body.proof].command = proofs[posts[q].body.proof].command
                 /\ proofs'[posts[q].body.proof].ids = proofs[posts[q].body.proof].ids
                 /\ proofs'[posts[q].body.proof].state # "none" \/ proofs[posts[q].body.proof].state = "none"
          BY <3>5, <3>7, <5>1, <5>2
        <5>4. IssuedFor(posts[q].body) => IssuedFor(posts[q].body)'
          BY <5>1, <5>3 DEF IssuedFor
        <5>. QED
          BY <5>1, <5>4
      <4>. QED
        BY <4>1, <4>2
    <3>11. \A i \in Job : Carries(jobs'[i].body)
      BY <3>2, <3>6 DEF IInv, ConfirmHeld
    <3>12. ASSUME NEW i \in Job, i # j, jobs[i].body.command \in Destructive
           PROVE  jobs[i].body.proof \in Proof /\ (body.command \in Destructive => jobs[i].body.proof # body.proof)
                  /\ proofs'[jobs[i].body.proof] = proofs[jobs[i].body.proof]
      <4>2. proofs[jobs[i].body.proof].state = "used" /\ jobs[i].body.proof \in Proof
        BY <3>12, ConfirmedUsed
      <4>3. jobs[i].body.proof # body.proof
        BY <3>2, <4>2, Values DEF Proof, Carries
      <4>. QED
        BY <3>5, <4>2, <4>3
    <3>13. jobs[j].body.proof = 0 /\ body.command \in Destructive => body.proof \in Proof
      BY <3>2, Values DEF Proof
    <3>14. ASSUME NEW i \in Job, jobs'[i].body.command \in Destructive
           PROVE  /\ jobs'[i].body.proof # 0
                  /\ proofs'[jobs'[i].body.proof] =
                        [state |-> "used", command |-> jobs'[i].body.command, ids |-> jobs'[i].body.ids]
                  /\ \A k \in Job \ {i} : jobs'[k].body.proof # jobs'[i].body.proof
      <4>1. CASE i = j
        <5>1. body.proof \in Proof /\ proofs[body.proof].command = body.command /\ proofs[body.proof].ids = body.ids
              /\ body.command \in Destructive /\ body.proof # 0
          <6>1. body.command \in Destructive
            BY <3>6, <3>14, <4>1
          <6>. QED
            BY <3>2, <6>1, Values DEF IssuedFor, Proof
        <5>2. proofs'[body.proof] = [state |-> "used", command |-> body.command, ids |-> body.ids]
          BY <3>5, <5>1
        <5>3. ASSUME NEW k \in Job, k # j PROVE jobs'[k].body.proof # body.proof
          <6>1. CASE jobs[k].body.command \in Destructive
            BY <3>6, <3>12, <5>1, <5>3, <6>1
          <6>2. CASE jobs[k].body.command \notin Destructive
            <7>1. jobs[k].body.proof = 0
              BY <6>2 DEF IInv, ConfirmHeld, Carries
            <7>. QED
              BY <3>6, <5>1, <5>3, <7>1
          <6>. QED
            BY <6>1, <6>2
        <5>. QED
          BY <3>6, <4>1, <5>1, <5>2, <5>3
      <4>2. CASE i # j
        <5>1. jobs'[i] = jobs[i] /\ jobs[i].body.command \in Destructive
          BY <3>6, <3>14, <4>2
        <5>2. proofs[jobs[i].body.proof] = [state |-> "used", command |-> jobs[i].body.command, ids |-> jobs[i].body.ids]
          <6>1. ConfirmedOnce
            BY DEF IInv, ConfirmHeld
          <6>. QED
            BY <5>1, <6>1 DEF ConfirmedOnce
        <5>3. jobs[i].body.proof \in Proof /\ proofs'[jobs[i].body.proof] = proofs[jobs[i].body.proof]
          BY <3>12, <4>2, <5>1
        <5>4. jobs[i].body.proof # 0
          BY <5>3, Values DEF Proof
        <5>5. \A k \in Job \ {i} : jobs[k].body.proof # jobs[i].body.proof
          BY <5>1, ConfirmedUsed
        <5>6. body.proof # jobs[i].body.proof
          <6>1. CASE body.command \in Destructive
            BY <3>12, <4>2, <5>1, <6>1
          <6>2. CASE body.command \notin Destructive
            BY <3>2, <5>4, <6>2 DEF Carries
          <6>. QED
            BY <6>1, <6>2
        <5>. QED
          BY <3>6, <5>1, <5>2, <5>3, <5>4, <5>5, <5>6
      <4>. QED
        BY <4>1, <4>2
    <3>15. ConfirmedOnce'
      BY <3>14 DEF ConfirmedOnce
    <3>. QED
      BY <1>4, <3>10, <3>11, <3>15 DEF Store, ConfirmHeld, IInv
  <2>. QED
    BY <2>1, <2>2
<1>5. CASE Forget(r)
  <2>1. NoPost \in Delivery /\ Carries(NoPost.body) /\ NoPost.at = "idle"
    BY Values DEF NoPost
  <2>. QED
    BY <1>5, <2>1, PostConfirm DEF Forget
<1>. QED
  BY <1>2, <1>3, <1>4, <1>5 DEF Request

LEMMA ExpiresConfirm == ASSUME IInv, ProofExpires PROVE ConfirmHeld'
<1>1. PICK p \in Proof : /\ proofs[p].state = "good"
                         /\ proofs' = [proofs EXCEPT ![p] = [proofs[p] EXCEPT !.state = "expired"]]
  BY DEF ProofExpires
<1>2. proofs \in [Proof -> ProofRow]
  BY DEF IInv, TypeOK, ProofRow
<1>3. \A q \in Proof : /\ proofs'[q].command = proofs[q].command /\ proofs'[q].ids = proofs[q].ids
                       /\ proofs'[q].state = "none" => proofs[q].state = "none"
                       /\ proofs[q].state = "used" => proofs'[q] = proofs[q]
  BY <1>1, <1>2 DEF ProofRow
<1>4. UNCHANGED <<jobs, posts, page>>
  BY DEF ProofExpires
<1>5. ConfirmedOnce'
  <2>1. ConfirmedOnce
    BY DEF IInv, ConfirmHeld
  <2>2. \A i \in Job : jobs[i].body.command \in Destructive =>
           proofs'[jobs[i].body.proof] = proofs[jobs[i].body.proof]
    BY <1>3, ConfirmedUsed
  <2>. QED
    BY <1>4, <2>1, <2>2 DEF ConfirmedOnce
<1>6. \A r \in Deliveries : posts[r].at = "checked" => IssuedFor(posts[r].body)'
  <2>1. ASSUME NEW r \in Deliveries, posts[r].at = "checked", posts[r].body.command \in Destructive
        PROVE  /\ proofs[posts[r].body.proof].state # "none"
               /\ proofs[posts[r].body.proof].command = posts[r].body.command
               /\ proofs[posts[r].body.proof].ids = posts[r].body.ids
               /\ posts[r].body.proof \in Proof
    <3>1. IssuedFor(posts[r].body) /\ Carries(posts[r].body) /\ posts[r].body \in Body
      BY <2>1, PostType DEF IInv, ConfirmHeld, Delivery
    <3>. QED
      BY <2>1, <3>1, Values DEF IssuedFor, Carries, Body, Proof
  <2>. QED
    BY <1>3, <1>4, <2>1 DEF IssuedFor
<1>. QED
  BY <1>4, <1>5, <1>6 DEF IInv, ConfirmHeld, Carries

LEMMA RestartConfirm == ASSUME IInv, Restart PROVE ConfirmHeld'
<1>1. \A i \in Job : jobs'[i].body = jobs[i].body
  <2>1. jobs \in [Job -> JobRow]
    BY DEF IInv, TypeOK, JobRow
  <2>. QED
    BY <2>1 DEF Restart, JobRow
<1>2. ConfirmedOnce'
  <2>1. ConfirmedOnce /\ proofs' = proofs
    BY DEF IInv, ConfirmHeld, Restart
  <2>. QED
    BY <1>1, <2>1 DEF ConfirmedOnce
<1>3. \A r \in Deliveries : Carries(posts'[r].body) /\ posts'[r].at # "checked"
  <2>1. Carries(NoPost.body) /\ NoPost.at # "checked"
        /\ Carries([NoPost EXCEPT !.at = "refused"].body) /\ [NoPost EXCEPT !.at = "refused"].at # "checked"
    BY Values DEF NoPost
  <2>. QED
    BY <2>1 DEF Restart
<1>. QED
  BY <1>1, <1>2, <1>3 DEF IInv, ConfirmHeld, Carries, Restart

-----------------------------------------------------------------------------
(* What was read of the devices. *)

(* Nothing is aimed anywhere by a delivery that has not read the devices.    *)
LEMMA UnreadAimed == ASSUME TypeOK, NEW d \in Devices PROVE Aimed(NoPost.rows[d], d)
<1>1. NoPost.rows[d].revision = 0
  BY DEF NoPost, NoRows, NoAim
<1>2. fleet[d].revision \in Nat \ {0}
  BY Values DEF TypeOK, Revisions
<1>. QED
  BY <1>1, <1>2 DEF Aimed

LEMMA AimsFrame ==
    ASSUME IInv, UNCHANGED <<fleet, overtaken>>,
           \A r \in Deliveries, d \in Devices : Aimed(posts'[r].rows[d], d),
           \A j \in Job : jobs'[j].rows = jobs[j].rows
    PROVE  AimsHeld'
  BY DEF IInv, AimsHeld, Aimed

LEMMA EditedAims == ASSUME IInv, DeviceChanges PROVE AimsHeld'
<1>1. PICK e \in Devices : DeviceHeard(e) \/ DeviceEdited(e)
  BY DEF DeviceChanges
<1>2. UNCHANGED <<posts, jobs>>
  BY DEF DeviceChanges
<1>3. fleet \in [Devices -> Device] /\ overtaken \subseteq Devices
  BY DEF IInv, TypeOK, Device, Targets
<1>4. ASSUME NEW row \in Aims, NEW d \in Devices, Aimed(row, d) PROVE Aimed(row, d)'
  <2>1. CASE DeviceHeard(e)
    <3>1. /\ fleet'[d].revision = fleet[d].revision /\ fleet'[d].target = fleet[d].target
          /\ overtaken' = overtaken
      BY <1>3, <2>1 DEF DeviceHeard, Device
    <3>. QED
      BY <1>4, <3>1 DEF Aimed
  <2>2. CASE DeviceEdited(e)
    <3>1. PICK read \in Revisions, state \in States, target \in Endpoints :
             /\ fleet' = [fleet EXCEPT ![e] = [state |-> state, revision |-> read + 1, target |-> target]]
             /\ overtaken' = IF read = fleet[e].revision THEN overtaken ELSE overtaken \cup {e}
      BY <2>2 DEF DeviceEdited
    <3>2. CASE d # e
      BY <1>3, <1>4, <3>1, <3>2 DEF Aimed
    <3>3. CASE d = e /\ read # fleet[e].revision
      BY <3>1, <3>3 DEF Aimed
    <3>4. CASE d = e /\ read = fleet[e].revision
      <4>1. fleet'[d].revision = fleet[d].revision + 1 /\ overtaken' = overtaken
        BY <1>3, <3>1, <3>4
      <4>2. fleet[d].revision \in Nat /\ row.revision \in Nat
        BY <1>3, Values DEF Device, Revisions, Aims
      <4>. QED
        BY <1>4, <4>1, <4>2 DEF Aimed
    <3>. QED
      BY <3>2, <3>3, <3>4
  <2>. QED
    BY <1>1, <2>1, <2>2
<1>5. /\ \A r \in Deliveries, d \in Devices : posts[r].rows[d] \in Aims
      /\ \A j \in Job, d \in Devices : jobs[j].rows[d] \in Aims
  BY PostType, JobType DEF IInv, Delivery, JobRow
<1>. QED
  BY <1>2, <1>4, <1>5 DEF IInv, AimsHeld, Aimed

LEMMA PagesAims == ASSUME IInv, Page PROVE AimsHeld'
<1>1. UNCHANGED <<fleet, overtaken, jobs>>
  BY DEF Page, ChooseCommand, Select, Review, Cancel, RunCommand, ConfirmAndRun, serverside
<1>2. \A r \in Deliveries : posts'[r].rows = NoPost.rows \/ posts'[r] = posts[r]
  <2>1. CASE RunCommand \/ ConfirmAndRun
    <3>1. \E body : Post(body)
      BY <2>1 DEF RunCommand, ConfirmAndRun
    <3>2. PICK body : Post(body)
      BY <3>1
    <3>3. [NoPost EXCEPT !.at = "sent", !.body = body].rows = NoPost.rows
      BY DEF NoPost
    <3>. QED
      BY <3>2, <3>3 DEF Post
  <2>2. CASE ~(RunCommand \/ ConfirmAndRun)
    BY <2>2 DEF Page, ChooseCommand, Select, Review, Cancel, serverside
  <2>. QED
    BY <2>1, <2>2
<1>3. \A r \in Deliveries, d \in Devices : Aimed(posts'[r].rows[d], d)
  BY <1>2, UnreadAimed DEF IInv, AimsHeld
<1>. QED
  BY <1>1, <1>3, AimsFrame

LEMMA RequestAims == ASSUME IInv, NEW r \in Deliveries, Request(r) PROVE AimsHeld'
<1>1. UNCHANGED <<fleet, overtaken>>
  BY DEF Request, Validate, Check, Store, Forget
<1>2. posts \in [Deliveries -> Delivery]
  BY DEF IInv, TypeOK, Delivery
<1>3. \/ posts'[r].rows = NoPost.rows \/ posts'[r].rows = posts[r].rows
      \/ \A d \in Devices : posts'[r].rows[d] \in {Aim(d), NoPost.rows[d]}
  <2>1. /\ \A at : [NoPost EXCEPT !.at = at].rows = NoPost.rows
        /\ \A at : [posts[r] EXCEPT !.at = at].rows = posts[r].rows
    BY PostType DEF NoPost, Delivery, IInv
  <2>2. \A d \in Devices : NoPost.rows[d] = NoAim
    BY DEF NoPost, NoRows
  <2>3. CASE Validate(r)
    <3>. DEFINE rows == [d \in Devices |-> IF d \in posts[r].body.ids THEN Aim(d) ELSE NoAim]
    <3>1. \/ posts' = [posts EXCEPT ![r] = [posts[r] EXCEPT !.at = "validated", !.rows = rows]]
          \/ posts' = [posts EXCEPT ![r] = [NoPost EXCEPT !.at = "refused"]]
      BY <2>3 DEF Validate
    <3>2. \A d \in Devices : rows[d] \in {Aim(d), NoAim}
      OBVIOUS
    <3>. HIDE DEF rows
    <3>3. \/ posts'[r] = [posts[r] EXCEPT !.at = "validated", !.rows = rows]
          \/ posts'[r] = [NoPost EXCEPT !.at = "refused"]
      BY <1>2, <3>1
    <3>4. [posts[r] EXCEPT !.at = "validated", !.rows = rows].rows = rows
      BY PostType DEF Delivery, IInv
    <3>5. [NoPost EXCEPT !.at = "refused"].rows = NoPost.rows
      BY <2>1
    <3>6. posts'[r].rows = rows \/ posts'[r].rows = NoPost.rows
      BY <3>3, <3>4, <3>5
    <3>. QED
      BY <2>2, <3>2, <3>6
  <2>4. CASE Check(r)
    BY <1>2, <2>1, <2>4 DEF Check
  <2>5. CASE Store(r)
    <3>1. \/ posts'[r] = [NoPost EXCEPT !.at = "done"]
          \/ posts'[r] = [NoPost EXCEPT !.at = "refused"]
      BY <1>2, <2>5 DEF Store
    <3>. QED
      BY <2>1, <3>1
  <2>6. CASE Forget(r)
    BY <1>2, <2>6 DEF Forget
  <2>. QED
    BY <2>3, <2>4, <2>5, <2>6 DEF Request
<1>4. \A q \in Deliveries : q # r => posts'[q] = posts[q]
  BY <1>2 DEF Request, Validate, Check, Store, Forget
<1>5. \A d \in Devices : Aimed(Aim(d), d) /\ Aimed(NoPost.rows[d], d) /\ Aimed(posts[r].rows[d], d)
  <2>1. \A d \in Devices : Aimed(Aim(d), d)
    BY Values DEF IInv, TypeOK, Revisions, Aimed, Aim
  <2>. QED
    BY <2>1, UnreadAimed DEF IInv, AimsHeld
<1>6. \A q \in Deliveries, d \in Devices : Aimed(posts'[q].rows[d], d)
  BY <1>3, <1>4, <1>5 DEF IInv, AimsHeld
<1>7. \A j \in Job : jobs'[j].rows = jobs[j].rows \/ jobs'[j].rows = posts[r].rows
  <2>1. jobs \in [Job -> JobRow]
    BY DEF IInv, TypeOK, JobRow
  <2>2. CASE Store(r)
    <3>1. CASE jobs' = jobs
      BY <3>1
    <3>2. CASE jobs' # jobs
      <4>1. PICK j \in Job : jobs' = [jobs EXCEPT ![j] = [status |-> "queued", body |-> posts[r].body,
                                                         rows |-> posts[r].rows, told |-> NoReport]]
        BY <2>2, <3>2 DEF Store
      <4>2. /\ jobs'[j].rows = posts[r].rows
            /\ \A i \in Job : i # j => jobs'[i] = jobs[i]
        BY <2>1, <4>1
      <4>. QED
        BY <4>2
    <3>. QED
      BY <3>1, <3>2
  <2>3. CASE jobs' = jobs
    BY <2>3
  <2>. QED
    BY <2>2, <2>3 DEF Request, Validate, Check, Forget
<1>8. \A j \in Job, d \in Devices : Aimed(jobs'[j].rows[d], d)
  BY <1>5, <1>7 DEF IInv, AimsHeld
<1>. QED
  BY <1>1, <1>6, <1>8 DEF AimsHeld, Aimed

LEMMA RestartAims == ASSUME IInv, Restart PROVE AimsHeld'
<1>1. \A r \in Deliveries : posts'[r].rows = NoPost.rows
  BY DEF Restart, NoPost
<1>2. \A j \in Job : jobs'[j].rows = jobs[j].rows
  BY JobType DEF IInv, Restart, JobRow
<1>3. UNCHANGED <<fleet, overtaken>>
  BY DEF Restart
<1>. QED
  BY <1>1, <1>2, <1>3, UnreadAimed, AimsFrame DEF IInv

-----------------------------------------------------------------------------
(* The invariant, and what follows from it. *)

LEMMA InitInv == ASSUME Init PROVE IInv
<1>. USE DEF Init
<1>1. /\ \A j \in Job : /\ jobs[j].status = "none" /\ jobs[j].body = NoBody /\ jobs[j].told = NoReport
                        /\ runs[j] = NoRun
      /\ \A j \in Job : \A d : ~Got(j, d)
      /\ NoRun.at = "none" /\ NoBody.ids = {} /\ NoBody.command = "none" /\ NoBody.proof = 0
      /\ NoPost.at = "idle" /\ NoPost.body = NoBody
  BY DEF Got, NoRun, NoBody, NoPost, NoCommand
<1>2. TypeOK
  <2>1. \A j \in Job : jobs[j] \in JobRow /\ runs[j] \in Run
    BY Values DEF JobRow
  <2>2. jobs \in [Job -> JobRow] /\ runs \in [Job -> Run] /\ posts \in [Deliveries -> Delivery]
    BY <2>1, Values
  <2>3. fleet \in [Devices -> Device]
    BY OperationsAssumption DEF States, Revisions, Device
  <2>4. proofs \in [Proof -> ProofRow]
    BY DEF ProofRow, Targets
  <2>. QED
    BY <2>2, <2>3, <2>4 DEF TypeOK, JobRow, Run, Delivery, ProofRow, Roles, States, Targets, Device
<1>3. JobsHeld
  BY <1>1 DEF JobsHeld, Coroutine, Told, Alone, Reports
<1>4. SentHeld
  BY DEF SentHeld, AtMostOnce, SentAsQueued
<1>5. ConfirmHeld
  <2>1. Carries(NoBody) /\ NoBody.command \notin Destructive
    BY <1>1, Values DEF Carries
  <2>. QED
    BY <1>1, <2>1 DEF ConfirmHeld, ConfirmedOnce
<1>6. AimsHeld
  <2>1. \A d \in Devices : Aimed(NoPost.rows[d], d)
    BY <1>2, UnreadAimed
  <2>2. NoPost.rows = NoRows
    BY DEF NoPost
  <2>. QED
    BY <2>1, <2>2 DEF AimsHeld
<1>. QED
  BY <1>2, <1>3, <1>4, <1>5, <1>6 DEF IInv

LEMMA StepInv == ASSUME IInv, [Next]_vars PROVE IInv'
<1>1. CASE UNCHANGED vars
  <2>1. TypeOK'
    BY <1>1 DEF IInv, TypeOK, vars
  <2>2. (JobsHeld /\ SentHeld)'
    BY <1>1, JobsFrame DEF vars
  <2>3. ConfirmHeld'
    BY <1>1, ConfirmFrame DEF vars, IInv, ConfirmHeld
  <2>4. AimsHeld'
    BY <1>1 DEF vars, IInv, AimsHeld, Aimed
  <2>. QED
    BY <1>1, <2>1, <2>2, <2>3, <2>4 DEF IInv
<1>2. CASE Page
  <2>1. UNCHANGED <<jobs, runs, sent, overtaken>>
    BY <1>2 DEF Page, ChooseCommand, Select, Review, Cancel, RunCommand, ConfirmAndRun, serverside
  <2>. QED
    BY <1>2, <2>1, JobsFrame, PageTypes, PagesConfirm, PagesAims DEF IInv
<1>3. CASE Answers
  <2>1. UNCHANGED <<fleet, jobs, runs, posts, sent, overtaken>>
    BY <1>3 DEF Answers, RunFails, Queued, Hear, serverside
  <2>2. AimsHeld'
    BY <2>1 DEF IInv, AimsHeld, Aimed
  <2>. QED
    BY <1>3, <2>1, <2>2, JobsFrame, AnswerTypes, AnswersConfirm DEF IInv
<1>4. ASSUME NEW r \in Deliveries, Request(r) PROVE IInv'
  <2>1. (JobsHeld /\ SentHeld)'
    <3>1. CASE Store(r)
      BY <3>1, StoreJobs
    <3>2. CASE Validate(r) \/ Check(r) \/ Forget(r)
      BY <3>2, JobsFrame DEF Validate, Check, Forget
    <3>. QED
      BY <1>4, <3>1, <3>2 DEF Request
  <2>. QED
    BY <1>4, <2>1, RequestTypes, RequestConfirm, RequestAims DEF IInv
<1>5. ASSUME NEW j \in Job, Execute(j) PROVE IInv'
  <2>1. ConfirmHeld'
    BY <1>5, ExecuteFacts, ConfirmFrame DEF IInv, ConfirmHeld
  <2>2. AimsHeld'
    BY <1>5, ExecuteFacts, AimsFrame DEF IInv, AimsHeld, Aimed
  <2>. QED
    BY <1>5, <2>1, <2>2, ExecuteJobs DEF IInv
<1>6. CASE Restart
  BY <1>6, RestartTypes, RestartJobs, RestartConfirm, RestartAims DEF IInv
<1>7. CASE DeviceChanges \/ RoleChanges
  <2>1. UNCHANGED <<jobs, runs, sent, proofs, posts, page>>
    BY <1>7 DEF DeviceChanges, RoleChanges
  <2>2. ConfirmHeld'
    BY <2>1, ConfirmFrame DEF IInv, ConfirmHeld
  <2>3. overtaken \subseteq overtaken'
    BY <1>7 DEF DeviceChanges, DeviceHeard, DeviceEdited, RoleChanges
  <2>4. AimsHeld'
    BY <1>7, EditedAims DEF RoleChanges, IInv, AimsHeld, Aimed
  <2>. QED
    BY <1>7, <2>1, <2>2, <2>3, <2>4, JobsFrame, OthersTypes DEF IInv
<1>8. CASE ProofExpires
  <2>1. UNCHANGED <<fleet, jobs, runs, posts, sent, overtaken>>
    BY <1>8 DEF ProofExpires
  <2>2. AimsHeld'
    BY <2>1 DEF IInv, AimsHeld, Aimed
  <2>. QED
    BY <1>8, <2>1, <2>2, JobsFrame, OthersTypes, ExpiresConfirm DEF IInv
<1>. QED
  BY <1>1, <1>2, <1>3, <1>4, <1>5, <1>6, <1>7, <1>8 DEF Next

THEOREM Inductive == Spec => []IInv
<1>1. Init => IInv
  BY InitInv
<1>2. IInv /\ [Next]_vars => IInv'
  BY StepInv
<1>. QED
  BY <1>1, <1>2, PTL DEF Spec

(* The state of the page, the server and the coroutines is well-formed,      *)
(* whatever requests are repeated and wherever the server restarts.          *)
THEOREM TypeCorrect == Spec => []TypeOK
<1>1. IInv => TypeOK
  BY DEF IInv
<1>. QED
  BY <1>1, Inductive, PTL

(* No job sends its command to a device twice: execute_job takes each target *)
(* off its list before it is sent to, and no restart starts a job again.     *)
THEOREM SentAtMostOnce == Spec => []AtMostOnce
<1>1. IInv => AtMostOnce
  BY DEF IInv, SentHeld
<1>. QED
  BY <1>1, Inductive, PTL

(* A command goes only to the targets of its job, and to the endpoint a      *)
(* target had when the operation was accepted, unless one edit of the target *)
(* has lost the revision of another.                                         *)
THEOREM SentAsAccepted == Spec => []SentAsQueued
<1>1. IInv => SentAsQueued
  BY DEF IInv, SentHeld
<1>. QED
  BY <1>1, Inductive, PTL

(* One confirmation admits one destructive operation, the one it was issued  *)
(* for.                                                                      *)
THEOREM ConfirmedAlways == Spec => []ConfirmedOnce
<1>1. IInv => ConfirmedOnce
  BY DEF IInv, ConfirmHeld
<1>. QED
  BY <1>1, Inductive, PTL

LEMMA ReportsFollow == ASSUME IInv PROVE ReportsTruth
<1>1. OverIsOver
  BY DEF IInv, JobsHeld, Coroutine, OverIsOver
<1>2. \A j \in Job : DOMAIN Shown(j) = jobs[j].body.ids /\ \A d \in DOMAIN Shown(j) : Shown(j)[d] = jobs[j].told[d]
  BY DEF Shown
<1>3. ASSUME NEW j \in Job, NEW d \in DOMAIN Shown(j)
      PROVE  /\ Shown(j)[d] = "not sent" => ~Got(j, d)
             /\ Shown(j)[d] = "output" => Got(j, d)
             /\ Shown(j)[d] = "waiting" => jobs[j].status # "ended"
  BY <1>2, <1>3 DEF IInv, JobsHeld, Told
<1>4. ASSUME NEW j \in Job, NEW d \in Unreported(j), NEW e \in Unreported(j) PROVE d = e
  BY <1>2, <1>4 DEF IInv, JobsHeld, Alone, Unreported
<1>. QED
  BY <1>1, <1>3, <1>4 DEF ReportsTruth

(* What Recent operations shows of a target is true, whatever cut the job    *)
(* short, and at most one target that is left open has got the command.      *)
THEOREM ReportsAlwaysTrue == Spec => []ReportsTruth
<1>1. IInv => ReportsTruth
  BY ReportsFollow
<1>. QED
  BY <1>1, Inductive, PTL
=============================================================================
