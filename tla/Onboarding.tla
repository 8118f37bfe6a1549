------------------------------ MODULE Onboarding ------------------------------
(***************************************************************************)
(* Adding a device: the dialog of Onboarding.tsx, the discovery jobs of    *)
(* api.py and the three things that also write those jobs: their probes,   *)
(* the maintenance pass that expires them, and a restart of the server.    *)
(* A job seals the SSH credentials; a first probe reads the host key, the  *)
(* owner confirms its fingerprint, a second probe connects with that key   *)
(* pinned, and saving turns the job into a device.                         *)
(*                                                                         *)
(* Each transaction reads the job, decides, and writes the columns it      *)
(* changed: no lock or version protects a job, except that saves run under *)
(* setup_lock.  So a read and the write that follows it are two steps.     *)
(* "dialog" is this browser; "other" is the same administrator in another  *)
(* tab or through the API.                                                 *)
(***************************************************************************)
EXTENDS Naturals, Sequences

CONSTANTS
    Keys,           \* host keys (with their fingerprints) a host may show
    NoKey,          \* no host key is known yet
    MaxJobs,        \* discoveries that may be started
    MaxProbes,      \* probes that may run together
    Callers         \* who calls the API: "dialog", and possibly "other"

ASSUME OnboardingAssumption ==
    /\ NoKey \notin Keys
    /\ MaxJobs \in Nat /\ MaxProbes \in Nat
    /\ "dialog" \in Callers /\ "free" \notin Callers

VARIABLES
    jobs,           \* the rows of the jobs table
    probes,         \* the probe coroutines, in MaxProbes slots
    calls,          \* the API call each caller waits for
    lock,           \* who holds setup_lock, or "free"
    sweep,          \* what the maintenance pass has read of the job it expires
    dialog,         \* the dialog: open, the job it shows, a polled answer
    orphan,         \* the dialog's call belongs to a dialog that was closed
    saved,          \* the host keys of the devices made of each job
    trusted         \* the fingerprints each job's owner has confirmed

vars == <<jobs, probes, calls, lock, sweep, dialog, orphan, saved, trusted>>

Job == 1 .. MaxJobs
Slot == 1 .. MaxProbes
Statuses == {"none", "queued", "running", "awaiting_trust", "complete", "failed",
             "expired", "interrupted", "saved"}
Known == Keys \cup {NoKey}
Row == [status : Statuses, secret : BOOLEAN, key : Known, old : BOOLEAN]
\* The statuses of a job that is under way.
Under(status) == status \in {"queued", "running"}

NoRow == [status |-> "none", secret |-> FALSE, key |-> NoKey, old |-> FALSE]

NoProbe == [job |-> 0, initial |-> FALSE, at |-> "free", pinned |-> NoKey]
NoCall == [kind |-> "none", job |-> 0, key |-> NoKey, at |-> "idle"]
NoSweep == [job |-> 0, status |-> "none"]
NoView == [job |-> 0, status |-> "none", key |-> NoKey]
Closed == [open |-> FALSE, view |-> NoView, poll |-> NoView]

View == [job : 0 .. MaxJobs, status : Statuses, key : Known]

TypeOK ==
    /\ jobs \in [Job -> Row]
    /\ probes \in [Slot -> [job : 0 .. MaxJobs, initial : BOOLEAN, pinned : Known,
                            at : {"free", "spawned", "opening", "working", "storing",
                                  "failing"}]]
    /\ calls \in [Callers -> [kind : {"none", "start", "trust", "save"},
                              job : 0 .. MaxJobs, key : Known,
                              at : {"idle", "sent", "read", "done", "refused"}]]
    /\ lock \in Callers \cup {"free"}
    /\ sweep \in [job : 0 .. MaxJobs, status : Statuses]
    /\ dialog \in [open : BOOLEAN, view : View, poll : View]
    /\ orphan \in BOOLEAN
    /\ saved \in [Job -> Seq(Known)]
    /\ trusted \in [Job -> SUBSET Keys]

Init ==
    /\ jobs = [j \in Job |-> NoRow]
    /\ probes = [p \in Slot |-> NoProbe]
    /\ calls = [c \in Callers |-> NoCall]
    /\ lock = "free" /\ sweep = NoSweep /\ dialog = Closed /\ orphan = FALSE
    /\ saved = [j \in Job |-> <<>>]
    /\ trusted = [j \in Job |-> {}]

-----------------------------------------------------------------------------
(* Probes.                                                                 *)

FreeSlots == {p \in Slot : probes[p].at = "free"}

\* A probe is spawned in a free slot (MaxProbes bounds them).
FreeSlot == CHOOSE p \in Slot : probes[p].at = "free"
Spawned(j, initial) ==
    [probes EXCEPT ![FreeSlot] =
        [job |-> j, initial |-> initial, at |-> "spawned", pinned |-> NoKey]]

Goes(p, to) == probes' = [probes EXCEPT ![p].at = to]

\* The coroutine is over: its slot is free.
Stops(p) == probes' = [probes EXCEPT ![p] = NoProbe]

\* The probe opens the sealed credentials and notes the pinned key; a secret
\* that is gone cannot be opened.
Begin(p) ==
    /\ probes[p].at = "spawned"
    /\ LET row == jobs[probes[p].job] IN
       IF row.secret
       THEN probes' = [probes EXCEPT ![p] = [@ EXCEPT !.at = "opening", !.pinned = row.key]]
       ELSE Goes(p, "failing")
    /\ UNCHANGED <<jobs, calls, lock, sweep, dialog, orphan, saved, trusted>>

\* ... and commits "running".
Run(p) ==
    /\ probes[p].at = "opening"
    /\ jobs' = [jobs EXCEPT ![probes[p].job].status = "running"]
    /\ Goes(p, "working")
    /\ UNCHANGED <<calls, lock, sweep, dialog, orphan, saved, trusted>>

\* The first probe stores the key the host shows, whatever became of the job.
HostKey(p) ==
    /\ probes[p].at = "working" /\ probes[p].initial
    /\ \E k \in Keys :
          jobs' = [jobs EXCEPT ![probes[p].job] =
                      [@ EXCEPT !.status = "awaiting_trust", !.key = k]]
    /\ Stops(p)
    /\ UNCHANGED <<calls, lock, sweep, dialog, orphan, saved, trusted>>

\* The second one has connected and read the hardware; it looks at the status and
\* copies the result found so far ...
Discovered(p) ==
    /\ probes[p].at = "working" /\ ~probes[p].initial
    /\ LET row == jobs[probes[p].job] IN
       IF row.status = "expired" THEN Stops(p)
       ELSE probes' = [probes EXCEPT ![p] = [@ EXCEPT !.at = "storing", !.pinned = row.key]]
    /\ UNCHANGED <<jobs, calls, lock, sweep, dialog, orphan, saved, trusted>>

\* ... and commits the whole result, the key it had copied included.
Complete(p) ==
    /\ probes[p].at = "storing"
    /\ jobs' = [jobs EXCEPT ![probes[p].job] =
                   [@ EXCEPT !.status = "complete", !.key = probes[p].pinned]]
    /\ Stops(p)
    /\ UNCHANGED <<calls, lock, sweep, dialog, orphan, saved, trusted>>

\* No host key, no connection, no answer in time ...
Breaks(p) ==
    /\ probes[p].at = "working"
    /\ Goes(p, "failing")
    /\ UNCHANGED <<jobs, calls, lock, sweep, dialog, orphan, saved, trusted>>

\* ... fails the job: the result is replaced and the credentials forgotten.
Fail(p) ==
    /\ probes[p].at = "failing"
    /\ jobs' = [jobs EXCEPT ![probes[p].job] =
                   [@ EXCEPT !.status = "failed", !.secret = FALSE, !.key = NoKey]]
    /\ Stops(p)
    /\ UNCHANGED <<calls, lock, sweep, dialog, orphan, saved, trusted>>

Probe(p) ==
    \/ Begin(p) \/ Run(p) \/ HostKey(p) \/ Discovered(p) \/ Complete(p) \/ Breaks(p)
    \/ Fail(p)

-----------------------------------------------------------------------------
(* The API.                                                                *)

Ends(c, how) == calls' = [calls EXCEPT ![c].at = how]

\* POST /discoveries: the job is committed, then its probe spawned.
StartDiscovery(c) ==
    /\ calls[c].kind = "start" /\ calls[c].at = "sent"
    /\ FreeSlots # {}
    /\ \E j \in Job :
          /\ jobs[j].status = "none"
          /\ \A i \in Job : i < j => jobs[i].status # "none"
          /\ jobs' = [jobs EXCEPT ![j] = [NoRow EXCEPT !.status = "queued", !.secret = TRUE]]
          /\ probes' = Spawned(j, TRUE)
          /\ calls' = [calls EXCEPT ![c] = [@ EXCEPT !.job = j, !.at = "done"]]
    /\ UNCHANGED <<lock, sweep, dialog, orphan, saved, trusted>>

\* What trust checks: the job waits for it, is under 15 minutes old, and the
\* fingerprint is the one of the host key found.
Trustable(row, key) == row.status = "awaiting_trust" /\ ~row.old /\ row.key = key

ReadTrust(c) ==
    /\ calls[c].kind = "trust" /\ calls[c].at = "sent"
    /\ Ends(c, IF Trustable(jobs[calls[c].job], calls[c].key) THEN "read" ELSE "refused")
    /\ UNCHANGED <<jobs, probes, lock, sweep, dialog, orphan, saved, trusted>>

\* The commit of trust, and the second probe.
Trust(c) ==
    /\ calls[c].kind = "trust" /\ calls[c].at = "read"
    /\ FreeSlots # {}
    /\ jobs' = [jobs EXCEPT ![calls[c].job].status = "running"]
    /\ trusted' = [trusted EXCEPT ![calls[c].job] = @ \cup {calls[c].key}]
    /\ probes' = Spawned(calls[c].job, FALSE)
    /\ Ends(c, "done")
    /\ UNCHANGED <<lock, sweep, dialog, orphan, saved>>

\* The status alone lets a job be saved.
Savable_sealed(row) == row.status = "complete" /\ ~row.old

\* What save_device checks: a completed test, still sealed, under 15 minutes old.
Savable(row) == row.status = "complete" /\ row.secret /\ ~row.old

\* POST /devices enters setup_lock and reads the job.
ReadSave(c) ==
    /\ calls[c].kind = "save" /\ calls[c].at = "sent"
    /\ lock = "free"
    /\ IF Savable(jobs[calls[c].job])
       THEN /\ lock' = c
            /\ calls' = [calls EXCEPT ![c] =
                            [@ EXCEPT !.at = "read", !.key = jobs[calls[c].job].key]]
       ELSE lock' = lock /\ Ends(c, "refused")
    /\ UNCHANGED <<jobs, probes, sweep, dialog, orphan, saved, trusted>>

\* The device, its services and the job are committed together.
Save(c) ==
    /\ calls[c].kind = "save" /\ calls[c].at = "read"
    /\ LET j == calls[c].job IN
       /\ saved' = [saved EXCEPT ![j] = Append(@, calls[c].key)]
       /\ jobs' = [jobs EXCEPT ![j] = [@ EXCEPT !.status = "saved", !.secret = FALSE]]
    /\ lock' = "free"
    /\ Ends(c, "done")
    /\ UNCHANGED <<probes, sweep, dialog, orphan, trusted>>

Serve(c) == StartDiscovery(c) \/ ReadTrust(c) \/ Trust(c) \/ ReadSave(c) \/ Save(c)

-----------------------------------------------------------------------------
(* Maintenance and restart.                                                *)

\* Fifteen minutes have passed since the job was started.
Ages(j) ==
    /\ jobs[j].status # "none" /\ ~jobs[j].old
    /\ jobs' = [jobs EXCEPT ![j].old = TRUE]
    /\ UNCHANGED <<probes, calls, lock, sweep, dialog, orphan, saved, trusted>>

\* Only a test that never ended is cleaned up.
ReadExpired_unfinished(j) ==
    /\ sweep = NoSweep
    /\ jobs[j].old /\ jobs[j].secret /\ Under(jobs[j].status)
    /\ sweep' = [job |-> j, status |-> jobs[j].status]
    /\ UNCHANGED <<jobs, probes, calls, lock, dialog, orphan, saved, trusted>>

\* The maintenance pass reads an old job that is still sealed ...
ReadExpired(j) ==
    /\ sweep = NoSweep
    /\ jobs[j].old /\ jobs[j].secret
    /\ sweep' = [job |-> j, status |-> jobs[j].status]
    /\ UNCHANGED <<jobs, probes, calls, lock, dialog, orphan, saved, trusted>>

\* ... and commits: unsealed, and expired unless it was found ended.
Expire ==
    /\ sweep # NoSweep
    /\ LET j == sweep.job IN
       jobs' = [jobs EXCEPT ![j] =
                   [jobs[j] EXCEPT !.secret = FALSE,
                                   !.status = IF sweep.status \in {"queued", "awaiting_trust",
                                                                   "running", "complete"}
                                              THEN "expired" ELSE jobs[j].status]]
    /\ sweep' = NoSweep
    /\ UNCHANGED <<probes, calls, lock, dialog, orphan, saved, trusted>>

\* A restart leaves the jobs as they are.
Restart_silent ==
    /\ probes' = [p \in Slot |-> NoProbe]
    /\ calls' = [c \in Callers |-> IF calls[c].at \in {"sent", "read"}
                                   THEN [calls[c] EXCEPT !.at = "refused"] ELSE calls[c]]
    /\ lock' = "free" /\ sweep' = NoSweep
    /\ UNCHANGED <<jobs, dialog, orphan, saved, trusted>>

\* The server restarts: coroutines and requests are gone, and the jobs it finds
\* under way are interrupted.
Restart ==
    /\ jobs' = [j \in Job |->
                  IF Under(jobs[j].status)
                  THEN [jobs[j] EXCEPT !.status = "interrupted", !.secret = FALSE]
                  ELSE jobs[j]]
    /\ probes' = [p \in Slot |-> NoProbe]
    /\ calls' = [c \in Callers |-> IF calls[c].at \in {"sent", "read"}
                                   THEN [calls[c] EXCEPT !.at = "refused"] ELSE calls[c]]
    /\ lock' = "free" /\ sweep' = NoSweep
    /\ UNCHANGED <<dialog, orphan, saved, trusted>>

-----------------------------------------------------------------------------
(* The dialog.                                                             *)

Show(view) == dialog' = [dialog EXCEPT !.view = view, !.poll = NoView]
Busy == calls["dialog"] # NoCall
Server == <<jobs, probes, lock, sweep, saved, trusted>>

\* Add device (or Update connection) opens the dialog.
OpenDialog ==
    /\ ~dialog.open
    /\ dialog' = [Closed EXCEPT !.open = TRUE]
    /\ UNCHANGED <<Server, calls, orphan>>

\* Cancel, the close button or Escape, at any moment: a call under way goes on.
CloseDialog ==
    /\ dialog.open
    /\ dialog' = Closed
    /\ orphan' = Busy
    /\ UNCHANGED <<Server, calls>>

\* A button of the dialog that calls the API; the dialog is busy meanwhile.
Press(call) ==
    /\ dialog.open /\ ~Busy
    /\ calls' = [calls EXCEPT !["dialog"] = call]
    /\ UNCHANGED <<Server, dialog, orphan>>

Test == dialog.view = NoView /\ Press([NoCall EXCEPT !.kind = "start", !.at = "sent"])

TrustHost ==
    /\ dialog.view.status = "awaiting_trust"
    /\ Press([kind |-> "trust", job |-> dialog.view.job, key |-> dialog.view.key, at |-> "sent"])

SaveDevice ==
    /\ dialog.view.status = "complete"
    /\ Press([kind |-> "save", job |-> dialog.view.job, key |-> NoKey, at |-> "sent"])

\* Back, or Try again after a failed, expired or interrupted test.
Back ==
    /\ dialog.view.status \in {"awaiting_trust", "failed", "expired", "interrupted"}
    /\ Show(NoView)
    /\ UNCHANGED <<Server, calls, orphan>>

\* The call is over: its handler goes on.  A test shows the new job; a trust
\* shows it running, unless the job was left; a save closes the dialog, even
\* one that was opened since, unless the reload before that fails; a refusal is
\* a message.
Resume ==
    /\ calls["dialog"].at \in {"done", "refused"}
    /\ LET call == calls["dialog"]
           did(kind) == call.at = "done" /\ call.kind = kind
       IN IF did("save") THEN dialog' \in {Closed, dialog}
          ELSE IF did("start") /\ ~orphan
          THEN Show([job |-> call.job, status |-> "queued", key |-> NoKey])
          ELSE IF did("trust") /\ ~orphan /\ dialog.view # NoView
          THEN Show([dialog.view EXCEPT !.status = "running"])
          ELSE dialog' = dialog
    /\ calls' = [calls EXCEPT !["dialog"] = NoCall]
    /\ orphan' = FALSE
    /\ UNCHANGED Server

\* The 1 s timer, while the job shown is queued or running.
Poll ==
    /\ dialog.open /\ Under(dialog.view.status)
    /\ dialog.poll = NoView
    /\ LET j == dialog.view.job IN
       dialog' = [dialog EXCEPT !.poll =
                    [job |-> j, status |-> jobs[j].status, key |-> jobs[j].key]]
    /\ UNCHANGED <<Server, calls, orphan>>

\* An answer that belongs to a view the dialog has left is dropped (the effect
\* is keyed by job and status; Show takes the poll with it).
Polled ==
    /\ dialog.poll # NoView
    /\ Show(dialog.poll)
    /\ UNCHANGED <<Server, calls, orphan>>

\* The poll fails: a message, and the next one is asked.
PollFails ==
    /\ dialog.poll # NoView
    /\ dialog' = [dialog EXCEPT !.poll = NoView]
    /\ UNCHANGED <<Server, calls, orphan>>

\* Another tab, or a script, calls for any job and any fingerprint.
OtherCalls(c) ==
    /\ c # "dialog" /\ calls[c] = NoCall
    /\ \E kind \in {"trust", "save"}, j \in Job, k \in Keys :
          /\ jobs[j].status # "none"
          /\ calls' = [calls EXCEPT ![c] = [kind |-> kind, job |-> j, at |-> "sent",
                                            key |-> IF kind = "trust" THEN k ELSE NoKey]]
    /\ UNCHANGED <<Server, dialog, orphan>>

OtherAnswered(c) ==
    /\ c # "dialog" /\ calls[c].at \in {"done", "refused"}
    /\ calls' = [calls EXCEPT ![c] = NoCall]
    /\ UNCHANGED <<Server, dialog, orphan>>

Person == OpenDialog \/ CloseDialog \/ Test \/ TrustHost \/ SaveDevice \/ Back

Next ==
    \/ Person \/ Resume \/ Poll \/ Polled \/ PollFails
    \/ \E c \in Callers : Serve(c) \/ OtherCalls(c) \/ OtherAnswered(c)
    \/ \E p \in Slot : Probe(p)
    \/ \E j \in Job : Ages(j) \/ ReadExpired(j)
    \/ Expire \/ Restart

Spec == Init /\ [][Next]_vars

\* Coroutines, requests and the maintenance pass get on; not every restart
\* comes in the middle of the same transaction, and not every poll fails.
\* People owe nothing.
FairSpec ==
    /\ Spec
    /\ \A p \in Slot : WF_vars(Probe(p))
    /\ WF_vars(Poll) /\ SF_vars(Polled)
    /\ \A j \in Job : WF_vars(Ages(j)) /\ SF_vars(ReadExpired(j))
    /\ SF_vars(Expire)

-----------------------------------------------------------------------------
(* Properties.                                                             *)

SavedOnce == \A j \in Job : Len(saved[j]) <= 1

SavedIsTrusted == \A j \in Job : \A i \in DOMAIN saved[j] : saved[j][i] \in trusted[j]

\* Two trusts of one job start two probes (api.py:515), and the later one may
\* complete a job that was saved already; still no test makes two devices, and
\* the one it makes has a host key whose fingerprint was confirmed for that very
\* test (api.py:523), whoever calls and whatever the probes overwrite.
SavedAsTrusted == SavedOnce /\ SavedIsTrusted

\* The credentials of an abandoned test do not stay sealed in the database.
SecretsForgotten == \A j \in Job : jobs[j].secret ~> ~jobs[j].secret

\* What the dialog shows a spinner for, without a button to press.
Spins == Under(dialog.view.status) \/ dialog.view.status = "saved"

\* The dialog saves from "complete", which it does not poll: if a poll finds its
\* test saved, another caller has saved it.
SavedElsewhere == dialog.view.status = "saved"

\* The dialog does not wait for ever: a test it shows under way leads to something
\* the user can act on, also when the server restarts, expires the job or runs two
\* probes for it.  The exception is a test that another caller has saved: there
\* the spinner stays (Onboarding.tsx:337) and nothing polls any more (:39), until
\* the user closes the dialog.
DialogMovesOn == Under(dialog.view.status) ~> ~Spins \/ SavedElsewhere
=============================================================================
