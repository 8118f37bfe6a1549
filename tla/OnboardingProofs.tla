--------------------------- MODULE OnboardingProofs ---------------------------
(***************************************************************************)
(* Discovery for any host keys, jobs, probes and callers.  The credentials *)
(* are what holds it together: once they are gone no overwritten status    *)
(* makes a job savable again, and while they are there the key of a job    *)
(* that was trusted is the one that was confirmed.                         *)
(***************************************************************************)
EXTENDS Onboarding, TLAPS

ProbeRow == [job : 0 .. MaxJobs, initial : BOOLEAN, pinned : Known,
             at : {"free", "spawned", "opening", "working", "storing", "failing"}]
Call == [kind : {"none", "start", "trust", "save"}, job : 0 .. MaxJobs, key : Known,
         at : {"idle", "sent", "read", "done", "refused"}]

(* A first probe is alone with its job and nobody has confirmed anything     *)
(* yet; a second one pins a confirmed key, as long as there are credentials, *)
(* and the key it has copied is still the key of the job.                    *)
ProbeHeld(p) ==
    probes[p].at # "free" =>
        LET j == probes[p].job
        IN /\ j \in Job /\ jobs[j].status # "none"
           /\ probes[p].initial =>
                 /\ probes[p].at # "storing"
                 /\ jobs[j].status \notin {"awaiting_trust", "complete"}
                 /\ \A q \in Slot \ {p} : probes[q].at # "free" => probes[q].job # j
           /\ ~probes[p].initial /\ jobs[j].secret => jobs[j].key \in trusted[j]
           /\ probes[p].at = "storing" /\ jobs[j].secret => jobs[j].key = probes[p].pinned

(* A completed test that is still sealed has a confirmed key; one that was   *)
(* saved is not sealed.                                                      *)
JobHeld(j) ==
    LET row == jobs[j]
    IN /\ row.status = "none" => ~row.secret
       /\ row.status = "awaiting_trust" => row.key \in Keys
       /\ row.status = "complete" /\ row.secret => row.key \in trusted[j]
       /\ \/ saved[j] = <<>>
          \/ row.status # "none" /\ ~row.secret /\ \E k \in trusted[j] : saved[j] = <<k>>

(* What a call has found in the job it read.                                 *)
CallHeld(c) ==
    calls[c].at = "read" =>
        LET j == calls[c].job
        IN /\ j \in Job /\ calls[c].kind \in {"trust", "save"}
           /\ jobs[j].status # "none"
           /\ \A p \in Slot : probes[p].at # "free" /\ probes[p].job = j => ~probes[p].initial
           /\ calls[c].kind = "trust" => /\ calls[c].key \in Keys
                                         /\ jobs[j].secret => jobs[j].key = calls[c].key
           /\ calls[c].kind = "save" => /\ lock = c
                                        /\ calls[c].key \in trusted[j] /\ saved[j] = <<>>

Held ==
    /\ \A p \in Slot : ProbeHeld(p)
    /\ \A j \in Job : JobHeld(j)
    /\ \A c \in Callers : CallHeld(c)

IInv == TypeOK /\ Held

-----------------------------------------------------------------------------
(* Types. *)

LEMMA Values ==
    /\ NoRow \in Row /\ NoProbe \in ProbeRow /\ NoCall \in Call /\ NoView \in View
    /\ NoProbe.at = "free" /\ MaxJobs \in Nat
    /\ \A c \in Callers : c # "free"
    /\ "dialog" \in Callers /\ NoKey \in Known /\ Keys \subseteq Known
  BY OnboardingAssumption DEF NoRow, Row, Statuses, Known, NoProbe, ProbeRow, NoCall, Call, NoView, View

LEMMA RowType ==
    ASSUME TypeOK, NEW j
    PROVE  /\ j \in Job => jobs[j] \in Row
           /\ \A r \in Row : jobs' = [jobs EXCEPT ![j] = r] => jobs' \in [Job -> Row]
<1>1. jobs \in [Job -> Row]
  BY DEF TypeOK
<1>. QED
  BY <1>1

LEMMA SlotType ==
    ASSUME TypeOK, NEW p
    PROVE  /\ p \in Slot => probes[p] \in ProbeRow
           /\ \A r \in ProbeRow : probes' = [probes EXCEPT ![p] = r] => probes' \in [Slot -> ProbeRow]
<1>1. probes \in [Slot -> ProbeRow]
  BY DEF TypeOK, ProbeRow
<1>. QED
  BY <1>1

LEMMA CallType ==
    ASSUME TypeOK, NEW c \in Callers
    PROVE  /\ calls[c] \in Call
           /\ \A r \in Call : calls' = [calls EXCEPT ![c] = r] => calls' \in [Callers -> Call]
<1>1. calls \in [Callers -> Call]
  BY DEF TypeOK, Call
<1>. QED
  BY <1>1

LEMMA GoesType ==
    ASSUME TypeOK, NEW p \in Slot, NEW to \in {"opening", "working", "storing", "failing"}, Goes(p, to)
    PROVE  probes' \in [Slot -> ProbeRow]
<1>1. [probes[p] EXCEPT !.at = to] \in ProbeRow
  BY SlotType DEF ProbeRow
<1>2. probes' = [probes EXCEPT ![p] = [probes[p] EXCEPT !.at = to]]
  BY DEF Goes
<1>. QED
  BY <1>1, <1>2, SlotType

LEMMA StopsType == ASSUME TypeOK, NEW p \in Slot, Stops(p) PROVE probes' \in [Slot -> ProbeRow]
  BY SlotType, Values DEF Stops

LEMMA EndsType ==
    ASSUME TypeOK, NEW c \in Callers, NEW how \in {"read", "done", "refused"}, Ends(c, how)
    PROVE  calls' \in [Callers -> Call]
<1>1. [calls[c] EXCEPT !.at = how] \in Call
  BY CallType DEF Call
<1>2. calls' = [calls EXCEPT ![c] = [calls[c] EXCEPT !.at = how]]
  BY DEF Ends
<1>. QED
  BY <1>1, <1>2, CallType

(* Any change of a row's status, secret and key.                             *)
LEMMA RowChanges ==
    ASSUME TypeOK, NEW j \in Job, NEW status \in Statuses, NEW secret \in BOOLEAN, NEW key \in Known
    PROVE  /\ [jobs[j] EXCEPT !.status = status] \in Row
           /\ [jobs[j] EXCEPT !.old = TRUE] \in Row
           /\ [jobs[j] EXCEPT !.status = status, !.secret = secret] \in Row
           /\ [jobs[j] EXCEPT !.secret = secret, !.status = status] \in Row
           /\ [jobs[j] EXCEPT !.status = status, !.key = key] \in Row
           /\ [jobs[j] EXCEPT !.status = status, !.secret = secret, !.key = key] \in Row
  BY RowType DEF Row

LEMMA FreeSlotIsFree == ASSUME FreeSlots # {} PROVE FreeSlot \in Slot /\ probes[FreeSlot].at = "free"
<1>1. \E p \in Slot : probes[p].at = "free"
  BY DEF FreeSlots
<1>. QED
  BY <1>1 DEF FreeSlot

LEMMA SpawnedType ==
    ASSUME TypeOK, FreeSlots # {}, NEW j \in Job, NEW initial \in BOOLEAN, probes' = Spawned(j, initial)
    PROVE  probes' \in [Slot -> ProbeRow]
<1>1. [job |-> j, initial |-> initial, at |-> "spawned", pinned |-> NoKey] \in ProbeRow
  BY Values DEF ProbeRow, Job
<1>. QED
  BY <1>1, SlotType DEF Spawned

LEMMA JobRange == Job \subseteq 0 .. MaxJobs /\ 0 \notin Job
  BY Values DEF Job

LEMMA TypesOf ==
    ASSUME jobs' \in [Job -> Row], probes' \in [Slot -> ProbeRow], calls' \in [Callers -> Call],
           lock' \in Callers \cup {"free"}, sweep' \in [job : 0 .. MaxJobs, status : Statuses],
           dialog' \in [open : BOOLEAN, view : View, poll : View], orphan' \in BOOLEAN,
           saved' \in [Job -> Seq(Known)], trusted' \in [Job -> SUBSET Keys]
    PROVE  TypeOK'
  BY DEF TypeOK, ProbeRow, Call

LEMMA TypesNow ==
    ASSUME TypeOK
    PROVE  /\ jobs \in [Job -> Row] /\ probes \in [Slot -> ProbeRow] /\ calls \in [Callers -> Call]
           /\ lock \in Callers \cup {"free"} /\ sweep \in [job : 0 .. MaxJobs, status : Statuses]
           /\ dialog \in [open : BOOLEAN, view : View, poll : View] /\ orphan \in BOOLEAN
           /\ saved \in [Job -> Seq(Known)] /\ trusted \in [Job -> SUBSET Keys]
  BY DEF TypeOK, ProbeRow, Call

-----------------------------------------------------------------------------
(* Probes, rows and calls that lose nothing the invariant needs: no probe,   *)
(* secret or reader is new, and no status that matters.                      *)
LEMMA Frame ==
    ASSUME IInv, UNCHANGED <<saved, trusted>>,
           \A p \in Slot : probes'[p].at # "free" =>
              /\ probes[p].at # "free"
              /\ probes'[p].job = probes[p].job /\ probes'[p].initial = probes[p].initial
              /\ probes'[p].at = "storing" =>
                    \/ probes[p].at = "storing" /\ probes'[p].pinned = probes[p].pinned
                    \/ ~probes[p].initial /\ probes'[p].pinned = jobs[probes[p].job].key,
           \A j \in Job :
              /\ jobs'[j].status = "none" => jobs[j].status = "none"
              /\ jobs'[j].secret => jobs[j].secret /\ jobs'[j].key = jobs[j].key
              /\ jobs'[j].status \in {"awaiting_trust", "complete"} =>
                    jobs'[j].status = jobs[j].status /\ jobs'[j].key = jobs[j].key,
           \A c \in Callers : calls'[c].at = "read" =>
              calls'[c] = calls[c] /\ (calls[c].kind = "save" => lock' = lock)
    PROVE  Held'
<1>1. ASSUME NEW p \in Slot PROVE ProbeHeld(p)'
  <2>1. ProbeHeld(p)
    BY DEF IInv, Held
  <2>2. CASE probes'[p].at = "free"
    BY <2>2 DEF ProbeHeld
  <2>3. CASE probes'[p].at # "free"
    <3>. DEFINE j == probes[p].job
    <3>1. /\ probes[p].at # "free" /\ probes'[p].job = j /\ probes'[p].initial = probes[p].initial
          /\ probes'[p].at = "storing" =>
                \/ probes[p].at = "storing" /\ probes'[p].pinned = probes[p].pinned
                \/ ~probes[p].initial /\ probes'[p].pinned = jobs[j].key
      BY <2>3
    <3>2. /\ j \in Job /\ jobs[j].status # "none"
          /\ probes[p].initial => /\ probes[p].at # "storing"
                                  /\ jobs[j].status \notin {"awaiting_trust", "complete"}
                                  /\ \A q \in Slot \ {p} : probes[q].at # "free" => probes[q].job # j
          /\ ~probes[p].initial /\ jobs[j].secret => jobs[j].key \in trusted[j]
          /\ probes[p].at = "storing" /\ jobs[j].secret => jobs[j].key = probes[p].pinned
      BY <2>1, <3>1 DEF ProbeHeld
    <3>. HIDE DEF j
    <3>3. \A q \in Slot : probes'[q].at # "free" => probes[q].at # "free" /\ probes'[q].job = probes[q].job
      OBVIOUS
    <3>4. /\ jobs'[j].status # "none"
          /\ probes[p].initial => jobs'[j].status \notin {"awaiting_trust", "complete"}
          /\ ~probes[p].initial /\ jobs'[j].secret => jobs'[j].key \in trusted'[j]
      BY <3>2
    <3>5. probes'[p].at = "storing" /\ jobs'[j].secret => jobs'[j].key = probes'[p].pinned
      BY <3>1, <3>2
    <3>. QED
      BY <3>1, <3>2, <3>3, <3>4, <3>5 DEF ProbeHeld
  <2>. QED
    BY <2>2, <2>3
<1>2. ASSUME NEW j \in Job PROVE JobHeld(j)'
  <2>1. JobHeld(j)
    BY DEF IInv, Held
  <2>. QED
    BY <2>1 DEF JobHeld
<1>3. ASSUME NEW c \in Callers PROVE CallHeld(c)'
  <2>1. CallHeld(c)
    BY DEF IInv, Held
  <2>. QED
    BY <2>1 DEF CallHeld
<1>. QED
  BY <1>1, <1>2, <1>3 DEF Held

LEMMA ProbeFacts ==
    ASSUME IInv, NEW p \in Slot, probes[p].at # "free"
    PROVE  LET j == probes[p].job
           IN /\ j \in Job /\ jobs[j] \in Row /\ jobs[j].status # "none"
              /\ probes[p].initial =>
                    /\ probes[p].at # "storing"
                    /\ jobs[j].status \notin {"awaiting_trust", "complete"}
                    /\ \A q \in Slot \ {p} : probes[q].at # "free" => probes[q].job # j
              /\ ~probes[p].initial /\ jobs[j].secret => jobs[j].key \in trusted[j]
              /\ probes[p].at = "storing" /\ jobs[j].secret => jobs[j].key = probes[p].pinned
  BY RowType DEF IInv, Held, ProbeHeld

(* The steps of a probe that leave the job alone.                            *)
LEMMA QuietProbe ==
    ASSUME IInv, NEW p \in Slot, NEW to \in {"opening", "working", "storing", "failing"},
           NEW k \in Known,
           \/ Goes(p, to) /\ to # "storing"
           \/ Stops(p)
           \/ probes' = [probes EXCEPT ![p] = [probes[p] EXCEPT !.at = to, !.pinned = k]],
           probes[p].at # "free",
           to = "storing" => ~probes[p].initial /\ k = jobs[probes[p].job].key,
           UNCHANGED <<calls, lock, sweep, dialog, orphan, saved, trusted>>,
           jobs' \in [Job -> Row],
           \A j \in Job :
              /\ jobs'[j].status = "none" => jobs[j].status = "none"
              /\ jobs'[j].secret => jobs[j].secret /\ jobs'[j].key = jobs[j].key
              /\ jobs'[j].status \in {"awaiting_trust", "complete"} =>
                    jobs'[j].status = jobs[j].status /\ jobs'[j].key = jobs[j].key
    PROVE  IInv'
<1>0. TypeOK
  BY DEF IInv
<1>1. PICK r \in ProbeRow : /\ probes' = [probes EXCEPT ![p] = r]
                            /\ r.at # "free" => r.job = probes[p].job /\ r.initial = probes[p].initial
                            /\ r.at = "storing" => /\ ~probes[p].initial
                                                   /\ r.pinned = jobs[probes[p].job].key
  <2>1. CASE Goes(p, to) /\ to # "storing"
    <3>. DEFINE r == [probes[p] EXCEPT !.at = to]
    <3>1. r \in ProbeRow /\ r.at = to /\ r.job = probes[p].job /\ r.initial = probes[p].initial
      BY <1>0, SlotType DEF ProbeRow
    <3>2. probes' = [probes EXCEPT ![p] = r]
      BY <2>1 DEF Goes
    <3>. HIDE DEF r
    <3>. QED
      BY <2>1, <3>1, <3>2
  <2>2. CASE Stops(p)
    BY <2>2, Values DEF Stops
  <2>3. CASE probes' = [probes EXCEPT ![p] = [probes[p] EXCEPT !.at = to, !.pinned = k]]
    <3>. DEFINE r == [probes[p] EXCEPT !.at = to, !.pinned = k]
    <3>2. /\ r \in ProbeRow /\ r.at = to /\ r.job = probes[p].job /\ r.initial = probes[p].initial
          /\ r.pinned = k
      BY <1>0, SlotType DEF ProbeRow
    <3>3. probes' = [probes EXCEPT ![p] = r]
      BY <2>3
    <3>. HIDE DEF r
    <3>. QED
      BY <3>2, <3>3
  <2>. QED
    BY <2>1, <2>2, <2>3
<1>2. probes' \in [Slot -> ProbeRow]
  BY <1>0, <1>1, SlotType
<1>3. TypeOK'
  BY <1>0, <1>2, TypesNow, TypesOf
<1>4. ASSUME NEW q \in Slot, probes'[q].at # "free"
      PROVE  /\ probes[q].at # "free"
             /\ probes'[q].job = probes[q].job /\ probes'[q].initial = probes[q].initial
             /\ probes'[q].at = "storing" =>
                   \/ probes[q].at = "storing" /\ probes'[q].pinned = probes[q].pinned
                   \/ ~probes[q].initial /\ probes'[q].pinned = jobs[probes[q].job].key
  <2>1. probes \in [Slot -> ProbeRow]
    BY <1>0, TypesNow
  <2>. QED
    BY <1>1, <1>4, <2>1
<1>5. Held'
  BY <1>4, Frame
<1>. QED
  BY <1>3, <1>5 DEF IInv

LEMMA BeginInv == ASSUME IInv, NEW p \in Slot, Begin(p) PROVE IInv'
<1>1. probes[p].at = "spawned" /\ UNCHANGED <<jobs, calls, lock, sweep, dialog, orphan, saved, trusted>>
  BY DEF Begin
<1>2. jobs[probes[p].job].key \in Known
  BY <1>1, ProbeFacts DEF Row
<1>3. \/ Goes(p, "failing")
      \/ \E k \in Known : probes' = [probes EXCEPT ![p] = [probes[p] EXCEPT !.at = "opening", !.pinned = k]]
  BY <1>2 DEF Begin
<1>4. jobs' \in [Job -> Row]
  BY <1>1, TypesNow DEF IInv
<1>. QED
  BY <1>1, <1>3, <1>4, QuietProbe, Values

LEMMA BreaksInv == ASSUME IInv, NEW p \in Slot, Breaks(p) PROVE IInv'
<1>1. jobs' \in [Job -> Row]
  BY TypesNow DEF IInv, Breaks
<1>. QED
  BY <1>1, QuietProbe, Values DEF Breaks

LEMMA DiscoveredInv == ASSUME IInv, NEW p \in Slot, Discovered(p) PROVE IInv'
<1>1. jobs' \in [Job -> Row]
  BY TypesNow DEF IInv, Discovered
<1>. DEFINE k == jobs[probes[p].job].key
<1>2. k \in Known
  BY ProbeFacts DEF Discovered, Row
<1>3. Stops(p) \/ probes' = [probes EXCEPT ![p] = [probes[p] EXCEPT !.at = "storing", !.pinned = k]]
  BY DEF Discovered
<1>. QED
  BY <1>1, <1>2, <1>3, QuietProbe DEF Discovered

(* The steps of a probe that write its job.                                  *)
LEMMA RowWritten ==
    ASSUME IInv, NEW j \in Job, NEW r \in Row, jobs' = [jobs EXCEPT ![j] = r]
    PROVE  /\ jobs' \in [Job -> Row] /\ jobs'[j] = r
           /\ \A i \in Job : i # j => jobs'[i] = jobs[i]
<1>1. jobs \in [Job -> Row]
  BY TypesNow DEF IInv
<1>. QED
  BY <1>1

LEMMA RunInv == ASSUME IInv, NEW p \in Slot, Run(p) PROVE IInv'
<1>. DEFINE j == probes[p].job
            r == [jobs[j] EXCEPT !.status = "running"]
<1>1. /\ probes[p].at = "opening" /\ jobs' = [jobs EXCEPT ![j] = r] /\ Goes(p, "working")
      /\ UNCHANGED <<calls, lock, sweep, dialog, orphan, saved, trusted>>
  BY DEF Run
<1>2. j \in Job /\ jobs[j] \in Row
  BY <1>1, ProbeFacts
<1>3. r \in Row /\ r.status = "running" /\ r.secret = jobs[j].secret /\ r.key = jobs[j].key
  BY <1>2 DEF Row, Statuses
<1>. HIDE DEF r, j
<1>4. jobs' \in [Job -> Row] /\ jobs'[j] = r /\ \A i \in Job : i # j => jobs'[i] = jobs[i]
  BY <1>1, <1>2, <1>3, RowWritten
<1>5. ASSUME NEW i \in Job
      PROVE  /\ jobs'[i].status = "none" => jobs[i].status = "none"
             /\ jobs'[i].secret => jobs[i].secret /\ jobs'[i].key = jobs[i].key
             /\ jobs'[i].status \in {"awaiting_trust", "complete"} =>
                   jobs'[i].status = jobs[i].status /\ jobs'[i].key = jobs[i].key
  BY <1>3, <1>4
<1>. QED
  BY <1>1, <1>4, <1>5, QuietProbe, Values

LEMMA FailInv == ASSUME IInv, NEW p \in Slot, Fail(p) PROVE IInv'
<1>. DEFINE j == probes[p].job
            r == [jobs[j] EXCEPT !.status = "failed", !.secret = FALSE, !.key = NoKey]
<1>1. /\ probes[p].at = "failing" /\ jobs' = [jobs EXCEPT ![j] = r] /\ Stops(p)
      /\ UNCHANGED <<calls, lock, sweep, dialog, orphan, saved, trusted>>
  BY DEF Fail
<1>2. j \in Job /\ jobs[j] \in Row
  BY <1>1, ProbeFacts
<1>3. r \in Row /\ r.status = "failed" /\ ~r.secret
  BY <1>2, Values DEF Row, Statuses
<1>. HIDE DEF r, j
<1>4. jobs' \in [Job -> Row] /\ jobs'[j] = r /\ \A i \in Job : i # j => jobs'[i] = jobs[i]
  BY <1>1, <1>2, <1>3, RowWritten
<1>5. ASSUME NEW i \in Job
      PROVE  /\ jobs'[i].status = "none" => jobs[i].status = "none"
             /\ jobs'[i].secret => jobs[i].secret /\ jobs'[i].key = jobs[i].key
             /\ jobs'[i].status \in {"awaiting_trust", "complete"} =>
                   jobs'[i].status = jobs[i].status /\ jobs'[i].key = jobs[i].key
  BY <1>3, <1>4
<1>. QED
  BY <1>1, <1>4, <1>5, QuietProbe, Values

LEMMA Stopped ==
    ASSUME IInv, NEW p \in Slot, Stops(p)
    PROVE  /\ probes' \in [Slot -> ProbeRow] /\ probes'[p].at = "free"
           /\ \A q \in Slot : q # p => probes'[q] = probes[q]
           /\ \A q \in Slot : probes'[q].at # "free" => q # p /\ probes[q].at # "free"
<1>1. probes \in [Slot -> ProbeRow] /\ NoProbe \in ProbeRow /\ NoProbe.at = "free"
  BY TypesNow, Values DEF IInv
<1>2. probes' = [probes EXCEPT ![p] = NoProbe]
  BY DEF Stops
<1>. QED
  BY <1>1, <1>2

LEMMA HostKeyInv == ASSUME IInv, NEW p \in Slot, HostKey(p) PROVE IInv'
<1>. DEFINE j == probes[p].job
<1>1. PICK k \in Keys :
         /\ jobs' = [jobs EXCEPT ![j] = [jobs[j] EXCEPT !.status = "awaiting_trust", !.key = k]]
         /\ Stops(p) /\ probes[p].at = "working" /\ probes[p].initial
         /\ UNCHANGED <<calls, lock, sweep, dialog, orphan, saved, trusted>>
  BY DEF HostKey
<1>. DEFINE r == [jobs[j] EXCEPT !.status = "awaiting_trust", !.key = k]
<1>2. /\ j \in Job /\ jobs[j] \in Row /\ jobs[j].status # "none"
      /\ \A q \in Slot \ {p} : probes[q].at # "free" => probes[q].job # j
  BY <1>1, ProbeFacts
<1>3. r \in Row /\ r.status = "awaiting_trust" /\ r.secret = jobs[j].secret /\ r.key = k
  BY <1>2, Values DEF Row, Statuses
<1>4. jobs' = [jobs EXCEPT ![j] = r] /\ Stops(p) /\ probes[p].at # "free"
      /\ probes[p].job = j /\ probes[p].initial
  BY <1>1
<1>. HIDE DEF r, j
<1>5. jobs' \in [Job -> Row] /\ jobs'[j] = r /\ \A i \in Job : i # j => jobs'[i] = jobs[i]
  BY <1>2, <1>3, <1>4, RowWritten
<1>6. TypeOK'
  BY <1>1, <1>4, <1>5, Stopped, TypesNow, TypesOf DEF IInv
<1>7. ASSUME NEW q \in Slot PROVE ProbeHeld(q)'
  <2>1. CASE probes'[q].at = "free"
    BY <2>1 DEF ProbeHeld
  <2>2. CASE probes'[q].at # "free"
    <3>1. q # p /\ probes[q].at # "free" /\ probes'[q] = probes[q]
      BY <1>4, <2>2, Stopped
    <3>2. probes[q].job # j /\ probes[q].job \in Job /\ ProbeHeld(q)
      BY <1>2, <3>1, ProbeFacts DEF IInv, Held
    <3>3. jobs'[probes[q].job] = jobs[probes[q].job]
      BY <1>5, <3>2
    <3>4. \A x \in Slot : probes'[x].at # "free" => probes[x].at # "free" /\ probes'[x] = probes[x]
      BY <1>4, Stopped
    <3>. QED
      BY <1>1, <3>1, <3>2, <3>3, <3>4 DEF ProbeHeld
  <2>. QED
    BY <2>1, <2>2
<1>8. ASSUME NEW i \in Job PROVE JobHeld(i)'
  <2>1. JobHeld(i)
    BY DEF IInv, Held
  <2>. QED
    BY <1>1, <1>2, <1>3, <1>5, <2>1 DEF JobHeld
<1>9. ASSUME NEW c \in Callers PROVE CallHeld(c)'
  <2>1. CallHeld(c)
    BY DEF IInv, Held
  <2>2. calls[c].at = "read" => calls[c].job # j /\ calls[c].job \in Job
    BY <1>4, <2>1 DEF CallHeld
  <2>3. calls[c].at = "read" => jobs'[calls[c].job] = jobs[calls[c].job]
    BY <1>5, <2>2
  <2>4. \A x \in Slot : probes'[x].at # "free" => probes[x].at # "free" /\ probes'[x] = probes[x]
    BY <1>4, Stopped
  <2>. QED
    BY <1>1, <2>1, <2>2, <2>3, <2>4 DEF CallHeld
<1>. QED
  BY <1>6, <1>7, <1>8, <1>9 DEF IInv, Held

LEMMA CompleteInv == ASSUME IInv, NEW p \in Slot, Complete(p) PROVE IInv'
<1>. DEFINE j == probes[p].job
            r == [jobs[j] EXCEPT !.status = "complete", !.key = probes[p].pinned]
<1>1. /\ jobs' = [jobs EXCEPT ![j] = r] /\ Stops(p) /\ probes[p].at = "storing" /\ probes[p].job = j
      /\ UNCHANGED <<calls, lock, sweep, dialog, orphan, saved, trusted>>
  BY DEF Complete
<1>2. /\ j \in Job /\ jobs[j] \in Row /\ jobs[j].status # "none" /\ ~probes[p].initial
      /\ jobs[j].secret => jobs[j].key \in trusted[j] /\ jobs[j].key = probes[p].pinned
      /\ probes[p].pinned \in Known
  BY <1>1, ProbeFacts, SlotType DEF IInv, ProbeRow
<1>3. /\ r \in Row /\ r.status = "complete" /\ r.secret = jobs[j].secret
      /\ jobs[j].secret => r.key = jobs[j].key
  BY <1>2 DEF Row, Statuses
<1>. HIDE DEF r, j
<1>4. jobs' \in [Job -> Row] /\ jobs'[j] = r /\ \A i \in Job : i # j => jobs'[i] = jobs[i]
  BY <1>1, <1>2, <1>3, RowWritten
<1>5. TypeOK'
  BY <1>1, <1>4, Stopped, TypesNow, TypesOf DEF IInv
<1>6. /\ \A x \in Slot : probes'[x].at # "free" => probes[x].at # "free" /\ probes'[x] = probes[x]
      /\ \A i \in Job : /\ jobs'[i].secret = jobs[i].secret
                        /\ jobs[i].secret => jobs'[i].key = jobs[i].key
                        /\ jobs'[i].status = "none" <=> jobs[i].status = "none"
  BY <1>1, <1>2, <1>3, <1>4, Stopped
<1>7. ASSUME NEW q \in Slot PROVE ProbeHeld(q)'
  <2>1. CASE probes'[q].at = "free"
    BY <2>1 DEF ProbeHeld
  <2>2. CASE probes'[q].at # "free"
    <3>1. q # p /\ probes[q].at # "free" /\ probes'[q] = probes[q]
      BY <1>1, <2>2, Stopped
    <3>2. ProbeHeld(q) /\ (probes[q].initial => probes[q].job # j)
      BY <1>1, <3>1, ProbeFacts DEF IInv, Held
    <3>3. probes[q].initial => jobs'[probes[q].job] = jobs[probes[q].job]
      BY <1>4, <3>1, <3>2, ProbeFacts
    <3>. QED
      BY <1>1, <1>6, <3>1, <3>2, <3>3 DEF ProbeHeld
  <2>. QED
    BY <2>1, <2>2
<1>8. ASSUME NEW i \in Job PROVE JobHeld(i)'
  <2>1. JobHeld(i)
    BY DEF IInv, Held
  <2>. QED
    BY <1>1, <1>2, <1>3, <1>4, <2>1 DEF JobHeld
<1>9. ASSUME NEW c \in Callers PROVE CallHeld(c)'
  <2>1. CallHeld(c)
    BY DEF IInv, Held
  <2>. QED
    BY <1>1, <1>6, <2>1 DEF CallHeld
<1>. QED
  BY <1>5, <1>7, <1>8, <1>9 DEF IInv, Held

-----------------------------------------------------------------------------
(* The API. *)

LEMMA SpawnedSlots ==
    ASSUME IInv, FreeSlots # {}, NEW j \in Job, NEW initial \in BOOLEAN, probes' = Spawned(j, initial)
    PROVE  /\ probes' \in [Slot -> ProbeRow] /\ FreeSlot \in Slot /\ probes[FreeSlot].at = "free"
           /\ probes'[FreeSlot].job = j /\ probes'[FreeSlot].initial = initial
           /\ probes'[FreeSlot].at = "spawned"
           /\ \A q \in Slot : q # FreeSlot => probes'[q] = probes[q]
<1>1. probes \in [Slot -> ProbeRow] /\ FreeSlot \in Slot /\ probes[FreeSlot].at = "free"
  BY TypesNow, FreeSlotIsFree DEF IInv
<1>2. probes' \in [Slot -> ProbeRow]
  BY SpawnedType DEF IInv
<1>. QED
  BY <1>1, <1>2 DEF Spawned

LEMMA CallWritten ==
    ASSUME IInv, NEW c \in Callers, NEW r \in Call, calls' = [calls EXCEPT ![c] = r]
    PROVE  /\ calls' \in [Callers -> Call] /\ calls'[c] = r
           /\ \A d \in Callers : d # c => calls'[d] = calls[d]
<1>1. calls \in [Callers -> Call]
  BY TypesNow DEF IInv
<1>. QED
  BY <1>1

LEMMA EndsFacts ==
    ASSUME IInv, NEW c \in Callers, NEW how \in {"read", "done", "refused"}, Ends(c, how)
    PROVE  /\ calls' \in [Callers -> Call]
           /\ calls'[c].at = how /\ calls'[c].job = calls[c].job /\ calls'[c].key = calls[c].key
           /\ calls'[c].kind = calls[c].kind
           /\ \A d \in Callers : d # c => calls'[d] = calls[d]
<1>. DEFINE r == [calls[c] EXCEPT !.at = how]
<1>1. r \in Call /\ r.at = how /\ r.job = calls[c].job /\ r.key = calls[c].key /\ r.kind = calls[c].kind
  BY CallType DEF IInv, Call
<1>2. calls' = [calls EXCEPT ![c] = r]
  BY DEF Ends
<1>. HIDE DEF r
<1>. QED
  BY <1>1, <1>2, CallWritten

LEMMA StartInv == ASSUME IInv, NEW c \in Callers, StartDiscovery(c) PROVE IInv'
<1>. DEFINE r == [NoRow EXCEPT !.status = "queued", !.secret = TRUE]
<1>1. PICK j \in Job :
         /\ jobs[j].status = "none" /\ jobs' = [jobs EXCEPT ![j] = r]
         /\ probes' = Spawned(j, TRUE)
         /\ calls' = [calls EXCEPT ![c] = [calls[c] EXCEPT !.job = j, !.at = "done"]]
         /\ FreeSlots # {} /\ UNCHANGED <<lock, sweep, dialog, orphan, saved, trusted>>
  BY DEF StartDiscovery
<1>2. r \in Row /\ r.status = "queued" /\ r.secret
  BY Values DEF NoRow, Row, Statuses
<1>. DEFINE call == [calls[c] EXCEPT !.job = j, !.at = "done"]
<1>3. call \in Call /\ call.at = "done"
  BY CallType, JobRange DEF IInv, Call
<1>4. calls' = [calls EXCEPT ![c] = call]
  BY <1>1
<1>. HIDE DEF r, call
<1>5. /\ calls' \in [Callers -> Call]
      /\ \A d \in Callers : calls'[d].at = "read" => calls'[d] = calls[d]
  BY <1>3, <1>4, CallWritten
<1>6. jobs' \in [Job -> Row] /\ jobs'[j] = r /\ \A i \in Job : i # j => jobs'[i] = jobs[i]
  BY <1>1, <1>2, RowWritten
<1>. DEFINE s == FreeSlot
<1>7. /\ probes' \in [Slot -> ProbeRow] /\ s \in Slot /\ probes[s].at = "free"
      /\ probes'[s].job = j /\ probes'[s].initial /\ probes'[s].at = "spawned"
      /\ \A q \in Slot : q # s => probes'[q] = probes[q]
  BY <1>1, SpawnedSlots
<1>. HIDE DEF s
<1>8. TypeOK'
  BY <1>1, <1>5, <1>6, <1>7, TypesNow, TypesOf DEF IInv
<1>9. \A q \in Slot : probes[q].at # "free" => probes[q].job # j /\ probes[q].job \in Job
  BY <1>1, ProbeFacts
<1>10. ASSUME NEW q \in Slot PROVE ProbeHeld(q)'
  <2>1. CASE q = s
    <3>1. \A x \in Slot \ {s} : probes'[x].at # "free" => probes'[x].job # j
      BY <1>7, <1>9
    <3>. QED
      BY <1>2, <1>6, <1>7, <2>1, <3>1 DEF ProbeHeld
  <2>2. CASE q # s /\ probes[q].at # "free"
    <3>1. probes'[q] = probes[q] /\ probes[q].job # j /\ probes[q].job \in Job /\ ProbeHeld(q)
      BY <1>7, <1>9, <2>2 DEF IInv, Held
    <3>2. jobs'[probes[q].job] = jobs[probes[q].job]
      BY <1>6, <3>1
    <3>3. \A x \in Slot : probes'[x].job = probes[q].job => x # s /\ probes'[x] = probes[x]
      BY <1>7, <3>1
    <3>. QED
      BY <1>1, <2>2, <3>1, <3>2, <3>3 DEF ProbeHeld
  <2>3. CASE q # s /\ probes[q].at = "free"
    BY <1>7, <2>3 DEF ProbeHeld
  <2>. QED
    BY <2>1, <2>2, <2>3
<1>11. ASSUME NEW i \in Job PROVE JobHeld(i)'
  <2>1. JobHeld(i)
    BY DEF IInv, Held
  <2>. QED
    BY <1>1, <1>2, <1>6, <2>1 DEF JobHeld
<1>12. ASSUME NEW d \in Callers PROVE CallHeld(d)'
  <2>1. CallHeld(d)
    BY DEF IInv, Held
  <2>2. CASE calls'[d].at = "read"
    <3>1. calls'[d] = calls[d] /\ calls[d].job \in Job /\ calls[d].job # j
      BY <1>1, <1>5, <2>1, <2>2 DEF CallHeld
    <3>2. jobs'[calls[d].job] = jobs[calls[d].job]
      BY <1>6, <3>1
    <3>3. \A x \in Slot : probes'[x].job = calls[d].job => x # s /\ probes'[x] = probes[x]
      BY <1>7, <3>1
    <3>. QED
      <4>1. \A x \in Slot : probes'[x].at # "free" /\ probes'[x].job = calls[d].job => ~probes'[x].initial
        BY <2>1, <2>2, <3>1, <3>3 DEF CallHeld
      <4>. QED
        BY <1>1, <2>1, <2>2, <3>1, <3>2, <4>1 DEF CallHeld
  <2>3. CASE calls'[d].at # "read"
    BY <2>3 DEF CallHeld
  <2>. QED
    BY <2>2, <2>3
<1>. QED
  BY <1>8, <1>10, <1>11, <1>12 DEF IInv, Held

LEMMA ReadTrustInv ==
    ASSUME IInv, NEW c \in Callers, calls[c].job \in Job, ReadTrust(c)
    PROVE  IInv'
<1>1. /\ UNCHANGED <<jobs, probes, lock, sweep, dialog, orphan, saved, trusted>>
      /\ calls[c].kind = "trust" /\ calls[c].at = "sent"
      /\ \/ Ends(c, "refused")
         \/ Ends(c, "read") /\ Trustable(jobs[calls[c].job], calls[c].key)
  BY DEF ReadTrust
<1>2. calls' \in [Callers -> Call]
  BY <1>1, EndsFacts
<1>3. TypeOK'
  BY <1>1, <1>2, TypesNow, TypesOf DEF IInv
<1>4. CASE Ends(c, "refused")
  <2>1. \A d \in Callers : calls'[d].at = "read" => calls'[d] = calls[d]
    BY <1>4, EndsFacts
  <2>2. Held'
    BY <1>1, <2>1, Frame
  <2>. QED
    BY <1>3, <2>2 DEF IInv
<1>5. CASE Ends(c, "read") /\ Trustable(jobs[calls[c].job], calls[c].key)
  <2>. DEFINE j == calls[c].job
  <2>1. jobs[j].status = "awaiting_trust" /\ jobs[j].key = calls[c].key
    BY <1>5 DEF Trustable
  <2>2. j \in Job
    OBVIOUS
  <2>3. calls[c].key \in Keys
    BY <2>1, <2>2 DEF IInv, Held, JobHeld
  <2>4. \A p \in Slot : probes[p].at # "free" /\ probes[p].job = j => ~probes[p].initial
    BY <2>1, ProbeFacts
  <2>. HIDE DEF j
  <2>5. ASSUME NEW d \in Callers PROVE CallHeld(d)'
    <3>1. CASE d = c
      <4>1. calls'[c].at = "read" /\ calls'[c].job = j /\ calls'[c].key = calls[c].key /\ calls'[c].kind = "trust"
        BY <1>1, <1>5, EndsFacts DEF j
      <4>. QED
        BY <1>1, <2>1, <2>2, <2>3, <2>4, <3>1, <4>1 DEF CallHeld
    <3>2. CASE d # c
      <4>1. calls'[d] = calls[d] /\ CallHeld(d)
        BY <1>5, <3>2, EndsFacts DEF IInv, Held
      <4>. QED
        BY <1>1, <4>1 DEF CallHeld
    <3>. QED
      BY <3>1, <3>2
  <2>6. (\A p \in Slot : ProbeHeld(p))' /\ (\A i \in Job : JobHeld(i))'
    BY <1>1 DEF IInv, Held, ProbeHeld, JobHeld
  <2>. QED
    BY <1>3, <2>5, <2>6 DEF IInv, Held
<1>. QED
  BY <1>1, <1>4, <1>5

LEMMA TrustInv == ASSUME IInv, NEW c \in Callers, Trust(c) PROVE IInv'
<1>. DEFINE j == calls[c].job
            r == [jobs[j] EXCEPT !.status = "running"]
            s == FreeSlot
<1>1. /\ calls[c].kind = "trust" /\ calls[c].at = "read" /\ FreeSlots # {}
      /\ jobs' = [jobs EXCEPT ![j] = r]
      /\ trusted' = [trusted EXCEPT ![j] = trusted[j] \cup {calls[c].key}]
      /\ probes' = Spawned(j, FALSE)
      /\ Ends(c, "done") /\ UNCHANGED <<lock, sweep, dialog, orphan, saved>>
  BY DEF Trust
<1>2. /\ j \in Job /\ jobs[j].status # "none" /\ calls[c].key \in Keys
      /\ \A p \in Slot : probes[p].at # "free" /\ probes[p].job = j => ~probes[p].initial
      /\ jobs[j].secret => jobs[j].key = calls[c].key
  BY <1>1 DEF IInv, Held, CallHeld
<1>3. r \in Row /\ r.status = "running" /\ r.secret = jobs[j].secret /\ r.key = jobs[j].key
  BY <1>2, RowType DEF IInv, Row, Statuses
<1>4. /\ probes' \in [Slot -> ProbeRow] /\ s \in Slot /\ probes[s].at = "free"
      /\ probes'[s].job = j /\ ~probes'[s].initial /\ probes'[s].at = "spawned"
      /\ \A q \in Slot : q # s => probes'[q] = probes[q]
  BY <1>1, <1>2, SpawnedSlots
<1>. HIDE DEF r, j, s
<1>5. jobs' \in [Job -> Row] /\ jobs'[j] = r /\ \A i \in Job : i # j => jobs'[i] = jobs[i]
  BY <1>1, <1>2, <1>3, RowWritten
<1>6. /\ calls' \in [Callers -> Call] /\ calls'[c].at = "done"
      /\ \A d \in Callers : d # c => calls'[d] = calls[d]
  BY <1>1, EndsFacts
<1>7. /\ trusted' \in [Job -> SUBSET Keys] /\ calls[c].key \in trusted'[j]
      /\ \A i \in Job : trusted[i] \subseteq trusted'[i]
  <2>1. trusted \in [Job -> SUBSET Keys]
    BY TypesNow DEF IInv
  <2>. QED
    BY <1>1, <1>2, <2>1
<1>8. TypeOK'
  BY <1>1, <1>4, <1>5, <1>6, <1>7, TypesNow, TypesOf DEF IInv
<1>9. \A i \in Job : /\ jobs'[i].secret = jobs[i].secret /\ jobs'[i].key = jobs[i].key
                     /\ jobs'[i].status = "none" => jobs[i].status = "none"
                     /\ jobs'[i].status \in {"awaiting_trust", "complete"} => jobs'[i].status = jobs[i].status
  BY <1>2, <1>3, <1>5
<1>10. ASSUME NEW q \in Slot PROVE ProbeHeld(q)'
  <2>1. CASE q = s
    BY <1>2, <1>3, <1>4, <1>5, <1>7, <2>1 DEF ProbeHeld
  <2>2. CASE q # s /\ probes[q].at # "free"
    <3>1. probes'[q] = probes[q] /\ ProbeHeld(q)
      BY <1>4, <2>2 DEF IInv, Held
    <3>2. probes[q].job \in Job /\ (probes[q].initial => probes[q].job # j)
      BY <1>2, <2>2, <3>1 DEF ProbeHeld
    <3>3. \A x \in Slot : x = s \/ probes'[x] = probes[x]
      BY <1>4
    <3>. QED
      BY <1>4, <1>7, <1>9, <2>2, <3>1, <3>2, <3>3 DEF ProbeHeld
  <2>3. CASE q # s /\ probes[q].at = "free"
    BY <1>4, <2>3 DEF ProbeHeld
  <2>. QED
    BY <2>1, <2>2, <2>3
<1>11. ASSUME NEW i \in Job PROVE JobHeld(i)'
  <2>1. JobHeld(i)
    BY DEF IInv, Held
  <2>2. jobs'[i].status # "none"  \/ jobs[i].status = "none"
    BY <1>9
  <2>. QED
    BY <1>1, <1>7, <1>9, <2>1, <2>2 DEF JobHeld
<1>12. ASSUME NEW d \in Callers PROVE CallHeld(d)'
  <2>1. CallHeld(d)
    BY DEF IInv, Held
  <2>2. CASE d # c /\ calls[d].at = "read"
    <3>1. calls'[d] = calls[d] /\ calls[d].job \in Job
      BY <1>6, <2>1, <2>2 DEF CallHeld
    <3>2. \A x \in Slot : probes'[x].at # "free" /\ probes'[x].job = calls[d].job => ~probes'[x].initial
      <4>1. \A x \in Slot : probes[x].at # "free" /\ probes[x].job = calls[d].job => ~probes[x].initial
        BY <2>1, <2>2 DEF CallHeld
      <4>. QED
        BY <1>4, <4>1
    <3>. QED
      <4>. DEFINE i == calls[d].job
      <4>1. /\ jobs[i].status # "none" /\ calls[d].kind \in {"trust", "save"}
            /\ calls[d].kind = "trust" => calls[d].key \in Keys /\ (jobs[i].secret => jobs[i].key = calls[d].key)
            /\ calls[d].kind = "save" => lock = d /\ calls[d].key \in trusted[i] /\ saved[i] = <<>>
        BY <2>1, <2>2 DEF CallHeld
      <4>2. /\ jobs'[i].status # "none" /\ jobs'[i].secret = jobs[i].secret /\ jobs'[i].key = jobs[i].key
            /\ trusted[i] \subseteq trusted'[i] /\ lock' = lock /\ saved' = saved
        BY <1>1, <1>7, <1>9, <3>1, <4>1
      <4>. QED
        BY <3>1, <3>2, <4>1, <4>2 DEF CallHeld
  <2>3. CASE d # c /\ calls[d].at # "read"
    BY <1>6, <2>3 DEF CallHeld
  <2>4. CASE d = c
    BY <1>6, <2>4 DEF CallHeld
  <2>. QED
    BY <2>2, <2>3, <2>4
<1>. QED
  BY <1>8, <1>10, <1>11, <1>12 DEF IInv, Held

LEMMA ReadSaveInv ==
    ASSUME IInv, NEW c \in Callers, calls[c].job \in Job, ReadSave(c)
    PROVE  IInv'
<1>. DEFINE j == calls[c].job
            call == [calls[c] EXCEPT !.at = "read", !.key = jobs[j].key]
<1>1. /\ UNCHANGED <<jobs, probes, sweep, dialog, orphan, saved, trusted>>
      /\ calls[c].kind = "save" /\ calls[c].at = "sent" /\ lock = "free" /\ j \in Job
      /\ \/ lock' = lock /\ Ends(c, "refused")
         \/ Savable(jobs[j]) /\ lock' = c /\ calls' = [calls EXCEPT ![c] = call]
  BY DEF ReadSave
<1>2. call \in Call /\ call.at = "read" /\ call.key = jobs[j].key /\ call.kind = "save" /\ call.job = j
  <2>1. jobs[j] \in Row /\ calls[c] \in Call
    BY <1>1, CallType, RowType DEF IInv
  <2>. QED
    BY <1>1, <2>1 DEF Call, Row
<1>. HIDE DEF call, j
<1>3. lock' \in Callers \cup {"free"}
  BY <1>1
<1>4. calls' \in [Callers -> Call]
  BY <1>1, <1>2, EndsFacts, CallWritten
<1>5. TypeOK'
  BY <1>1, <1>3, <1>4, TypesNow, TypesOf DEF IInv
<1>6. CASE lock' = lock /\ Ends(c, "refused")
  <2>1. \A d \in Callers : calls'[d].at = "read" => calls'[d] = calls[d]
    BY <1>6, EndsFacts
  <2>2. Held'
    BY <1>1, <1>6, <2>1, Frame
  <2>. QED
    BY <1>5, <2>2 DEF IInv
<1>7. CASE Savable(jobs[j]) /\ lock' = c /\ calls' = [calls EXCEPT ![c] = call]
  <2>1. jobs[j].status = "complete" /\ jobs[j].secret /\ JobHeld(j)
    BY <1>1, <1>7 DEF Savable, IInv, Held
  <2>2. jobs[j].key \in trusted[j] /\ saved[j] = <<>>
    BY <2>1 DEF JobHeld
  <2>3. \A p \in Slot : probes[p].at # "free" /\ probes[p].job = j => ~probes[p].initial
    BY <2>1, ProbeFacts
  <2>4. ASSUME NEW d \in Callers PROVE CallHeld(d)'
    <3>1. CASE d = c
      <4>1. calls'[c] = call
        BY <1>2, <1>7, CallWritten
      <4>. QED
        BY <1>1, <1>2, <1>7, <2>1, <2>2, <2>3, <3>1, <4>1 DEF CallHeld
    <3>2. CASE d # c
      <4>1. calls'[d] = calls[d] /\ CallHeld(d)
        BY <1>2, <1>7, <3>2, CallWritten DEF IInv, Held
      <4>2. calls[d].at = "read" => calls[d].kind # "save"
        BY <1>1, <4>1, Values DEF CallHeld
      <4>. QED
        BY <1>1, <4>1, <4>2 DEF CallHeld
    <3>. QED
      BY <3>1, <3>2
  <2>5. (\A p \in Slot : ProbeHeld(p))' /\ (\A i \in Job : JobHeld(i))'
    BY <1>1 DEF IInv, Held, ProbeHeld, JobHeld
  <2>. QED
    BY <1>5, <2>4, <2>5 DEF IInv, Held
<1>. QED
  BY <1>1, <1>6, <1>7

LEMMA SaveInv == ASSUME IInv, NEW c \in Callers, Save(c) PROVE IInv'
<1>. DEFINE j == calls[c].job
            r == [jobs[j] EXCEPT !.status = "saved", !.secret = FALSE]
<1>1. /\ calls[c].kind = "save" /\ calls[c].at = "read"
      /\ saved' = [saved EXCEPT ![j] = Append(saved[j], calls[c].key)]
      /\ jobs' = [jobs EXCEPT ![j] = r] /\ lock' = "free"
      /\ Ends(c, "done") /\ UNCHANGED <<probes, sweep, dialog, orphan, trusted>>
  BY DEF Save
<1>2. /\ j \in Job /\ jobs[j].status # "none" /\ calls[c].key \in trusted[j] /\ saved[j] = <<>> /\ lock = c
      /\ \A p \in Slot : probes[p].at # "free" /\ probes[p].job = j => ~probes[p].initial
  BY <1>1 DEF IInv, Held, CallHeld
<1>3. r \in Row /\ r.status = "saved" /\ ~r.secret /\ r.key = jobs[j].key
  <2>1. jobs[j] \in Row
    BY <1>2, RowType DEF IInv
  <2>. QED
    BY <2>1 DEF Row, Statuses
<1>4. calls[c].key \in Known
  BY CallType DEF IInv, Call
<1>. HIDE DEF r, j
<1>5. jobs' \in [Job -> Row] /\ jobs'[j] = r /\ \A i \in Job : i # j => jobs'[i] = jobs[i]
  BY <1>1, <1>2, <1>3, RowWritten
<1>6. /\ calls' \in [Callers -> Call] /\ calls'[c].at = "done"
      /\ \A d \in Callers : d # c => calls'[d] = calls[d]
  BY <1>1, EndsFacts
<1>7. /\ saved' \in [Job -> Seq(Known)] /\ saved'[j] = <<calls[c].key>>
      /\ \A i \in Job : i # j => saved'[i] = saved[i]
  <2>1. saved \in [Job -> Seq(Known)]
    BY TypesNow DEF IInv
  <2>2. Append(saved[j], calls[c].key) = <<calls[c].key>> /\ <<calls[c].key>> \in Seq(Known)
    BY <1>2, <1>4
  <2>. QED
    BY <1>1, <1>2, <2>1, <2>2
<1>8. TypeOK'
  BY <1>1, <1>5, <1>6, <1>7, TypesNow, TypesOf DEF IInv
<1>9. \A i \in Job : /\ jobs'[i].secret => jobs[i].secret /\ jobs'[i].key = jobs[i].key
                     /\ jobs'[i].status = "none" => jobs[i].status = "none"
                     /\ jobs'[i].status \in {"awaiting_trust", "complete"} =>
                           jobs'[i].status = jobs[i].status /\ jobs'[i].key = jobs[i].key
  BY <1>2, <1>3, <1>5
<1>10. ASSUME NEW q \in Slot PROVE ProbeHeld(q)'
  <2>1. ProbeHeld(q)
    BY DEF IInv, Held
  <2>. QED
    BY <1>1, <1>9, <2>1 DEF ProbeHeld
<1>11. ASSUME NEW i \in Job PROVE JobHeld(i)'
  <2>1. JobHeld(i)
    BY DEF IInv, Held
  <2>. QED
    BY <1>1, <1>2, <1>3, <1>5, <1>7, <2>1 DEF JobHeld
<1>12. ASSUME NEW d \in Callers PROVE CallHeld(d)'
  <2>1. CallHeld(d)
    BY DEF IInv, Held
  <2>2. CASE d # c /\ calls[d].at = "read"
    <3>1. calls'[d] = calls[d] /\ calls[d].kind # "save"
      BY <1>2, <1>6, <2>1, <2>2 DEF CallHeld
    <3>. QED
      BY <1>1, <1>9, <2>1, <2>2, <3>1 DEF CallHeld
  <2>3. CASE d # c /\ calls[d].at # "read"
    BY <1>6, <2>3 DEF CallHeld
  <2>4. CASE d = c
    BY <1>6, <2>4 DEF CallHeld
  <2>. QED
    BY <2>2, <2>3, <2>4
<1>. QED
  BY <1>8, <1>10, <1>11, <1>12 DEF IInv, Held

-----------------------------------------------------------------------------
(* Time, restarts and people. *)

(* Rows change, secrets and keys only go, and no status that matters comes.  *)
LEMMA RowsFrame ==
    ASSUME IInv, UNCHANGED <<probes, calls, lock, saved, trusted>>,
           \A j \in Job :
              /\ jobs'[j].status = "none" => jobs[j].status = "none"
              /\ jobs'[j].secret => jobs[j].secret /\ jobs'[j].key = jobs[j].key
              /\ jobs'[j].status \in {"awaiting_trust", "complete"} =>
                    jobs'[j].status = jobs[j].status /\ jobs'[j].key = jobs[j].key
    PROVE  Held'
  BY Frame

LEMMA AgesInv == ASSUME IInv, NEW j \in Job, Ages(j) PROVE IInv'
<1>. DEFINE r == [jobs[j] EXCEPT !.old = TRUE]
<1>1. jobs' = [jobs EXCEPT ![j] = r] /\ UNCHANGED <<probes, calls, lock, sweep, dialog, orphan, saved, trusted>>
  BY DEF Ages
<1>2. r \in Row /\ r.status = jobs[j].status /\ r.secret = jobs[j].secret /\ r.key = jobs[j].key
  BY RowType DEF IInv, Row
<1>. HIDE DEF r
<1>3. jobs' \in [Job -> Row] /\ jobs'[j] = r /\ \A i \in Job : i # j => jobs'[i] = jobs[i]
  BY <1>1, <1>2, RowWritten
<1>4. Held'
  BY <1>1, <1>2, <1>3, RowsFrame
<1>. QED
  BY <1>1, <1>3, <1>4, TypesNow, TypesOf DEF IInv

LEMMA ReadExpiredInv == ASSUME IInv, NEW j \in Job, ReadExpired(j) PROVE IInv'
<1>1. /\ UNCHANGED <<jobs, probes, calls, lock, dialog, orphan, saved, trusted>>
      /\ sweep' = [job |-> j, status |-> jobs[j].status]
  BY DEF ReadExpired
<1>2. sweep' \in [job : 0 .. MaxJobs, status : Statuses]
  BY <1>1, RowType, JobRange DEF IInv, Row
<1>3. Held'
  BY <1>1, RowsFrame
<1>. QED
  BY <1>1, <1>2, <1>3, TypesNow, TypesOf DEF IInv

LEMMA ExpireInv == ASSUME IInv, Expire PROVE IInv'
<1>. DEFINE j == sweep.job
            r == [jobs[j] EXCEPT !.secret = FALSE,
                                 !.status = IF sweep.status \in {"queued", "awaiting_trust", "running", "complete"}
                                            THEN "expired" ELSE jobs[j].status]
<1>1. /\ jobs' = [jobs EXCEPT ![j] = r] /\ sweep' = NoSweep
      /\ UNCHANGED <<probes, calls, lock, dialog, orphan, saved, trusted>>
  BY DEF Expire
<1>2. sweep' \in [job : 0 .. MaxJobs, status : Statuses]
  BY <1>1, Values DEF NoSweep, Statuses
<1>3. CASE j \in Job
  <2>1. jobs[j] \in Row
    BY <1>3, RowType DEF IInv
  <2>2. r \in Row /\ r.status \in {"expired", jobs[j].status} /\ ~r.secret /\ r.key = jobs[j].key
    BY <2>1 DEF Row, Statuses
  <2>. HIDE DEF r
  <2>3. jobs' \in [Job -> Row] /\ jobs'[j] = r /\ \A i \in Job : i # j => jobs'[i] = jobs[i]
    BY <1>1, <1>3, <2>2, RowWritten
  <2>4. Held'
    BY <1>1, <2>1, <2>2, <2>3, RowsFrame
  <2>. QED
    BY <1>1, <1>2, <2>3, <2>4, TypesNow, TypesOf DEF IInv
<1>4. CASE j \notin Job
  <2>. HIDE DEF j, r
  <2>1. jobs' = jobs
    <3>1. jobs \in [Job -> Row]
      BY TypesNow DEF IInv
    <3>. QED
      BY <1>1, <1>4, <3>1
  <2>2. Held'
    BY <1>1, <2>1, RowsFrame
  <2>. QED
    BY <1>1, <1>2, <2>1, <2>2, TypesNow, TypesOf DEF IInv
<1>. QED
  BY <1>3, <1>4

LEMMA RestartInv == ASSUME IInv, Restart PROVE IInv'
<1>1. /\ UNCHANGED <<dialog, orphan, saved, trusted>> /\ lock' = "free" /\ sweep' = NoSweep
      /\ probes' = [p \in Slot |-> NoProbe]
      /\ jobs' = [j \in Job |-> IF Under(jobs[j].status)
                                THEN [jobs[j] EXCEPT !.status = "interrupted", !.secret = FALSE]
                                ELSE jobs[j]]
      /\ calls' = [c \in Callers |-> IF calls[c].at \in {"sent", "read"}
                                     THEN [calls[c] EXCEPT !.at = "refused"] ELSE calls[c]]
  BY DEF Restart
<1>2. sweep' \in [job : 0 .. MaxJobs, status : Statuses]
  <2>1. NoSweep \in [job : 0 .. MaxJobs, status : Statuses]
    BY Values DEF NoSweep, Statuses
  <2>. QED
    BY <1>1, <2>1
<1>3. ASSUME NEW j \in Job
      PROVE  /\ jobs'[j] \in Row
             /\ jobs'[j].status = "none" => jobs[j].status = "none"
             /\ jobs'[j].secret => jobs[j].secret /\ jobs'[j].key = jobs[j].key
             /\ jobs'[j].status \in {"awaiting_trust", "complete"} =>
                   jobs'[j].status = jobs[j].status /\ jobs'[j].key = jobs[j].key
  <2>. DEFINE r == [jobs[j] EXCEPT !.status = "interrupted", !.secret = FALSE]
  <2>1. jobs[j] \in Row /\ r \in Row /\ r.status = "interrupted" /\ ~r.secret
    BY RowType DEF IInv, Row, Statuses
  <2>2. jobs'[j] = r \/ jobs'[j] = jobs[j]
    BY <1>1
  <2>. HIDE DEF r
  <2>. QED
    BY <2>1, <2>2
<1>4. jobs' \in [Job -> Row]
  <2>1. jobs' = [j \in Job |-> jobs'[j]]
    BY <1>1
  <2>. QED
    BY <1>3, <2>1
<1>5. ASSUME NEW c \in Callers PROVE calls'[c] \in Call /\ calls'[c].at # "read"
  <2>. DEFINE r == [calls[c] EXCEPT !.at = "refused"]
  <2>1. calls[c] \in Call /\ r \in Call /\ r.at = "refused"
    BY CallType DEF IInv, Call
  <2>2. calls'[c] = r \/ (calls'[c] = calls[c] /\ calls[c].at # "read")
    BY <1>1
  <2>. HIDE DEF r
  <2>. QED
    BY <2>1, <2>2
<1>6. calls' \in [Callers -> Call]
  <2>1. calls' = [c \in Callers |-> calls'[c]]
    BY <1>1
  <2>. QED
    BY <1>5, <2>1
<1>7. probes' \in [Slot -> ProbeRow] /\ \A p \in Slot : probes'[p].at = "free"
  BY <1>1, Values
<1>8. TypeOK'
  BY <1>1, <1>2, <1>4, <1>6, <1>7, TypesNow, TypesOf DEF IInv
<1>9. Held'
  BY <1>1, <1>3, <1>5, <1>7, Frame
<1>. QED
  BY <1>8, <1>9 DEF IInv

(* What the dialog and the other callers do concerns the server only by the  *)
(* calls that are sent.                                                      *)
LEMMA PeopleFrame ==
    ASSUME IInv, UNCHANGED Server, orphan' \in BOOLEAN, calls' \in [Callers -> Call],
           dialog' \in [open : BOOLEAN, view : View, poll : View],
           \A c \in Callers : calls'[c].at = "read" => calls'[c] = calls[c]
    PROVE  IInv'
<1>1. TypeOK'
  BY TypesNow, TypesOf DEF IInv, Server
<1>2. Held'
  BY Frame DEF Server
<1>. QED
  BY <1>1, <1>2 DEF IInv

(* Jobs that calls and views speak of are jobs.                              *)
Named ==
    /\ \A c \in Callers :
          calls[c].kind \in {"trust", "save"} \/ (calls[c].kind = "start" /\ calls[c].at = "done")
             => calls[c].job \in Job
    /\ \A c \in Callers : calls[c].kind = "none" => calls[c].at = "idle"
    /\ dialog.view # NoView => dialog.view.job \in Job
    /\ dialog.poll # NoView => dialog.poll.job \in Job

Dialog == [open : BOOLEAN, view : View, poll : View]

LEMMA ShowFacts ==
    ASSUME IInv, NEW view \in View, Show(view)
    PROVE  dialog' \in Dialog /\ dialog'.view = view /\ dialog'.poll = NoView
<1>1. dialog \in Dialog
  BY TypesNow DEF IInv, Dialog
<1>. QED
  BY <1>1, Values DEF Show, Dialog

LEMMA PressInv ==
    ASSUME IInv, Named, NEW call \in Call, Press(call), call.at = "sent",
           call.kind # "none", call.kind \in {"trust", "save"} => call.job \in Job
    PROVE  (IInv /\ Named)'
<1>1. calls' = [calls EXCEPT !["dialog"] = call] /\ UNCHANGED <<Server, dialog, orphan>>
  BY DEF Press
<1>2. /\ calls' \in [Callers -> Call] /\ calls'["dialog"] = call
      /\ \A d \in Callers : d # "dialog" => calls'[d] = calls[d]
  BY <1>1, CallWritten, Values
<1>3. IInv'
  BY <1>1, <1>2, PeopleFrame, TypesNow DEF IInv
<1>4. Named'
  BY <1>1, <1>2 DEF Named
<1>. QED
  BY <1>3, <1>4

LEMMA ViewFacts ==
    ASSUME IInv, Named
    PROVE  /\ dialog \in Dialog /\ dialog.view \in View /\ dialog.poll \in View
           /\ dialog.view.status # "none" => dialog.view.job \in Job
           /\ NoView.status = "none" /\ calls["dialog"] \in Call
  BY TypesNow, CallType, Values DEF IInv, Dialog, Named, NoView

LEMMA PersonInv == ASSUME IInv, Named, Person PROVE (IInv /\ Named)'
<1>1. CASE OpenDialog
  <2>1. dialog' = [open |-> TRUE, view |-> NoView, poll |-> NoView] /\ UNCHANGED <<Server, calls, orphan>>
    BY <1>1 DEF OpenDialog, Closed
  <2>2. IInv'
    BY <2>1, PeopleFrame, TypesNow, Values DEF IInv
  <2>. QED
    BY <2>1, <2>2 DEF Named
<1>2. CASE CloseDialog
  <2>1. dialog' = [open |-> FALSE, view |-> NoView, poll |-> NoView] /\ UNCHANGED <<Server, calls>>
        /\ orphan' \in BOOLEAN
    BY <1>2 DEF CloseDialog, Closed, Busy
  <2>2. IInv'
    BY <2>1, PeopleFrame, TypesNow, Values DEF IInv
  <2>. QED
    BY <2>1, <2>2 DEF Named
<1>3. CASE Test
  <2>. DEFINE call == [NoCall EXCEPT !.kind = "start", !.at = "sent"]
  <2>1. call \in Call /\ call.at = "sent" /\ call.kind = "start"
    BY Values DEF NoCall, Call
  <2>. HIDE DEF call
  <2>. QED
    BY <1>3, <2>1, PressInv DEF Test, call
<1>4. CASE TrustHost
  <2>. DEFINE call == [kind |-> "trust", job |-> dialog.view.job, key |-> dialog.view.key, at |-> "sent"]
  <2>1. call \in Call /\ call.at = "sent" /\ call.job \in Job /\ call.kind # "none"
    BY <1>4, ViewFacts DEF TrustHost, View, Call
  <2>2. Press(call)
    BY <1>4 DEF TrustHost
  <2>. HIDE DEF call
  <2>. QED
    BY <2>1, <2>2, PressInv
<1>5. CASE SaveDevice
  <2>. DEFINE call == [kind |-> "save", job |-> dialog.view.job, key |-> NoKey, at |-> "sent"]
  <2>1. call \in Call /\ call.at = "sent" /\ call.job \in Job /\ call.kind # "none"
    BY <1>5, ViewFacts, Values DEF SaveDevice, View, Call
  <2>2. Press(call)
    BY <1>5 DEF SaveDevice
  <2>. HIDE DEF call
  <2>. QED
    BY <2>1, <2>2, PressInv
<1>6. CASE Back
  <2>1. Show(NoView) /\ UNCHANGED <<Server, calls, orphan>>
    BY <1>6 DEF Back
  <2>2. dialog' \in Dialog /\ dialog'.view = NoView /\ dialog'.poll = NoView
    BY <2>1, ShowFacts, Values
  <2>3. IInv'
    BY <2>1, <2>2, PeopleFrame, TypesNow DEF IInv, Dialog
  <2>. QED
    BY <2>1, <2>2, <2>3 DEF Named
<1>. QED
  BY <1>1, <1>2, <1>3, <1>4, <1>5, <1>6 DEF Person

LEMMA ResumeInv == ASSUME IInv, Named, Resume PROVE (IInv /\ Named)'
<1>. DEFINE call == calls["dialog"]
<1>1. /\ call.at \in {"done", "refused"} /\ call \in Call
      /\ calls' = [calls EXCEPT !["dialog"] = NoCall] /\ orphan' = FALSE /\ UNCHANGED Server
      /\ call.kind \in {"start", "trust", "save"}
  <2>1. call \in Call /\ call.at \in {"done", "refused"}
    BY ViewFacts DEF Resume
  <2>2. call.kind # "none"
    BY <2>1, Values DEF Named
  <2>. QED
    BY <2>1, <2>2 DEF Resume, Call
<1>2. /\ calls' \in [Callers -> Call] /\ calls'["dialog"] = NoCall
      /\ \A d \in Callers : d # "dialog" => calls'[d] = calls[d]
  BY <1>1, CallWritten, Values
<1>3. \/ dialog' = dialog
      \/ dialog' = Closed
      \/ /\ call.at = "done" /\ call.kind = "start"
         /\ Show([job |-> call.job, status |-> "queued", key |-> NoKey])
      \/ dialog.view # NoView /\ Show([dialog.view EXCEPT !.status = "running"])
  BY <1>1 DEF Resume
<1>4. /\ dialog' \in Dialog
      /\ dialog'.view # NoView => dialog'.view.job \in Job
      /\ dialog'.poll # NoView => dialog'.poll.job \in Job
  <2>1. CASE dialog' = dialog
    BY <2>1, ViewFacts DEF Named
  <2>2. CASE dialog' = Closed
    BY <2>2, Values DEF Closed, Dialog
  <2>3. CASE /\ call.at = "done" /\ call.kind = "start"
             /\ Show([job |-> call.job, status |-> "queued", key |-> NoKey])
    <3>1. call.job \in Job
      BY <2>3, Values DEF Named
    <3>. DEFINE view == [job |-> call.job, status |-> "queued", key |-> NoKey]
    <3>2. view \in View /\ view.job \in Job
      BY <3>1, JobRange, Values DEF View, Statuses
    <3>3. Show(view)
      BY <2>3
    <3>. HIDE DEF view
    <3>. QED
      BY <3>2, <3>3, ShowFacts
  <2>4. CASE dialog.view # NoView /\ Show([dialog.view EXCEPT !.status = "running"])
    <3>. DEFINE view == [dialog.view EXCEPT !.status = "running"]
    <3>1. view \in View /\ view.job \in Job
      BY <2>4, ViewFacts DEF View, Statuses, Named
    <3>2. Show(view)
      BY <2>4
    <3>. HIDE DEF view
    <3>. QED
      BY <3>1, <3>2, ShowFacts
  <2>. QED
    BY <1>3, <2>1, <2>2, <2>3, <2>4
<1>5. NoCall.at = "idle" /\ NoCall.kind = "none"
  BY DEF NoCall
<1>6. IInv'
  BY <1>1, <1>2, <1>4, <1>5, PeopleFrame DEF Dialog
<1>7. Named'
  BY <1>2, <1>4, <1>5 DEF Named
<1>. QED
  BY <1>6, <1>7

LEMMA PollsInv == ASSUME IInv, Named, Poll \/ Polled \/ PollFails PROVE (IInv /\ Named)'
<1>1. UNCHANGED <<Server, calls, orphan>>
  BY DEF Poll, Polled, PollFails
<1>2. /\ dialog' \in Dialog
      /\ dialog'.view # NoView => dialog'.view.job \in Job
      /\ dialog'.poll # NoView => dialog'.poll.job \in Job
  <2>1. CASE Poll
    <3>. DEFINE j == dialog.view.job
                view == [job |-> j, status |-> jobs[j].status, key |-> jobs[j].key]
    <3>1. j \in Job /\ dialog' = [dialog EXCEPT !.poll = view]
      BY <2>1, ViewFacts DEF Poll, Under
    <3>2. view \in View /\ view.job \in Job
      BY <3>1, JobRange, RowType DEF View, IInv, Row
    <3>. HIDE DEF view, j
    <3>. QED
      BY <3>1, <3>2, ViewFacts DEF Dialog, Named
  <2>2. CASE Polled
    BY <2>2, ShowFacts, ViewFacts DEF Polled, Named
  <2>3. CASE PollFails
    BY <2>3, ViewFacts, Values DEF PollFails, Named, Dialog
  <2>. QED
    BY <2>1, <2>2, <2>3
<1>3. IInv'
  BY <1>1, <1>2, PeopleFrame, TypesNow DEF IInv, Dialog
<1>. QED
  BY <1>1, <1>2, <1>3 DEF Named

LEMMA OthersInv ==
    ASSUME IInv, Named, NEW c \in Callers, OtherCalls(c) \/ OtherAnswered(c)
    PROVE  (IInv /\ Named)'
<1>1. PICK r \in Call : /\ calls' = [calls EXCEPT ![c] = r] /\ r.at \in {"sent", "idle"}
                        /\ r.kind \in {"trust", "save"} => r.job \in Job
                        /\ r.kind = "none" => r.at = "idle"
                        /\ r.kind # "start"
  <2>1. CASE OtherCalls(c)
    <3>1. PICK kind \in {"trust", "save"}, j \in Job, k \in Keys :
             calls' = [calls EXCEPT ![c] = [kind |-> kind, job |-> j, at |-> "sent",
                                            key |-> IF kind = "trust" THEN k ELSE NoKey]]
      BY <2>1 DEF OtherCalls
    <3>. DEFINE r == [kind |-> kind, job |-> j, at |-> "sent", key |-> IF kind = "trust" THEN k ELSE NoKey]
    <3>2. r \in Call /\ r.at = "sent" /\ r.job = j /\ r.kind \in {"trust", "save"}
      BY JobRange, Values DEF Call
    <3>. QED
      BY <3>1, <3>2
  <2>2. CASE OtherAnswered(c)
    <3>1. NoCall \in Call /\ NoCall.at = "idle" /\ NoCall.kind = "none"
      BY Values DEF NoCall
    <3>. QED
      BY <2>2, <3>1 DEF OtherAnswered
  <2>. QED
    BY <2>1, <2>2
<1>2. /\ calls' \in [Callers -> Call] /\ calls'[c] = r
      /\ \A d \in Callers : d # c => calls'[d] = calls[d]
  BY <1>1, CallWritten
<1>3. UNCHANGED <<Server, dialog, orphan>>
  BY DEF OtherCalls, OtherAnswered
<1>4. IInv'
  BY <1>1, <1>2, <1>3, PeopleFrame, TypesNow DEF IInv
<1>5. Named'
  BY <1>1, <1>2, <1>3 DEF Named
<1>. QED
  BY <1>4, <1>5

LEMMA ServeNamed == ASSUME IInv, Named, NEW c \in Callers, Serve(c) PROVE Named'
<1>1. UNCHANGED dialog
  BY DEF Serve, StartDiscovery, ReadTrust, Trust, ReadSave, Save
<1>2. CASE StartDiscovery(c)
  <2>1. PICK j \in Job : calls[c].kind = "start" /\ calls' = [calls EXCEPT ![c] = [calls[c] EXCEPT !.job = j, !.at = "done"]]
    BY <1>2 DEF StartDiscovery
  <2>. DEFINE call == [calls[c] EXCEPT !.job = j, !.at = "done"]
  <2>2. call \in Call /\ call.job = j /\ call.kind = "start"
    BY <2>1, CallType, JobRange DEF IInv, Call
  <2>3. calls' = [calls EXCEPT ![c] = call]
    BY <2>1
  <2>. HIDE DEF call
  <2>4. calls'[c] = call /\ \A d \in Callers : d # c => calls'[d] = calls[d]
    BY <2>2, <2>3, CallWritten
  <2>. QED
    BY <1>1, <2>2, <2>4 DEF Named
<1>3. CASE ReadTrust(c) \/ Trust(c) \/ ReadSave(c) \/ Save(c)
  <2>1. calls[c].kind \in {"trust", "save"}
    BY <1>3 DEF ReadTrust, Trust, ReadSave, Save
  <2>2. /\ calls'[c].kind = calls[c].kind /\ calls'[c].job = calls[c].job
        /\ \A d \in Callers : d # c => calls'[d] = calls[d]
    <3>1. CASE \E how \in {"read", "done", "refused"} : Ends(c, how)
      BY <3>1, EndsFacts
    <3>2. CASE calls' = [calls EXCEPT ![c] = [calls[c] EXCEPT !.at = "read", !.key = jobs[calls[c].job].key]]
      BY <3>2, TypesNow DEF IInv, Call
    <3>. QED
      BY <1>3, <3>1, <3>2 DEF ReadTrust, Trust, ReadSave, Save
  <2>. QED
    BY <1>1, <2>1, <2>2 DEF Named
<1>. QED
  BY <1>2, <1>3 DEF Serve

LEMMA RestartNamed == ASSUME IInv, Named, Restart PROVE Named'
<1>1. UNCHANGED dialog
  BY DEF Restart
<1>2. ASSUME NEW c \in Callers
      PROVE  /\ calls'[c].kind = calls[c].kind /\ calls'[c].job = calls[c].job
             /\ calls'[c].at = "done" => calls[c].at = "done"
             /\ calls[c].at = "idle" => calls'[c].at = "idle"
  <2>1. calls[c] \in Call
    BY TypesNow DEF IInv
  <2>. QED
    BY <2>1 DEF Restart, Call
<1>. QED
  BY <1>1, <1>2 DEF Named

-----------------------------------------------------------------------------
(* The invariant, and what follows from it. *)

LEMMA InitInv == ASSUME Init PROVE IInv /\ Named
<1>. USE DEF Init
<1>1. NoRow.status = "none" /\ ~NoRow.secret /\ NoCall.at = "idle" /\ NoCall.kind = "none"
  BY DEF NoRow, NoCall
<1>2. TypeOK
  <2>1. dialog \in Dialog /\ sweep \in [job : 0 .. MaxJobs, status : Statuses]
    BY Values DEF Closed, Dialog, NoSweep, Statuses
  <2>2. jobs \in [Job -> Row] /\ probes \in [Slot -> ProbeRow] /\ calls \in [Callers -> Call]
    BY Values
  <2>3. saved \in [Job -> Seq(Known)] /\ trusted \in [Job -> SUBSET Keys]
    OBVIOUS
  <2>. QED
    BY <2>1, <2>2, <2>3 DEF TypeOK, ProbeRow, Call, Dialog
<1>3. Held
  BY <1>1, Values DEF Held, ProbeHeld, JobHeld, CallHeld
<1>4. Named
  BY <1>1 DEF Named, Closed
<1>. QED
  BY <1>2, <1>3, <1>4 DEF IInv

LEMMA StepInv == ASSUME IInv, Named, [Next]_vars PROVE (IInv /\ Named)'
<1>1. CASE UNCHANGED vars
  <2>1. TypeOK'
    BY <1>1 DEF IInv, TypeOK, vars
  <2>2. Held'
    BY <1>1 DEF IInv, Held, ProbeHeld, JobHeld, CallHeld, vars
  <2>. QED
    BY <1>1, <2>1, <2>2 DEF IInv, Named, vars
<1>2. CASE Person \/ Resume \/ Poll \/ Polled \/ PollFails
  BY <1>2, PersonInv, ResumeInv, PollsInv
<1>3. ASSUME NEW c \in Callers, Serve(c) PROVE (IInv /\ Named)'
  <2>1. calls[c].kind \in {"trust", "save"} => calls[c].job \in Job
    BY DEF Named
  <2>2. IInv'
    BY <1>3, <2>1, StartInv, ReadTrustInv, TrustInv, ReadSaveInv, SaveInv DEF Serve, ReadTrust, ReadSave
  <2>. QED
    BY <1>3, <2>2, ServeNamed
<1>4. ASSUME NEW c \in Callers, OtherCalls(c) \/ OtherAnswered(c) PROVE (IInv /\ Named)'
  BY <1>4, OthersInv
<1>5. ASSUME NEW p \in Slot, Probe(p) PROVE (IInv /\ Named)'
  <2>1. IInv'
    BY <1>5, BeginInv, RunInv, HostKeyInv, DiscoveredInv, CompleteInv, BreaksInv, FailInv DEF Probe
  <2>2. UNCHANGED <<calls, dialog>>
    BY <1>5 DEF Probe, Begin, Run, HostKey, Discovered, Complete, Breaks, Fail
  <2>. QED
    BY <2>1, <2>2 DEF Named
<1>6. ASSUME NEW j \in Job, Ages(j) \/ ReadExpired(j) PROVE (IInv /\ Named)'
  <2>1. UNCHANGED <<calls, dialog>>
    BY <1>6 DEF Ages, ReadExpired
  <2>. QED
    BY <1>6, <2>1, AgesInv, ReadExpiredInv DEF Named
<1>7. CASE Expire
  <2>1. UNCHANGED <<calls, dialog>>
    BY <1>7 DEF Expire
  <2>. QED
    BY <1>7, <2>1, ExpireInv DEF Named
<1>8. CASE Restart
  BY <1>8, RestartInv, RestartNamed
<1>. QED
  BY <1>1, <1>2, <1>3, <1>4, <1>5, <1>6, <1>7, <1>8 DEF Next

THEOREM Inductive == Spec => [](IInv /\ Named)
<1>1. Init => IInv /\ Named
  BY InitInv
<1>2. (IInv /\ Named) /\ [Next]_vars => (IInv /\ Named)'
  BY StepInv
<1>. QED
  BY <1>1, <1>2, PTL DEF Spec

(* Rows, probes, calls and what the dialog shows are well-formed.            *)
THEOREM TypeCorrect == Spec => []TypeOK
<1>1. IInv => TypeOK
  BY DEF IInv
<1>. QED
  BY <1>1, Inductive, PTL

(* A test makes at most one device, with a host key whose fingerprint was    *)
(* confirmed for that test, however many tabs, probes and restarts overwrite *)
(* the job: the secret goes with the save, and only a sealed job is saved.   *)
THEOREM SavesAsTrusted == Spec => []SavedAsTrusted
<1>1. IInv => SavedAsTrusted
  <2>1. SUFFICES ASSUME IInv, NEW j \in Job
                 PROVE  Len(saved[j]) <= 1 /\ \A i \in DOMAIN saved[j] : saved[j][i] \in trusted[j]
    BY DEF SavedAsTrusted, SavedOnce, SavedIsTrusted
  <2>2. saved[j] = <<>> \/ \E k \in trusted[j] : saved[j] = <<k>>
    BY <2>1 DEF IInv, Held, JobHeld
  <2>3. CASE saved[j] = <<>>
    BY <2>3
  <2>4. CASE \E k \in trusted[j] : saved[j] = <<k>>
    BY <2>4
  <2>. QED
    BY <2>2, <2>3, <2>4
<1>. QED
  BY <1>1, Inductive, PTL
=============================================================================
