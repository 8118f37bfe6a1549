------------------------------- MODULE Policy -------------------------------
(***************************************************************************)
(* The hardware policy panel (HardwarePolicy.tsx) and the requests it is   *)
(* served by (extensions.py, hardware.py).  The page reads the whole       *)
(* policy once, edits one rule of its own copy and stores the whole copy;  *)
(* beside it, a table of the rules in effect for the selected device is    *)
(* fetched anew whenever the device or the copy changes.                   *)
(* A rule is a record; the mode "inherit" stands for an absent rule, and   *)
(* -1 for a blank number.                                                  *)
(***************************************************************************)
EXTENDS Integers, Sequences, FiniteSets, SequencesExt

CONSTANTS HwDevices,  \* the devices the fleet lists while the page is open
          HwGpus,     \* the GPUs found in them
          FittedTo,   \* the device that lists each GPU, in it or "not currently present"
          Stable,     \* the GPUs known by a UUID rather than by an id
          HwProfiles, \* names a profile may be given
          GlobalSaved, \* the global thresholds have been saved
          MaxSaves,   \* bound: requests to store the policy
          MaxLoads    \* bound: unanswered requests for the table

ASSUME PolicyAssumption == "" \notin HwGpus /\ HwProfiles # {}

VARIABLES hwStored,   \* the policy the server keeps
          hwCopy,     \* the page's copy (policy), or what the page has before
          hwLoaded,   \* the copy has been read
          hwSel,      \* scope, profile, device, GPU and metric selected
          hwDraft,    \* the rule form: mode, warning, critical
          hwSave,     \* the request in flight (busy)
          hwError,    \* the error box is shown
          hwTable,    \* the rules in effect as displayed (effective)
          hwLoads,    \* requests for the table not applied yet
          hwSaves     \* saves made, for the bound

hwVars == <<hwStored, hwCopy, hwLoaded, hwSel, hwDraft, hwSave, hwError, hwTable, hwLoads, hwSaves>>

HwMetrics == {"gpu.temp_c", "cpu.temp_max_c"} \* two of the seven: one of a GPU, one of the machine
OfGpu == {"gpu.temp_c"}

Rules == [mode : {"inherit", "disabled", "custom"}, warn : {-1, 1}, crit : {-1, 0}] \* bound: these numbers
Inherit == [mode |-> "inherit", warn |-> -1, crit |-> -1]
Keys == ({"profile"} \X HwProfiles \X {""} \X HwMetrics)
          \cup ({"device"} \X HwDevices \X {""} \X HwMetrics)
          \cup ({"gpu"} \X HwDevices \X HwGpus \X OfGpu)

EmptyPolicy == [profiles |-> {}, assigned |-> [d \in HwDevices |-> ""], rules |-> <<>>]

RuleAt(doc, k) == IF k \in DOMAIN doc.rules THEN doc.rules[k] ELSE Inherit

\* A rule is set, or removed to inherit again.
WithRule(doc, k, r) ==
  [doc EXCEPT !.rules = [x \in (DOMAIN @ \ {k}) \cup (IF r = Inherit THEN {} ELSE {k}) |-> IF x = k THEN r ELSE @[x]]]

-----------------------------------------------------------------------------
(* The rules in effect, as the server resolves them: of the sources in     *)
(* order, the last that has a rule for the metric.                         *)

Sources(doc, d, g, m) ==
  <<<<"profile", RuleAt(doc, <<"profile", doc.assigned[d], "", m>>)>>, <<"device", RuleAt(doc, <<"device", d, "", m>>)>>>>
    \o (IF g = "" THEN <<>> ELSE << <<"gpu", RuleAt(doc, <<"gpu", d, g, m>>)>> >>)

Resolved(doc, d, g, m) ==
  LET sources == Sources(doc, d, g, m)
      last == SelectLastInSeq(sources, LAMBDA s : s[2] # Inherit)
  IN IF last > 0 THEN sources[last][1]
     ELSE IF g # "" /\ ~GlobalSaved THEN "unconfigured" ELSE "global"

\* The metrics with a rule in effect: one of the machine, and one per known GPU,
\* or of the device if it has none.
Sampled(d) ==
  LET known == {x \in HwGpus : FittedTo[x] = d /\ x \in Stable}
  IN {<<g, "gpu.temp_c">> : g \in IF known = {} THEN {""} ELSE known} \cup {<<"", "cpu.temp_max_c">>}

Effective(doc, d) == [c \in Sampled(d) |-> Resolved(doc, d, c[1], c[2])]

NoTable == [device |-> "", rules |-> <<>>]

-----------------------------------------------------------------------------
(* The page: every effect that a change of the copy or of the selection    *)
(* runs is part of the action that makes the change.                       *)

KeyOf(sel) == CASE sel.scope = "profile" -> <<"profile", sel.profile, "", sel.metric>>
                [] sel.scope = "gpu" -> <<"gpu", sel.device, sel.gpu, sel.metric>>
                [] OTHER -> <<"device", sel.device, "", sel.metric>>

\* The form as the effect on the selection fills it in.
Reloaded(doc, sel) == RuleAt(doc, KeyOf(sel))

\* The table's effect: what is displayed is cleared, what is in flight is disowned.
Refetch(device) ==
  /\ hwTable' = NoTable
  /\ hwLoads' = {[l EXCEPT !.live = FALSE] : l \in hwLoads}
                  \cup (IF device = "" THEN {} ELSE {[device |-> device, live |-> TRUE, answer |-> NoTable]})

HwIdle == hwSave.phase = "idle"
HwUsable == hwLoaded /\ HwIdle

PolicyInit ==
  /\ hwStored \in {EmptyPolicy,
                   [profiles |-> HwProfiles,
                    assigned |-> [d \in HwDevices |-> CHOOSE p \in HwProfiles : TRUE],
                    rules |-> [k \in {x \in Keys : x[4] = "gpu.temp_c" /\ (x[3] # "" => FittedTo[x[3]] = x[2] /\ x[3] \in Stable)}
                                 |-> [Inherit EXCEPT !.mode = "disabled"]]]}
  /\ hwCopy = EmptyPolicy
  /\ hwLoaded = FALSE
  /\ hwSel = [scope |-> "device", profile |-> "", device |-> "", gpu |-> "", metric |-> "gpu.temp_c"]
  /\ hwDraft = Inherit
  /\ hwSave = [phase |-> "idle", doc |-> EmptyPolicy]
  /\ hwError = FALSE
  /\ hwTable = NoTable
  /\ hwLoads = {}
  /\ hwSaves = 0

\* The one reading of the policy when the page opens, or its failure, which nothing repeats.
HwLoad ==
  /\ ~hwLoaded /\ ~hwError
  /\ \/ /\ hwLoaded' = TRUE
        /\ hwCopy' = hwStored
        /\ hwDraft' = Reloaded(hwStored, hwSel)
        /\ hwError' = hwError
     \/ hwError' = TRUE /\ UNCHANGED <<hwLoaded, hwCopy, hwDraft>>
  /\ UNCHANGED <<hwStored, hwSel, hwSave, hwTable, hwLoads, hwSaves>>

\* A selection other than of the device.
Chosen(sel) ==
  /\ HwUsable
  /\ hwSel' = sel
  /\ hwDraft' = Reloaded(hwCopy, sel)
  /\ UNCHANGED <<hwStored, hwCopy, hwLoaded, hwSave, hwError, hwTable, hwLoads, hwSaves>>

SelectScope(s) == Chosen([hwSel EXCEPT !.scope = s, !.metric = IF s = "gpu" /\ @ \notin OfGpu THEN "gpu.temp_c" ELSE @])

SelectProfile(p) == hwSel.scope = "profile" /\ p \in hwCopy.profiles \cup {""} /\ Chosen([hwSel EXCEPT !.profile = p])

SelectGpu(g) ==
  /\ hwSel.scope = "gpu" /\ hwSel.device \in HwDevices
  /\ g # "" => FittedTo[g] = hwSel.device
  /\ Chosen([hwSel EXCEPT !.gpu = g])

SelectMetric(m) == (hwSel.scope = "gpu" => m \in OfGpu) /\ Chosen([hwSel EXCEPT !.metric = m])

\* The GPU of the device left behind stays selected.
OnDevice_kept(d) == [hwSel EXCEPT !.device = d]

OnDevice(d) == [hwSel EXCEPT !.device = d, !.gpu = ""]

SelectDevice(d) ==
  /\ HwUsable /\ hwSel.scope # "profile" /\ d # hwSel.device
  /\ Cardinality(hwLoads) < MaxLoads
  /\ hwSel' = OnDevice(d)
  /\ hwDraft' = Reloaded(hwCopy, OnDevice(d))
  /\ Refetch(d)
  /\ UNCHANGED <<hwStored, hwCopy, hwLoaded, hwSave, hwError, hwSaves>>

Ready == IF hwSel.scope = "profile" THEN hwSel.profile # ""
         ELSE hwSel.device \in HwDevices /\ (hwSel.scope = "gpu" => hwSel.gpu # "")

\* The form is filled in; its numbers can be seen, and changed, in the custom mode only.
TypeRule(r) ==
  /\ HwUsable
  /\ hwSaves < MaxSaves /\ Ready \* bound: the form is filled in once it can be sent
  /\ r.mode = "custom" \/ (r.warn = hwDraft.warn /\ r.crit = hwDraft.crit)
  /\ hwDraft' = r
  /\ UNCHANGED <<hwStored, hwCopy, hwLoaded, hwSel, hwSave, hwError, hwTable, hwLoads, hwSaves>>

Sending(doc) ==
  /\ HwUsable /\ hwSaves < MaxSaves
  /\ hwSave' = [phase |-> "sent", doc |-> doc]
  /\ hwSaves' = hwSaves + 1
  /\ hwError' = FALSE
  /\ UNCHANGED <<hwStored, hwCopy, hwLoaded, hwSel, hwDraft, hwTable, hwLoads>>

Complained == HwUsable /\ hwError' = TRUE
                /\ UNCHANGED <<hwStored, hwCopy, hwLoaded, hwSel, hwDraft, hwSave, hwTable, hwLoads, hwSaves>>

Sound == hwDraft.mode = "custom" => hwDraft.warn >= 0 /\ (hwDraft.crit >= 0 => hwDraft.crit >= hwDraft.warn)

\* The rule the form stands for: its numbers count in the custom mode only.
Meant == IF hwDraft.mode = "custom" THEN hwDraft ELSE [Inherit EXCEPT !.mode = hwDraft.mode]

SaveRule ==
  /\ Ready
  /\ \/ Sound /\ Sending(WithRule(hwCopy, KeyOf(hwSel), Meant))
     \/ ~Sound /\ Complained

CreateProfile(p) ==
  \/ p \notin hwCopy.profiles /\ Sending([hwCopy EXCEPT !.profiles = @ \cup {p}])
  \/ p \in hwCopy.profiles /\ Complained

AssignProfile(p) ==
  /\ hwSel.scope # "profile" /\ hwSel.device \in HwDevices
  /\ p \in hwCopy.profiles \cup {""} /\ p # hwCopy.assigned[hwSel.device]
  /\ Sending([hwCopy EXCEPT !.assigned[hwSel.device] = p])

-----------------------------------------------------------------------------
(* The server and the answers.                                             *)

\* What the server accepts: GPUs by their UUIDs, ordered pairs, profiles that exist.
Acceptable(doc) ==
  /\ \A k \in DOMAIN doc.rules :
       LET r == doc.rules[k]
       IN /\ k[1] = "gpu" => k[3] \in Stable
          /\ r.mode = "custom" => r.warn >= 0 /\ (r.crit >= 0 => r.crit >= r.warn)
  /\ \A d \in HwDevices : doc.assigned[d] \in doc.profiles \cup {""}

\* The document is stored as it is.
StorePolicy ==
  /\ hwSave.phase = "sent"
  /\ IF Acceptable(hwSave.doc)
     THEN hwStored' = hwSave.doc /\ hwSave' = [hwSave EXCEPT !.phase = "stored"]
     ELSE hwStored' = hwStored /\ hwSave' = [hwSave EXCEPT !.phase = "refused"]
  /\ UNCHANGED <<hwCopy, hwLoaded, hwSel, hwDraft, hwError, hwTable, hwLoads, hwSaves>>

HwDone == [phase |-> "idle", doc |-> EmptyPolicy]

Saved ==
  /\ hwSave.phase = "stored" /\ Cardinality(hwLoads) < MaxLoads
  /\ hwCopy' = hwSave.doc
  /\ hwDraft' = Reloaded(hwSave.doc, hwSel)
  /\ Refetch(hwSel.device)
  /\ hwSave' = HwDone
  /\ UNCHANGED <<hwStored, hwLoaded, hwSel, hwError, hwSaves>>

\* The request is refused, or it, or its answer, is lost.
NotSaved ==
  /\ hwSave.phase # "idle"
  /\ hwError' = TRUE
  /\ hwSave' = HwDone
  /\ UNCHANGED <<hwStored, hwCopy, hwLoaded, hwSel, hwDraft, hwTable, hwLoads, hwSaves>>

ServeTable(l) ==
  /\ l \in hwLoads /\ l.answer = NoTable
  /\ hwLoads' = (hwLoads \ {l}) \cup {[l EXCEPT !.answer = [device |-> l.device, rules |-> Effective(hwStored, l.device)]]}
  /\ UNCHANGED <<hwStored, hwCopy, hwLoaded, hwSel, hwDraft, hwSave, hwError, hwTable, hwSaves>>

\* An answer is applied whatever effect asked for it.
TableArrives_any(l) ==
  /\ l \in hwLoads /\ l.answer # NoTable
  /\ hwLoads' = hwLoads \ {l}
  /\ hwTable' = l.answer
  /\ UNCHANGED <<hwStored, hwCopy, hwLoaded, hwSel, hwDraft, hwSave, hwError, hwSaves>>

TableArrives(l) ==
  /\ l \in hwLoads /\ l.answer # NoTable
  /\ hwLoads' = hwLoads \ {l}
  /\ hwTable' = IF l.live THEN l.answer ELSE hwTable
  /\ UNCHANGED <<hwStored, hwCopy, hwLoaded, hwSel, hwDraft, hwSave, hwError, hwSaves>>

TableFails(l) ==
  /\ l \in hwLoads
  /\ hwLoads' = hwLoads \ {l}
  /\ hwError' = (hwError \/ l.live)
  /\ UNCHANGED <<hwStored, hwCopy, hwLoaded, hwSel, hwDraft, hwSave, hwTable, hwSaves>>

PolicyNext ==
  \/ HwLoad
  \/ \E s \in {"device", "gpu", "profile"} : SelectScope(s)
  \/ \E p \in HwProfiles \cup {""} : SelectProfile(p) \/ AssignProfile(p)
  \/ \E g \in HwGpus \cup {""} : SelectGpu(g)
  \/ \E m \in HwMetrics : SelectMetric(m)
  \/ \E d \in HwDevices \cup {""} : SelectDevice(d)
  \/ \E r \in Rules : TypeRule(r)
  \/ SaveRule
  \/ \E p \in HwProfiles : CreateProfile(p)
  \/ StorePolicy \/ Saved \/ NotSaved
  \/ \E l \in hwLoads : ServeTable(l) \/ TableArrives(l) \/ TableFails(l)

-----------------------------------------------------------------------------

(* A rule for a GPU is stored under the device the GPU is in, whatever the *)
(* order in which scope, device and GPU were selected before saving.       *)
RulesOnFittedGpus == \A k \in DOMAIN hwStored.rules : k[1] = "gpu" => FittedTo[k[3]] = k[2] /\ k[3] \in Stable

CopyIsStored == HwUsable /\ ~hwError => hwCopy = hwStored

TableCurrent ==
  hwTable # NoTable /\ HwUsable /\ ~hwError =>
    /\ hwTable.device = hwSel.device
    /\ \A c \in DOMAIN hwTable.rules :
         LET d == hwSel.device
             Has(k) == k \in DOMAIN hwStored.rules
             byGpu == Has(<<"gpu", d, c[1], c[2]>>)
             byDevice == Has(<<"device", d, "", c[2]>>)
             byProfile == Has(<<"profile", hwStored.assigned[d], "", c[2]>>)
         IN /\ hwTable.rules[c] = "gpu" <=> byGpu
            /\ hwTable.rules[c] = "device" <=> byDevice /\ ~byGpu
            /\ hwTable.rules[c] = "profile" <=> byProfile /\ ~byDevice /\ ~byGpu

(* While nothing is in flight and no error is shown, the page's copy, the  *)
(* base of the next save of the whole policy, is what the server keeps (a  *)
(* save whose answer was lost is never passed over in silence), and the    *)
(* table displayed belongs to the device selected and gives each metric's  *)
(* source by the documented precedence in the stored policy: GPU before    *)
(* device before profile before global.                                    *)
PolicyCurrent == CopyIsStored /\ TableCurrent
=============================================================================
