----------------------------- MODULE ConsoleProofs -----------------------------
(***************************************************************************)
(* Properties of the console's pages and of the list they share, for any   *)
(* channels, devices, GPUs, profiles, sources, periods, points and numbers *)
(* of requests.                                                            *)
(***************************************************************************)
EXTENDS Channels, Policy, Preferences, History, Samples, LiveView, Chart, FiniteSetTheorems, SequenceTheorems, TLAPS

-----------------------------------------------------------------------------
(* Channels: what is in the form, in flight and stored was typed for the     *)
(* channel it belongs to.                                                    *)

FormHome == chForm.secret \in {"", IF chForm.editing = "" THEN "new" ELSE chForm.editing}

ActHome ==
    /\ chAct.kind = "toggle" => chAct.id \in ChIds /\ chAct.secret = ""
    /\ chAct.kind = "save" => \/ chAct.id = "" /\ chAct.secret = "new"
                              \/ chAct.id \in ChIds /\ chAct.secret \in {"", chAct.id}

ChannelsInv == ChannelsTypeOK /\ SecretsStayHome /\ FormHome /\ ActHome

LEMMA ChannelValues ==
    /\ Gone \in Channel /\ NoList \in ChannelList /\ Blank \in ChannelForm /\ ChIdle \in ChannelAct
    /\ ChIdle.kind = "idle" /\ Blank.secret = "" /\ Blank.editing = "" /\ ~Gone.present
    /\ [live |-> TRUE, answer |-> NoList] \in ChannelPoll
<1>1. Gone \in Channel /\ ~Gone.present
  BY DEF Gone, Channel, Secrets
<1>2. NoList \in ChannelList
  BY <1>1 DEF NoList, ChannelList
<1>. QED
  BY <1>1, <1>2 DEF ChannelPoll, Blank, ChannelForm, ChIdle, ChannelAct, Secrets

LEMMA ChannelsBegin == ASSUME ChannelsInit PROVE ChannelsInv
<1>. USE DEF ChannelsInit
<1>1. PICK old : chStored = [c \in ChIds |-> IF c \in old THEN [present |-> TRUE, enabled |-> TRUE, secret |-> c] ELSE Gone]
  OBVIOUS
<1>2. chStored \in [ChIds -> Channel] /\ SecretsStayHome
  <2>1. \A c \in ChIds : [present |-> TRUE, enabled |-> TRUE, secret |-> c] \in Channel
    BY DEF Channel, Secrets
  <2>. QED
    BY <1>1, <2>1, ChannelValues DEF SecretsStayHome
<1>. QED
  BY <1>2, ChannelValues DEF ChannelsInv, ChannelsTypeOK, Windows, FormHome, ActHome

(* A step of the form gives it a new content that is at home.                *)
LEMMA FormInv ==
    ASSUME ChannelsInv, TypeSecret \/ CheckEnabled \/ CancelEdit \/ (\E c \in ChIds : Edit(c))
    PROVE  ChannelsInv'
<1>. DEFINE e == chForm.editing
<1>0. FormHome /\ chForm \in ChannelForm
  BY DEF ChannelsInv, ChannelsTypeOK
<1>1. PICK form \in ChannelForm : /\ FormStep(form)
                                  /\ form.secret \in {"", IF form.editing = "" THEN "new" ELSE form.editing}
  <2>1. CASE TypeSecret
    <3>. DEFINE form == [chForm EXCEPT !.secret = IF e = "" THEN "new" ELSE e]
    <3>1. form \in ChannelForm /\ form.editing = e /\ form.secret = (IF e = "" THEN "new" ELSE e)
      BY <1>0 DEF ChannelForm, Secrets
    <3>2. FormStep(form)
      BY <2>1 DEF TypeSecret
    <3>. HIDE DEF form
    <3>. QED
      BY <3>1, <3>2
  <2>2. CASE CheckEnabled
    <3>. DEFINE form == [chForm EXCEPT !.enabled = ~chForm.enabled]
    <3>1. form \in ChannelForm /\ form.editing = e /\ form.secret = chForm.secret
      BY <1>0 DEF ChannelForm
    <3>2. FormStep(form)
      BY <2>2 DEF CheckEnabled
    <3>. HIDE DEF form
    <3>. QED
      BY <1>0, <3>1, <3>2 DEF FormHome
  <2>3. CASE CancelEdit
    BY <2>3, ChannelValues DEF CancelEdit
  <2>4. CASE \E c \in ChIds : Edit(c)
    <3>1. PICK c \in ChIds : FormStep(Edited(c))
      BY <2>4 DEF Edit
    <3>2. chLists.rows[c].enabled \in BOOLEAN
      BY DEF ChannelsInv, ChannelsTypeOK, ChannelList, Channel
    <3>3. Edited(c) \in ChannelForm /\ Edited(c).secret = ""
      BY <3>2 DEF Edited, ChannelForm, Secrets
    <3>. QED
      BY <3>1, <3>3
  <2>. QED
    BY <2>1, <2>2, <2>3, <2>4
<1>2. chForm' = form /\ UNCHANGED <<chStored, chWindow, chLists, chWindowSeen, chPolls, chAct, chError, chActs>>
  BY <1>1 DEF FormStep
<1>. QED
  BY <1>1, <1>2 DEF ChannelsInv, ChannelsTypeOK, SecretsStayHome, FormHome, ActHome

(* The buttons send what the form or the row belongs to.                     *)
LEMMA ButtonInv ==
    ASSUME ChannelsInv,
           SaveChannel \/ AddWindow \/ EndWindow \/ (\E c \in ChIds : Toggle(c) \/ SendTest(c) \/ DeleteChannel(c))
    PROVE  ChannelsInv'
<1>1. PICK kind \in {"save", "window", "end", "toggle", "test", "delete"}, id \in ChIds \cup {""},
           secret \in Secrets, enabled \in BOOLEAN :
         /\ Begin(kind, id, secret, enabled)
         /\ kind = "toggle" => id \in ChIds /\ secret = ""
         /\ kind = "save" => \/ id = "" /\ secret = "new"
                             \/ id \in ChIds /\ secret \in {"", id}
  <2>1. CASE SaveChannel
    <3>1. /\ chForm.editing \in ChIds \cup {""} /\ chForm.secret \in Secrets /\ chForm.enabled \in BOOLEAN
          /\ chForm.secret \in {"", IF chForm.editing = "" THEN "new" ELSE chForm.editing}
      BY DEF ChannelsInv, ChannelsTypeOK, ChannelForm, FormHome
    <3>. QED
      BY <2>1, <3>1 DEF SaveChannel
  <2>2. CASE AddWindow
    BY <2>2 DEF AddWindow, Secrets
  <2>3. CASE EndWindow
    BY <2>3 DEF EndWindow, Secrets
  <2>4. CASE \E c \in ChIds : Toggle(c) \/ SendTest(c) \/ DeleteChannel(c)
    <3>1. PICK c \in ChIds : Toggle(c) \/ SendTest(c) \/ DeleteChannel(c)
      BY <2>4
    <3>2. (~chLists.rows[c].enabled) \in BOOLEAN
      OBVIOUS
    <3>3. CASE Toggle(c)
      BY <3>2, <3>3 DEF Toggle, Secrets
    <3>4. CASE SendTest(c) \/ DeleteChannel(c)
      BY <3>4 DEF SendTest, DeleteChannel, Secrets
    <3>. QED
      BY <3>1, <3>3, <3>4
  <2>. QED
    BY <2>1, <2>2, <2>3, <2>4
<1>2. /\ chAct' = [kind |-> kind, id |-> id, secret |-> secret, enabled |-> enabled, phase |-> "sent"]
      /\ chError' = FALSE
      /\ UNCHANGED <<chStored, chWindow, chLists, chWindowSeen, chPolls, chForm>>
  BY <1>1 DEF Begin
<1>3. ActHome' /\ chAct' \in ChannelAct
  BY <1>1, <1>2 DEF ActHome, ChannelAct
<1>. QED
  BY <1>2, <1>3 DEF ChannelsInv, ChannelsTypeOK, SecretsStayHome, FormHome

(* The phase of the request in flight moves on.                              *)
LEMMA PhaseMoves ==
    ASSUME ChannelsInv, NEW phase \in {"deleting", "ending", "done", "refused"}, chAct' = [chAct EXCEPT !.phase = phase]
    PROVE  ActHome' /\ chAct' \in ChannelAct
<1>1. chAct \in ChannelAct /\ ActHome
  BY DEF ChannelsInv, ChannelsTypeOK
<1>2. /\ chAct' \in ChannelAct /\ chAct'.kind = chAct.kind /\ chAct'.id = chAct.id /\ chAct'.secret = chAct.secret
      /\ chAct'.phase # "sent"
  BY <1>1 DEF ChannelAct
<1>. QED
  BY <1>1, <1>2 DEF ActHome

LEMMA ServeInv ==
    ASSUME ChannelsInv, Serve
    PROVE  ChannelsInv'
<1>0. chStored \in [ChIds -> Channel] /\ SecretsStayHome /\ ActHome /\ chAct \in ChannelAct
  BY DEF ChannelsInv, ChannelsTypeOK
<1>1. UNCHANGED <<chLists, chWindowSeen, chPolls, chForm, chError>>
  BY DEF Serve
<1>2. ActHome' /\ chAct' \in ChannelAct
  BY PhaseMoves DEF Serve, AddChannel, EditChannel, TestChannel, RemoveChannel, PlanWindow, FinishWindow, CommitWindow
<1>3. chStored' \in [ChIds -> Channel] /\ SecretsStayHome'
  <2>1. CASE UNCHANGED chStored
    BY <1>0, <2>1 DEF SecretsStayHome
  <2>2. CASE AddChannel
    <3>1. PICK c : chStored' = [chStored EXCEPT ![c] = [present |-> TRUE, enabled |-> chAct.enabled, secret |-> c]]
      BY <1>0, <2>2, ChannelsAssumption DEF AddChannel, ActHome
    <3>2. chAct.enabled \in BOOLEAN
      BY <1>0 DEF ChannelAct
    <3>. QED
      BY <1>0, <3>1, <3>2 DEF SecretsStayHome, Channel, Secrets
  <2>3. CASE EditChannel /\ chStored[chAct.id].present
    <3>. DEFINE row == [present |-> TRUE, enabled |-> chAct.enabled,
                        secret |-> IF chAct.secret = "" THEN chStored[chAct.id].secret ELSE chAct.secret]
    <3>1. /\ chAct.id \in ChIds /\ chAct.secret \in {"", chAct.id}
          /\ chStored' = [chStored EXCEPT ![chAct.id] = row]
      BY <1>0, <2>3 DEF EditChannel, Stored, Kept, ActHome
    <3>2. row \in Channel /\ row.secret = chAct.id
      BY <1>0, <2>3, <3>1 DEF Channel, ChannelAct, Secrets, SecretsStayHome
    <3>. HIDE DEF row
    <3>. QED
      BY <1>0, <3>1, <3>2 DEF SecretsStayHome
  <2>4. CASE RemoveChannel
    BY <1>0, <2>4, ChannelValues DEF RemoveChannel, SecretsStayHome
  <2>. QED
    BY <2>1, <2>2, <2>3, <2>4 DEF Serve, EditChannel, TestChannel, PlanWindow, FinishWindow, CommitWindow
<1>4. chWindow' \in Windows
  BY <1>0 DEF Serve, AddChannel, EditChannel, TestChannel, RemoveChannel, PlanWindow, FinishWindow, CommitWindow,
     ChannelsInv, ChannelsTypeOK, Windows
<1>. QED
  BY <1>1, <1>2, <1>3, <1>4 DEF ChannelsInv, ChannelsTypeOK, FormHome

(* Answers on their way, and the list displayed.                             *)
LEMMA PollInv ==
    ASSUME ChannelsInv, Poll \/ WindowShown \/ \E p \in chPolls : AnswerPoll(p) \/ PollArrives(p) \/ PollFails(p)
    PROVE  ChannelsInv'
<1>0. chPolls \subseteq ChannelPoll /\ chLists \in ChannelList /\ chStored \in [ChIds -> Channel]
      /\ chWindow \in Windows /\ chWindowSeen \in Windows
  BY DEF ChannelsInv, ChannelsTypeOK
<1>1. UNCHANGED <<chStored, chWindow, chForm, chAct, chError>> /\ chWindowSeen' \in Windows
  BY <1>0 DEF Poll, WindowShown, AnswerPoll, PollArrives, PollFails
<1>2. Public(chStored) \in ChannelList
  <2>1. \A c \in ChIds : [chStored[c] EXCEPT !.secret = ""] \in Channel
    BY <1>0 DEF Channel, Secrets
  <2>. QED
    BY <2>1 DEF Public, ChannelList
<1>3. chPolls' \subseteq ChannelPoll
  <2>1. CASE \E p \in chPolls : AnswerPoll(p)
    <3>1. PICK p \in chPolls : chPolls' = (chPolls \ {p}) \cup {[p EXCEPT !.answer = Public(chStored)]}
      BY <2>1 DEF AnswerPoll
    <3>2. [p EXCEPT !.answer = Public(chStored)] \in ChannelPoll
      BY <1>0, <1>2 DEF ChannelPoll
    <3>. QED
      BY <1>0, <3>1, <3>2
  <2>2. CASE Poll
    BY <1>0, <2>2, ChannelValues DEF Poll
  <2>3. CASE WindowShown \/ \E p \in chPolls : PollArrives(p) \/ PollFails(p)
    BY <1>0, <2>3 DEF WindowShown, PollArrives, PollFails
  <2>. QED
    BY <2>1, <2>2, <2>3
<1>4. chLists' \in ChannelList
  BY <1>0 DEF Poll, WindowShown, AnswerPoll, PollArrives, PollFails, ChannelPoll
<1>. QED
  BY <1>1, <1>3, <1>4 DEF ChannelsInv, ChannelsTypeOK, SecretsStayHome, FormHome, ActHome

LEMMA ChannelsStep ==
    ASSUME ChannelsInv, [ChannelsNext]_chVars
    PROVE  ChannelsInv'
<1>1. CASE UNCHANGED chVars
  BY <1>1 DEF chVars, ChannelsInv, ChannelsTypeOK, SecretsStayHome, FormHome, ActHome
<1>2. CASE \/ TypeSecret \/ CheckEnabled \/ CancelEdit \/ SaveChannel \/ AddWindow \/ EndWindow
           \/ \E c \in ChIds : Edit(c) \/ Toggle(c) \/ SendTest(c) \/ DeleteChannel(c)
  BY <1>2, FormInv, ButtonInv
<1>3. CASE Serve
  BY <1>3, ServeInv
<1>4. CASE ActDone \/ ActFails
  <2>1. /\ chStored' = chStored /\ chWindow' = chWindow /\ chWindowSeen' = chWindowSeen /\ chAct' = ChIdle
        /\ chForm' \in {chForm, Blank} /\ chError' \in BOOLEAN /\ chLists' \in {chLists, NoList}
        /\ \/ chPolls' = chPolls
           \/ chPolls' = {[p EXCEPT !.live = FALSE] : p \in chPolls} \cup {[live |-> TRUE, answer |-> NoList]}
    BY <1>4 DEF ActDone, ActFails, ReloadLists, ChannelsInv, ChannelsTypeOK
  <2>2. chPolls' \subseteq ChannelPoll
    <3>1. \A p \in ChannelPoll : [p EXCEPT !.live = FALSE] \in ChannelPoll
      BY DEF ChannelPoll
    <3>. QED
      BY <2>1, <3>1, ChannelValues DEF ChannelsInv, ChannelsTypeOK
  <2>3. ActHome' /\ FormHome'
    BY <2>1, ChannelValues DEF ChannelsInv, ActHome, FormHome
  <2>. QED
    BY <2>1, <2>2, <2>3, ChannelValues DEF ChannelsInv, ChannelsTypeOK, SecretsStayHome
<1>5. CASE WindowTime
  BY <1>5 DEF WindowTime, ChannelsInv, ChannelsTypeOK, Windows, SecretsStayHome, FormHome, ActHome
<1>6. CASE Poll \/ WindowShown \/ \E p \in chPolls : AnswerPoll(p) \/ PollArrives(p) \/ PollFails(p)
  BY <1>6, PollInv
<1>. QED
  BY <1>1, <1>2, <1>3, <1>4, <1>5, <1>6 DEF ChannelsNext

(* No address or token reaches another channel: the form forgets what was    *)
(* typed when another channel is edited, and a blank secret keeps the own.   *)
THEOREM SecretsAtHome == ChannelsInit /\ [][ChannelsNext]_chVars => []SecretsStayHome
<1>1. ChannelsInit => ChannelsInv
  BY ChannelsBegin
<1>2. ChannelsInv /\ [ChannelsNext]_chVars => ChannelsInv'
  BY ChannelsStep
<1>3. ChannelsInv => SecretsStayHome
  BY DEF ChannelsInv
<1>. QED
  BY <1>1, <1>2, <1>3, PTL

-----------------------------------------------------------------------------
(* Policy: every copy of the policy has its rules for GPUs under the device  *)
(* the GPU is in; only the one being saved may name a GPU by an id, and the   *)
(* server refuses it.                                                        *)

RuleTables == UNION {[K -> Rules] : K \in SUBSET Keys}
PolicyDocs == [profiles : SUBSET HwProfiles, assigned : [HwDevices -> HwProfiles \cup {""}], rules : RuleTables]
Selections == [scope : {"device", "gpu", "profile"}, profile : HwProfiles \cup {""}, device : HwDevices \cup {""},
               gpu : HwGpus \cup {""}, metric : HwMetrics]
PolicySaves == [phase : {"idle", "sent", "stored", "refused"}, doc : PolicyDocs]

FitsIn(doc) == \A k \in DOMAIN doc.rules : k[1] = "gpu" => FittedTo[k[3]] = k[2]
KnownIn(doc) == \A k \in DOMAIN doc.rules : k[1] = "gpu" => k[3] \in Stable
GoodDoc(doc) == doc \in PolicyDocs /\ FitsIn(doc) /\ KnownIn(doc)

SelectionFits ==
    /\ hwSel \in Selections
    /\ hwSel.gpu # "" => FittedTo[hwSel.gpu] = hwSel.device
    /\ hwSel.scope = "gpu" => hwSel.metric \in OfGpu

SaveFits ==
    /\ hwSave \in PolicySaves /\ FitsIn(hwSave.doc)
    /\ hwSave.phase = "stored" => KnownIn(hwSave.doc)

PolicyInv == GoodDoc(hwStored) /\ GoodDoc(hwCopy) /\ SelectionFits /\ SaveFits /\ hwDraft \in Rules

LEMMA KeyShapes ==
    /\ \A p \in HwProfiles, m \in HwMetrics :
          <<"profile", p, "", m>> \in Keys /\ <<"profile", p, "", m>>[1] = "profile"
    /\ \A d \in HwDevices, m \in HwMetrics :
          <<"device", d, "", m>> \in Keys /\ <<"device", d, "", m>>[1] = "device"
    /\ \A d \in HwDevices, g \in HwGpus, m \in OfGpu :
          /\ <<"gpu", d, g, m>> \in Keys
          /\ <<"gpu", d, g, m>>[1] = "gpu" /\ <<"gpu", d, g, m>>[2] = d /\ <<"gpu", d, g, m>>[3] = g
  BY DEF Keys

LEMMA RuleRead == ASSUME NEW doc \in PolicyDocs, NEW k PROVE RuleAt(doc, k) \in Rules
<1>1. PICK K \in SUBSET Keys : doc.rules \in [K -> Rules]
  BY DEF PolicyDocs, RuleTables
<1>. QED
  BY <1>1 DEF RuleAt, Inherit, Rules

LEMMA RuleSet ==
    ASSUME NEW doc \in PolicyDocs, NEW k \in Keys, NEW r \in Rules
    PROVE  /\ WithRule(doc, k, r) \in PolicyDocs
           /\ DOMAIN WithRule(doc, k, r).rules \subseteq (DOMAIN doc.rules) \cup {k}
<1>. DEFINE D == (DOMAIN doc.rules \ {k}) \cup (IF r = Inherit THEN {} ELSE {k})
            F == [x \in D |-> IF x = k THEN r ELSE doc.rules[x]]
<1>1. PICK K \in SUBSET Keys : doc.rules \in [K -> Rules]
  BY DEF PolicyDocs, RuleTables
<1>2. D \in SUBSET Keys /\ D \subseteq (DOMAIN doc.rules) \cup {k} /\ F \in [D -> Rules]
  BY <1>1
<1>3. F \in RuleTables /\ DOMAIN F = D
  BY <1>2 DEF RuleTables
<1>4. WithRule(doc, k, r) = [doc EXCEPT !.rules = F]
  BY DEF WithRule
<1>. HIDE DEF F, D
<1>5. WithRule(doc, k, r) \in PolicyDocs /\ WithRule(doc, k, r).rules = F
  BY <1>3, <1>4 DEF PolicyDocs
<1>. QED
  BY <1>2, <1>3, <1>5

LEMMA NothingInEmpty == GoodDoc(EmptyPolicy) /\ HwDone \in PolicySaves
<1>. DEFINE none == [d \in HwDevices |-> ""]
<1>1. <<>> \in RuleTables /\ DOMAIN <<>> = {}
  <2>1. <<>> \in [{} -> Rules] /\ {} \in SUBSET Keys
    OBVIOUS
  <2>. QED
    BY <2>1 DEF RuleTables
<1>2. none \in [HwDevices -> HwProfiles \cup {""}]
  OBVIOUS
<1>3. EmptyPolicy = [profiles |-> {}, assigned |-> none, rules |-> <<>>]
  BY DEF EmptyPolicy
<1>. HIDE DEF none
<1>4. EmptyPolicy \in PolicyDocs /\ EmptyPolicy.rules = <<>>
  BY <1>1, <1>2, <1>3 DEF PolicyDocs
<1>. QED
  BY <1>1, <1>4 DEF GoodDoc, FitsIn, KnownIn, HwDone, PolicySaves

LEMMA PolicyBegin == ASSUME PolicyInit PROVE PolicyInv
<1>1. hwCopy = EmptyPolicy /\ hwDraft \in Rules
  BY DEF PolicyInit, Inherit, Rules
<1>2. SelectionFits
  BY DEF PolicyInit, SelectionFits, Selections, HwMetrics, OfGpu
<1>3. hwSave = HwDone /\ HwDone.doc = EmptyPolicy
  BY DEF PolicyInit, HwDone
<1>4. SaveFits
  BY <1>3, NothingInEmpty DEF SaveFits, GoodDoc, KnownIn, HwDone
<1>5. GoodDoc(hwStored)
  <2>1. CASE hwStored = EmptyPolicy
    BY <2>1, NothingInEmpty
  <2>2. CASE hwStored # EmptyPolicy
    <3>. DEFINE K == {x \in Keys : x[4] = "gpu.temp_c" /\ (x[3] # "" => FittedTo[x[3]] = x[2] /\ x[3] \in Stable)}
                R == [k \in K |-> [Inherit EXCEPT !.mode = "disabled"]]
                A == [d \in HwDevices |-> CHOOSE p \in HwProfiles : TRUE]
    <3>1. hwStored = [profiles |-> HwProfiles, assigned |-> A, rules |-> R]
      BY <2>2 DEF PolicyInit
    <3>2. A \in [HwDevices -> HwProfiles \cup {""}]
      BY PolicyAssumption
    <3>3. [Inherit EXCEPT !.mode = "disabled"] \in Rules
      BY DEF Inherit, Rules
    <3>4. R \in [K -> Rules] /\ K \in SUBSET Keys /\ DOMAIN R = K
      BY <3>3
    <3>5. R \in RuleTables
      BY <3>4 DEF RuleTables
    <3>6. \A k \in K : k[1] = "gpu" => FittedTo[k[3]] = k[2] /\ k[3] \in Stable
      BY PolicyAssumption DEF Keys
    <3>. HIDE DEF K, R, A
    <3>. QED
      BY <3>1, <3>2, <3>4, <3>5, <3>6 DEF GoodDoc, PolicyDocs, FitsIn, KnownIn
  <2>. QED
    BY <2>1, <2>2
<1>. QED
  BY <1>1, <1>2, <1>4, <1>5, NothingInEmpty DEF PolicyInv

(* A selection keeps the device and the GPU together.                        *)
LEMMA SelectInv ==
    ASSUME PolicyInv,
           \/ \E s \in {"device", "gpu", "profile"} : SelectScope(s)
           \/ \E p \in HwProfiles \cup {""} : SelectProfile(p)
           \/ \E g \in HwGpus \cup {""} : SelectGpu(g)
           \/ \E m \in HwMetrics : SelectMetric(m)
           \/ \E d \in HwDevices \cup {""} : SelectDevice(d)
    PROVE  PolicyInv'
<1>0. hwSel \in Selections /\ SelectionFits /\ hwCopy \in PolicyDocs
  BY DEF PolicyInv, SelectionFits, GoodDoc
<1>1. UNCHANGED <<hwStored, hwCopy, hwSave>> /\ hwDraft' \in Rules
  <2>1. UNCHANGED <<hwStored, hwCopy, hwSave>> /\ \E sel : hwDraft' = RuleAt(hwCopy, KeyOf(sel))
    BY DEF SelectScope, SelectProfile, SelectGpu, SelectMetric, SelectDevice, Chosen, Reloaded
  <2>. QED
    BY <1>0, <2>1, RuleRead
<1>2. SelectionFits'
  <2>1. CASE \E s \in {"device", "gpu", "profile"} : SelectScope(s)
    BY <1>0, <2>1 DEF SelectScope, Chosen, SelectionFits, Selections, HwMetrics, OfGpu
  <2>2. CASE \E p \in HwProfiles \cup {""} : SelectProfile(p)
    BY <1>0, <2>2 DEF SelectProfile, Chosen, SelectionFits, Selections
  <2>3. CASE \E g \in HwGpus \cup {""} : SelectGpu(g)
    BY <1>0, <2>3 DEF SelectGpu, Chosen, SelectionFits, Selections
  <2>4. CASE \E m \in HwMetrics : SelectMetric(m)
    BY <1>0, <2>4 DEF SelectMetric, Chosen, SelectionFits, Selections
  <2>5. CASE \E d \in HwDevices \cup {""} : SelectDevice(d)
    BY <1>0, <2>5 DEF SelectDevice, OnDevice, SelectionFits, Selections
  <2>. QED
    BY <2>1, <2>2, <2>3, <2>4, <2>5
<1>. QED
  BY <1>1, <1>2 DEF PolicyInv, GoodDoc, FitsIn, KnownIn, SaveFits

(* What is sent is the copy with one change; a rule for a GPU is keyed by    *)
(* the selection.                                                            *)
LEMMA SendInv ==
    ASSUME PolicyInv, NEW doc \in PolicyDocs, Sending(doc), FitsIn(doc)
    PROVE  PolicyInv'
<1>1. hwSave' = [phase |-> "sent", doc |-> doc] /\ UNCHANGED <<hwStored, hwCopy, hwSel, hwDraft>>
  BY DEF Sending
<1>2. hwSave' \in PolicySaves /\ hwSave'.doc = doc /\ hwSave'.phase = "sent"
  BY <1>1 DEF PolicySaves
<1>3. SaveFits'
  BY <1>2 DEF SaveFits, FitsIn, KnownIn
<1>. QED
  BY <1>1, <1>3 DEF PolicyInv, GoodDoc, FitsIn, KnownIn, SelectionFits

LEMMA SaveRuleInv == ASSUME PolicyInv, SaveRule PROVE PolicyInv'
<1>. DEFINE key == KeyOf(hwSel)
            doc == WithRule(hwCopy, key, Meant)
<1>0. hwSel \in Selections /\ SelectionFits /\ hwCopy \in PolicyDocs /\ Ready
  BY DEF PolicyInv, SelectionFits, GoodDoc, SaveRule
<1>1. /\ key \in Keys
      /\ key[1] = "gpu" => FittedTo[key[3]] = key[2]
  <2>1. CASE hwSel.scope = "profile"
    <3>1. key = <<"profile", hwSel.profile, "", hwSel.metric>>
      BY <2>1 DEF KeyOf
    <3>2. hwSel.profile \in HwProfiles /\ hwSel.metric \in HwMetrics
      BY <1>0, <2>1 DEF Ready, Selections
    <3>. HIDE DEF key
    <3>3. key \in Keys /\ key[1] = "profile"
      BY <3>1, <3>2, KeyShapes
    <3>. QED
      BY <3>1, <3>2, <3>3
  <2>2. CASE hwSel.scope = "device"
    <3>1. key = <<"device", hwSel.device, "", hwSel.metric>>
      BY <2>2 DEF KeyOf
    <3>2. hwSel.device \in HwDevices /\ hwSel.metric \in HwMetrics
      BY <1>0, <2>2 DEF Ready, Selections
    <3>. HIDE DEF key
    <3>3. key \in Keys /\ key[1] = "device"
      BY <3>1, <3>2, KeyShapes
    <3>. QED
      BY <3>1, <3>2, <3>3
  <2>3. CASE hwSel.scope = "gpu"
    <3>1. key = <<"gpu", hwSel.device, hwSel.gpu, hwSel.metric>>
      BY <2>3 DEF KeyOf
    <3>2. /\ hwSel.device \in HwDevices /\ hwSel.gpu \in HwGpus /\ hwSel.metric \in OfGpu /\ hwSel.gpu # ""
          /\ FittedTo[hwSel.gpu] = hwSel.device
      BY <1>0, <2>3 DEF Ready, Selections, SelectionFits
    <3>. HIDE DEF key
    <3>3. key \in Keys /\ key[1] = "gpu" /\ key[2] = hwSel.device /\ key[3] = hwSel.gpu
      BY <3>1, <3>2, KeyShapes
    <3>. QED
      BY <3>1, <3>2, <3>3
  <2>. QED
    BY <1>0, <2>1, <2>2, <2>3 DEF Selections
<1>2. Meant \in Rules
  BY DEF PolicyInv, Meant, Rules, Inherit
<1>3. CASE Sending(doc)
  <2>1. doc \in PolicyDocs /\ DOMAIN doc.rules \subseteq (DOMAIN hwCopy.rules) \cup {key}
    BY <1>0, <1>1, <1>2, RuleSet
  <2>. HIDE DEF doc, key
  <2>2. FitsIn(doc)
    BY <1>1, <2>1 DEF PolicyInv, GoodDoc, FitsIn, KnownIn
  <2>. QED
    BY <1>1, <1>3, <2>1, <2>2, SendInv
<1>4. CASE Complained
  BY <1>4 DEF Complained, PolicyInv, GoodDoc, FitsIn, KnownIn, SelectionFits, SaveFits
<1>. QED
  BY <1>3, <1>4 DEF SaveRule

(* Profiles and assignments leave the rules as they are.                     *)
LEMMA ProfileInv ==
    ASSUME PolicyInv, (\E p \in HwProfiles : CreateProfile(p)) \/ \E p \in HwProfiles \cup {""} : AssignProfile(p)
    PROVE  PolicyInv'
<1>0. hwCopy \in PolicyDocs /\ GoodDoc(hwCopy)
  BY DEF PolicyInv, GoodDoc
<1>1. ASSUME NEW doc \in PolicyDocs, doc.rules = hwCopy.rules, Sending(doc) PROVE PolicyInv'
  <2>1. FitsIn(doc)
    BY <1>0, <1>1 DEF GoodDoc, FitsIn, KnownIn
  <2>. QED
    BY <1>1, <2>1, SendInv
<1>2. ASSUME NEW p \in HwProfiles, CreateProfile(p) PROVE PolicyInv'
  <2>. DEFINE doc == [hwCopy EXCEPT !.profiles = @ \cup {p}]
  <2>1. doc \in PolicyDocs /\ doc.rules = hwCopy.rules
    BY <1>0 DEF PolicyDocs
  <2>2. CASE Sending(doc)
    <3>. HIDE DEF doc
    <3>. QED
      BY <1>1, <2>1, <2>2
  <2>3. CASE Complained
    BY <2>3 DEF Complained, PolicyInv, GoodDoc, FitsIn, KnownIn, SelectionFits, SaveFits
  <2>. QED
    BY <1>2, <2>2, <2>3 DEF CreateProfile
<1>3. ASSUME NEW p \in HwProfiles \cup {""}, AssignProfile(p) PROVE PolicyInv'
  <2>. DEFINE A == [hwCopy.assigned EXCEPT ![hwSel.device] = p]
              doc == [hwCopy EXCEPT !.assigned = A]
  <2>1. A \in [HwDevices -> HwProfiles \cup {""}]
    BY <1>0 DEF PolicyDocs
  <2>2. Sending(doc)
    BY <1>3 DEF AssignProfile
  <2>. HIDE DEF A
  <2>3. doc \in PolicyDocs /\ doc.rules = hwCopy.rules
    BY <1>0, <2>1 DEF PolicyDocs
  <2>. HIDE DEF doc
  <2>. QED
    BY <1>1, <2>2, <2>3
<1>. QED
  BY <1>2, <1>3

LEMMA PolicyStep == ASSUME PolicyInv, [PolicyNext]_hwVars PROVE PolicyInv'
<1>. USE DEF PolicyInv
<1>1. CASE UNCHANGED hwVars \/ \E l \in hwLoads : ServeTable(l) \/ TableArrives(l) \/ TableFails(l)
  <2>1. UNCHANGED <<hwStored, hwCopy, hwSel, hwSave, hwDraft>>
    BY <1>1 DEF hwVars, ServeTable, TableArrives, TableFails
  <2>. QED
    BY <2>1 DEF GoodDoc, FitsIn, KnownIn, SelectionFits, SaveFits
<1>2. CASE HwLoad
  <2>1. hwCopy' \in {hwCopy, hwStored} /\ hwDraft' \in Rules /\ UNCHANGED <<hwStored, hwSel, hwSave>>
    BY <1>2, RuleRead DEF HwLoad, Reloaded, GoodDoc
  <2>. QED
    BY <2>1 DEF GoodDoc, FitsIn, KnownIn, SelectionFits, SaveFits
<1>3. CASE \/ \E s \in {"device", "gpu", "profile"} : SelectScope(s)
           \/ \E p \in HwProfiles \cup {""} : SelectProfile(p)
           \/ \E g \in HwGpus \cup {""} : SelectGpu(g)
           \/ \E m \in HwMetrics : SelectMetric(m)
           \/ \E d \in HwDevices \cup {""} : SelectDevice(d)
  BY <1>3, SelectInv
<1>4. CASE \E r \in Rules : TypeRule(r)
  BY <1>4 DEF TypeRule, GoodDoc, FitsIn, KnownIn, SelectionFits, SaveFits
<1>5. CASE SaveRule
  BY <1>5, SaveRuleInv
<1>6. CASE (\E p \in HwProfiles : CreateProfile(p)) \/ \E p \in HwProfiles \cup {""} : AssignProfile(p)
  BY <1>6, ProfileInv
<1>7. CASE StorePolicy
  <2>1. UNCHANGED <<hwCopy, hwSel, hwDraft>> /\ hwSave \in PolicySaves
    BY <1>7 DEF StorePolicy, SaveFits
  <2>2. CASE Acceptable(hwSave.doc)
    <3>1. hwStored' = hwSave.doc /\ hwSave' = [hwSave EXCEPT !.phase = "stored"]
      BY <1>7, <2>2 DEF StorePolicy
    <3>2. hwSave' \in PolicySaves /\ hwSave'.doc = hwSave.doc
      BY <2>1, <3>1 DEF PolicySaves
    <3>3. hwSave.doc \in PolicyDocs /\ FitsIn(hwSave.doc) /\ KnownIn(hwSave.doc)
      BY <2>1, <2>2 DEF Acceptable, SaveFits, KnownIn, PolicySaves
    <3>. QED
      BY <2>1, <3>1, <3>2, <3>3 DEF GoodDoc, FitsIn, KnownIn, SelectionFits, SaveFits
  <2>3. CASE ~Acceptable(hwSave.doc)
    <3>1. hwStored' = hwStored /\ hwSave' = [hwSave EXCEPT !.phase = "refused"]
      BY <1>7, <2>3 DEF StorePolicy
    <3>2. /\ hwSave' \in PolicySaves /\ hwSave'.doc = hwSave.doc
          /\ hwSave'.phase = "refused"
      BY <2>1, <3>1 DEF PolicySaves
    <3>. QED
      BY <2>1, <3>1, <3>2 DEF GoodDoc, FitsIn, KnownIn, SelectionFits, SaveFits
  <2>. QED
    BY <2>2, <2>3
<1>8. CASE Saved \/ NotSaved
  <2>1. /\ hwCopy' = hwCopy \/ (hwCopy' = hwSave.doc /\ hwSave.phase = "stored")
        /\ UNCHANGED <<hwStored, hwSel>> /\ hwSave' = HwDone
    <3>1. CASE Saved
      BY <3>1 DEF Saved
    <3>2. CASE NotSaved
      BY <3>2 DEF NotSaved
    <3>. QED
      BY <1>8, <3>1, <3>2
  <2>2. GoodDoc(hwCopy')
    BY <2>1 DEF SaveFits, PolicySaves, GoodDoc
  <2>3. hwDraft' \in Rules
    BY <1>8, <2>1, <2>2, RuleRead DEF Saved, NotSaved, Reloaded, GoodDoc
  <2>4. SaveFits'
    <3>1. HwDone.doc = EmptyPolicy /\ HwDone.phase = "idle"
      BY DEF HwDone
    <3>. QED
      BY <2>1, <3>1, NothingInEmpty DEF SaveFits, GoodDoc, KnownIn
  <2>. QED
    BY <2>1, <2>2, <2>3, <2>4 DEF GoodDoc, FitsIn, KnownIn, SelectionFits
<1>. QED
  BY <1>1, <1>2, <1>3, <1>4, <1>5, <1>6, <1>7, <1>8 DEF PolicyNext

(* No rule is stored for a GPU under a device it is not in, or for a GPU     *)
(* known by an id only, in whatever order scope, device and GPU are chosen.  *)
THEOREM RulesFit == PolicyInit /\ [][PolicyNext]_hwVars => []RulesOnFittedGpus
<1>1. PolicyInit => PolicyInv
  BY PolicyBegin
<1>2. PolicyInv /\ [PolicyNext]_hwVars => PolicyInv'
  BY PolicyStep
<1>3. PolicyInv => RulesOnFittedGpus
  BY DEF PolicyInv, GoodDoc, FitsIn, KnownIn, RulesOnFittedGpus
<1>. QED
  BY <1>1, <1>2, <1>3, PTL

-----------------------------------------------------------------------------
(* Preferences: a reading still to be applied is the only one, while nothing *)
(* is shown, typed or being saved; a form without a draft shows what was     *)
(* stored, and saving it stores the same again.                              *)

PrValues == PrVersions \cup {0}
PrReadings == [live : BOOLEAN, answer : PrDocs \cup {PrNothing}]
PrRequests == [phase : {"idle", "sent", "stored", "refused"}, section : Sections \cup {""}, value : PrValues]
PrAsked == [live |-> TRUE, answer |-> PrNothing]

PreferencesTypeOK ==
    /\ prStored \in PrDocs
    /\ prRead \in PrDocs \cup {PrNothing} /\ prDraft \in PrDocs \cup {PrNothing}
    /\ prAsks \subseteq PrReadings
    /\ prSave \in PrRequests
    /\ prSave.phase # "idle" => prSave.section \in Sections
    /\ prFailed \in BOOLEAN

ReadingHeld ==
    \A a \in prAsks : a.live =>
        /\ prRead = PrNothing /\ prDraft = PrNothing /\ prSave.phase = "idle"
        /\ a.answer \in {PrNothing, prStored}
        /\ \A b \in prAsks : b.live => b = a

CleanHeld ==
    prDraft = PrNothing =>
        /\ prRead \in {PrNothing, prStored}
        /\ prSave.phase = "sent" => prSave.value = prStored[prSave.section]

PreferencesInv == PreferencesTypeOK /\ ReadingHeld /\ CleanHeld

LEMMA NothingIsNoDoc == \A doc \in PrDocs : doc # PrNothing
<1>1. "groups" \in Sections /\ -1 \notin PrValues
  BY PreferencesAssumption DEF Sections, PrValues
<1>. QED
  BY <1>1 DEF PrDocs, PrNothing, PrValues

LEMMA PreferencesValues ==
    /\ PrIdle \in PrRequests /\ PrIdle.phase = "idle"
    /\ PrAsked \in PrReadings /\ PrAsked.live = TRUE /\ PrAsked.answer = PrNothing
  BY DEF PrIdle, PrRequests, PrValues, PrAsked, PrReadings

LEMMA PreferencesBegin == ASSUME PreferencesInit PROVE PreferencesInv
<1>1. prStored \in PrDocs
  BY DEF PreferencesInit, PrDocs
<1>2. prRead = PrNothing /\ prDraft = PrNothing /\ prAsks = {PrAsked} /\ prSave = PrIdle /\ prFailed = FALSE
  BY DEF PreferencesInit, PrAsked
<1>. QED
  BY <1>1, <1>2, PreferencesValues DEF PreferencesInv, PreferencesTypeOK, ReadingHeld, CleanHeld

LEMMA ReadingInv ==
    ASSUME PreferencesInv, \E a \in prAsks : AnswerRead(a) \/ ReadArrives(a) \/ ReadFails(a)
    PROVE  PreferencesInv'
<1>. USE DEF PreferencesInv
<1>0. PICK a \in prAsks : AnswerRead(a) \/ ReadArrives(a) \/ ReadFails(a)
  OBVIOUS
<1>1. a \in PrReadings /\ UNCHANGED <<prStored, prDraft, prSave>>
  BY <1>0 DEF PreferencesTypeOK, AnswerRead, ReadArrives, ReadFails
<1>2. CASE AnswerRead(a)
  <2>. DEFINE answered == [a EXCEPT !.answer = prStored]
  <2>1. prAsks' = (prAsks \ {a}) \cup {answered} /\ UNCHANGED <<prRead, prFailed>>
    BY <1>2 DEF AnswerRead
  <2>2. /\ answered \in PrReadings
        /\ answered.live = a.live /\ answered.answer = prStored
    BY <1>1 DEF PreferencesTypeOK, PrReadings
  <2>. HIDE DEF answered
  <2>3. PreferencesTypeOK' /\ CleanHeld'
    BY <1>1, <2>1, <2>2 DEF PreferencesTypeOK, CleanHeld
  <2>4. ReadingHeld'
    BY <1>1, <2>1, <2>2 DEF ReadingHeld
  <2>. QED
    BY <2>3, <2>4
<1>3. CASE ReadArrives(a) \/ ReadFails(a)
  <2>1. prAsks' = prAsks \ {a} /\ prFailed' \in BOOLEAN
    BY <1>1, <1>3 DEF ReadArrives, ReadFails, PreferencesTypeOK
  <2>2. CASE a.live /\ ReadArrives(a)
    <3>1. prRead' = a.answer /\ a.answer = prStored
      BY <2>2 DEF ReadArrives, ReadingHeld
    <3>2. \A b \in prAsks' : ~b.live
      BY <2>1, <2>2 DEF ReadingHeld
    <3>. QED
      BY <1>1, <2>1, <3>1, <3>2 DEF PreferencesTypeOK, ReadingHeld, CleanHeld
  <2>3. CASE ~(a.live /\ ReadArrives(a))
    <3>1. prRead' = prRead
      BY <1>3, <2>3 DEF ReadArrives, ReadFails
    <3>. QED
      BY <1>1, <2>1, <3>1 DEF PreferencesTypeOK, ReadingHeld, CleanHeld
  <2>. QED
    BY <2>2, <2>3
<1>. QED
  BY <1>0, <1>2, <1>3

(* Whatever the forms do, they are shown: no reading is still to be applied. *)
LEMMA FormsInv ==
    ASSUME PreferencesInv, \E s \in Sections : SaveSection(s) \/ \E v \in PrVersions : TypeSection(s, v)
    PROVE  PreferencesInv'
<1>. USE DEF PreferencesInv
<1>0. Prefs # PrNothing /\ UNCHANGED <<prStored, prRead, prAsks, prFailed>>
  BY DEF SaveSection, TypeSection, PrShown
<1>1. Prefs \in PrDocs /\ \A a \in prAsks : ~a.live
  BY <1>0 DEF Prefs, ReadingHeld, PreferencesTypeOK
<1>2. ASSUME NEW s \in Sections, SaveSection(s) PROVE PreferencesInv'
  <2>1. prSave' = [phase |-> "sent", section |-> s, value |-> Prefs[s]] /\ prDraft' = prDraft
    BY <1>2 DEF SaveSection
  <2>2. Prefs[s] \in PrValues /\ (prDraft = PrNothing => Prefs = prStored)
    BY <1>0, <1>1 DEF PrDocs, PrValues, Prefs, CleanHeld
  <2>3. /\ prSave' \in PrRequests /\ prSave'.phase = "sent" /\ prSave'.section = s
        /\ prSave'.value = Prefs[s]
    BY <2>1, <2>2 DEF PrRequests
  <2>. QED
    BY <1>0, <1>1, <2>1, <2>2, <2>3 DEF PreferencesTypeOK, ReadingHeld, CleanHeld
<1>3. ASSUME NEW s \in Sections, NEW v \in PrVersions, TypeSection(s, v) PROVE PreferencesInv'
  <2>1. prDraft' = [Prefs EXCEPT ![s] = v] /\ prSave' = prSave
    BY <1>3 DEF TypeSection
  <2>2. prDraft' \in PrDocs
    BY <1>1, <2>1 DEF PrDocs
  <2>. QED
    BY <1>0, <1>1, <2>1, <2>2, NothingIsNoDoc DEF PreferencesTypeOK, ReadingHeld, CleanHeld
<1>. QED
  BY <1>2, <1>3

(* The save in flight: what a form without a draft sends is there already.   *)
LEMMA SavingInv ==
    ASSUME PreferencesInv, StoreSection \/ SectionSaved \/ SectionNotSaved
    PROVE  PreferencesInv'
<1>. USE DEF PreferencesInv
<1>0. prSave.phase # "idle" /\ \A a \in prAsks : ~a.live
  BY DEF StoreSection, SectionSaved, SectionNotSaved, ReadingHeld
<1>1. CASE StoreSection
  <2>1. UNCHANGED <<prRead, prDraft, prAsks, prFailed>> /\ prSave.phase = "sent" /\ prSave.section \in Sections
    BY <1>0, <1>1 DEF StoreSection, PreferencesTypeOK
  <2>2. /\ prSave' \in PrRequests /\ prSave'.section = prSave.section
        /\ prSave'.phase \in {"refused", "stored"}
    BY <1>1 DEF StoreSection, PreferencesTypeOK, PrRequests
  <2>3. prSave.value \in PrValues
    BY DEF PreferencesTypeOK, PrRequests
  <2>4. prStored' \in PrDocs
    BY <1>1, <2>1, <2>3 DEF StoreSection, PreferencesTypeOK, PrDocs, PrValues
  <2>5. prDraft = PrNothing => prStored' = prStored
    BY <1>1, <2>1 DEF StoreSection, PreferencesTypeOK, CleanHeld, PrDocs
  <2>. QED
    BY <1>0, <2>1, <2>2, <2>4, <2>5 DEF PreferencesTypeOK, ReadingHeld, CleanHeld
<1>2. CASE SectionSaved
  <2>1. /\ prDraft' = PrNothing /\ prRead' = PrNothing /\ prSave' = PrIdle
        /\ prAsks' = {[a EXCEPT !.live = FALSE] : a \in prAsks} \cup {PrAsked}
        /\ UNCHANGED <<prStored, prFailed>>
    BY <1>2 DEF SectionSaved, PrAsked
  <2>2. \A a \in prAsks : /\ [a EXCEPT !.live = FALSE] \in PrReadings
                          /\ [a EXCEPT !.live = FALSE].live = FALSE
    BY DEF PreferencesTypeOK, PrReadings
  <2>3. \A a \in prAsks' : a.live => a = PrAsked
    BY <2>1, <2>2
  <2>4. PreferencesTypeOK'
    BY <2>1, <2>2, PreferencesValues DEF PreferencesTypeOK
  <2>5. ReadingHeld' /\ CleanHeld'
    BY <2>1, <2>3, PreferencesValues DEF ReadingHeld, CleanHeld
  <2>. QED
    BY <2>4, <2>5
<1>3. CASE SectionNotSaved
  BY <1>0, <1>3, PreferencesValues DEF SectionNotSaved, PreferencesTypeOK, ReadingHeld, CleanHeld
<1>. QED
  BY <1>1, <1>2, <1>3

(* A form without unsaved changes shows what the server keeps.               *)
THEOREM CleanFormsStored == PreferencesInit /\ [][PreferencesNext]_prVars => []CleanFormIsStored
<1>1. PreferencesInit => PreferencesInv
  BY PreferencesBegin
<1>2. PreferencesInv /\ [PreferencesNext]_prVars => PreferencesInv'
  <2>1. CASE UNCHANGED prVars
    BY <2>1 DEF prVars, PreferencesInv, PreferencesTypeOK, ReadingHeld, CleanHeld
  <2>. QED
    BY <2>1, ReadingInv, FormsInv, SavingInv DEF PreferencesNext
<1>3. PreferencesInv => CleanFormIsStored
  BY DEF PreferencesInv, CleanHeld, CleanFormIsStored, PrShown, Prefs
<1>. QED
  BY <1>1, <1>2, <1>3, PTL

-----------------------------------------------------------------------------
(* History: the answer kept, and every request not disowned, is for what is  *)
(* selected; the events are those of the interval charted; and while the     *)
(* page waits, somebody has asked.                                           *)

ASelection(open) == open \in [source : {open.source}, metric : {open.metric}, range : {open.range}, fixed : {open.fixed}]
ALoad(l) == l \in [key : {l.key}, fixed : {l.fixed}, at : {l.at}, live : {l.live}]
AnEventLoad(l) == l \in [interval : {l.interval}, live : {l.live}]

HistoryShapes == ASelection(hiOpen) /\ (\A l \in hiLoads : ALoad(l)) /\ \A l \in hiEvLoads : AnEventLoad(l)

Current == RequestKey(hiOpen, hiGrown)

ResultHeld == hiResult # HiNone => hiResult.key = Current /\ hiResult.fixed = hiOpen.fixed

LoadsHeld == \A l \in hiLoads : l.live => l.key = Current /\ l.fixed = hiOpen.fixed

EventsHeld == EventsMatchChart /\ \A l \in hiEvLoads : l.live => l.interval = Interval(hiOpen, hiResult)

WaitingHeld == Current[2] # "" /\ hiResult = HiNone /\ (hiLoading \/ ~hiError) => \E l \in hiLoads : l.live

HistoryInv == HistoryShapes /\ ResultHeld /\ LoadsHeld /\ EventsHeld /\ WaitingHeld

LEMMA AskedFor ==
    ASSUME NEW open, NEW grown
    PROVE  LET l == Asked(open, grown)
           IN  ALoad(l) /\ l.live = TRUE /\ l.key = RequestKey(open, grown) /\ l.fixed = open.fixed
  BY DEF Asked, ALoad

LEMMA Disowned ==
    /\ \A l : ALoad(l) => ALoad([l EXCEPT !.live = FALSE]) /\ [l EXCEPT !.live = FALSE].live = FALSE
    /\ \A l : AnEventLoad(l) => AnEventLoad([l EXCEPT !.live = FALSE]) /\ [l EXCEPT !.live = FALSE].live = FALSE
<1>1. ASSUME NEW l, ALoad(l) PROVE ALoad([l EXCEPT !.live = FALSE]) /\ [l EXCEPT !.live = FALSE].live = FALSE
  <2>. DEFINE k == [l EXCEPT !.live = FALSE]
  <2>1. k \in [key : {l.key}, fixed : {l.fixed}, at : {l.at}, live : {FALSE}]
    BY <1>1 DEF ALoad
  <2>. HIDE DEF k
  <2>. QED
    BY <2>1 DEF ALoad, k
<1>2. ASSUME NEW l, AnEventLoad(l) PROVE AnEventLoad([l EXCEPT !.live = FALSE]) /\ [l EXCEPT !.live = FALSE].live = FALSE
  <2>. DEFINE k == [l EXCEPT !.live = FALSE]
  <2>1. k \in [interval : {l.interval}, live : {FALSE}]
    BY <1>2 DEF AnEventLoad
  <2>. HIDE DEF k
  <2>. QED
    BY <2>1 DEF AnEventLoad, k
<1>. QED
  BY <1>1, <1>2

LEMMA HistoryBegin == ASSUME HistoryInit PROVE HistoryInv
<1>1. ASelection(hiOpen) /\ hiResult = HiNone /\ hiEvents = NoEvents
  BY DEF HistoryInit, ASelection
<1>2. hiLoads = {Asked(hiOpen, hiGrown)} /\ hiEvLoads = {[interval |-> Interval(hiOpen, HiNone), live |-> TRUE]}
  BY DEF HistoryInit
<1>. DEFINE first == Asked(hiOpen, hiGrown)
<1>3. ALoad(first) /\ first.live = TRUE /\ first.key = Current /\ first.fixed = hiOpen.fixed
  BY AskedFor DEF Current
<1>. HIDE DEF first
<1>5. (\A l \in hiLoads : ALoad(l) /\ l.live = TRUE /\ l.key = Current /\ l.fixed = hiOpen.fixed) /\ \E l \in hiLoads : l.live
  BY <1>2, <1>3 DEF first
<1>4. \A l \in hiEvLoads : AnEventLoad(l) /\ l.interval = Interval(hiOpen, HiNone)
  BY <1>2 DEF AnEventLoad
<1>. QED
  BY <1>1, <1>4, <1>5 DEF HistoryInv, HistoryShapes, ResultHeld, LoadsHeld, EventsHeld, EventsMatchChart, WaitingHeld

(* The events' effect, whenever the selection or the answer changes.         *)
LEMMA RelistHeld ==
    ASSUME HistoryInv, NEW open, NEW result, Relist(open, result), hiOpen' = open, hiResult' = result
    PROVE  EventsHeld' /\ \A l \in hiEvLoads' : AnEventLoad(l)
<1>. DEFINE new == Interval(open, result)
<1>0. EventsHeld /\ \A l \in hiEvLoads : AnEventLoad(l)
  BY DEF HistoryInv, HistoryShapes
<1>1. Interval(hiOpen, hiResult)' = new
  BY DEF Interval
<1>2. CASE new = Interval(hiOpen, hiResult)
  <2>1. UNCHANGED <<hiEvents, hiEvLoads>>
    BY <1>2 DEF Relist
  <2>. QED
    BY <1>0, <1>1, <1>2, <2>1 DEF EventsHeld, EventsMatchChart
<1>3. CASE new # Interval(hiOpen, hiResult)
  <2>1. /\ hiEvents' = NoEvents
        /\ hiEvLoads' = {[l EXCEPT !.live = FALSE] : l \in hiEvLoads} \cup {[interval |-> new, live |-> TRUE]}
    BY <1>3 DEF Relist
  <2>. HIDE DEF new
  <2>2. \A l \in hiEvLoads' : AnEventLoad(l) /\ (l.live => l.interval = new)
    <3>1. AnEventLoad([interval |-> new, live |-> TRUE])
      BY DEF AnEventLoad
    <3>2. ASSUME NEW l \in hiEvLoads' PROVE AnEventLoad(l) /\ (l.live => l.interval = new)
      <4>1. CASE l = [interval |-> new, live |-> TRUE]
        BY <3>1, <4>1
      <4>2. CASE \E k \in hiEvLoads : l = [k EXCEPT !.live = FALSE]
        BY <1>0, <4>2, Disowned
      <4>. QED
        BY <2>1, <4>1, <4>2
    <3>. QED
      BY <3>2
  <2>. QED
    BY <1>1, <2>1, <2>2 DEF EventsHeld, EventsMatchChart
<1>. QED
  BY <1>2, <1>3

(* The measurements' effect: another interval for the same key is never     *)
(* chosen without another range.                                             *)
LEMMA ReaskInv ==
    ASSUME HistoryInv, NEW open, NEW grown, Reask(open, grown), hiOpen' = open, hiGrown' = grown,
           ASelection(open), open.fixed = hiOpen.fixed \/ open.range # hiOpen.range
    PROVE  HistoryInv'
<1>. DEFINE key == RequestKey(open, grown)
<1>0. HistoryShapes /\ ResultHeld
  BY DEF HistoryInv
<1>1. Current' = key /\ key[3] = open.range /\ Current[3] = hiOpen.range
  BY DEF Current, RequestKey, MetricKey, Definitions
<1>2. /\ hiResult' = KeptResult(key) /\ hiLoading' = (key[2] # "")
      /\ hiLoads' = {[l EXCEPT !.live = FALSE] : l \in hiLoads} \cup (IF key[2] = "" THEN {} ELSE {Asked(open, grown)})
      /\ Relist(open, KeptResult(key))
  BY DEF Reask
<1>. HIDE DEF key
<1>3. ResultHeld'
  BY <1>0, <1>1, <1>2 DEF ResultHeld, KeptResult
<1>4. \A l \in hiLoads' : ALoad(l) /\ (l.live => l = Asked(open, grown))
  <2>1. ASSUME NEW l \in hiLoads' PROVE ALoad(l) /\ (l.live => l = Asked(open, grown))
    <3>1. CASE l = Asked(open, grown)
      BY <3>1, AskedFor
    <3>2. CASE \E k \in hiLoads : l = [k EXCEPT !.live = FALSE]
      BY <1>0, <3>2, Disowned DEF HistoryShapes
    <3>. QED
      BY <1>2, <2>1, <3>1, <3>2
  <2>. QED
    BY <2>1
<1>5. LoadsHeld'
  BY <1>1, <1>4, AskedFor DEF LoadsHeld, key
<1>6. WaitingHeld'
  BY <1>1, <1>2, AskedFor DEF WaitingHeld
<1>7. EventsHeld' /\ \A l \in hiEvLoads' : AnEventLoad(l)
  BY <1>2, RelistHeld
<1>8. HistoryShapes'
  BY <1>4, <1>7 DEF HistoryShapes, ASelection
<1>. QED
  BY <1>3, <1>5, <1>6, <1>7, <1>8 DEF HistoryInv

LEMMA ChoiceInv ==
    ASSUME HistoryInv,
           \/ \E s \in HiSources : ChooseSource(s) \/ Observed(s)
           \/ \E m \in HiMetrics : ChooseMetric(m)
           \/ \E r \in HiRanges : ChooseRange(r)
           \/ Retry
    PROVE  HistoryInv'
<1>0. ASelection(hiOpen)
  BY DEF HistoryInv, HistoryShapes
<1>1. ASSUME NEW open, Choose(open), ASelection(open), open.fixed = hiOpen.fixed \/ open.range # hiOpen.range
      PROVE  HistoryInv'
  BY <1>1, ReaskInv DEF Choose
<1>2. ASSUME NEW s, ChooseSource(s) PROVE HistoryInv'
  <2>. DEFINE open == [hiOpen EXCEPT !.source = s, !.metric = ""]
  <2>1. open \in [source : {s}, metric : {""}, range : {hiOpen.range}, fixed : {hiOpen.fixed}]
    BY <1>0 DEF ASelection
  <2>2. Choose(open)
    BY <1>2 DEF ChooseSource
  <2>. HIDE DEF open
  <2>. QED
    BY <1>1, <2>1, <2>2 DEF ASelection
<1>3. ASSUME NEW m, ChooseMetric(m) PROVE HistoryInv'
  <2>. DEFINE open == [hiOpen EXCEPT !.metric = m]
  <2>1. open \in [source : {hiOpen.source}, metric : {m}, range : {hiOpen.range}, fixed : {hiOpen.fixed}]
    BY <1>0 DEF ASelection
  <2>2. Choose(open)
    BY <1>3 DEF ChooseMetric
  <2>. HIDE DEF open
  <2>. QED
    BY <1>1, <2>1, <2>2 DEF ASelection
<1>4. ASSUME NEW r, ChooseRange(r) PROVE HistoryInv'
  <2>. DEFINE open == [hiOpen EXCEPT !.range = r, !.fixed = FALSE]
  <2>1. open \in [source : {hiOpen.source}, metric : {hiOpen.metric}, range : {r}, fixed : {FALSE}]
    BY <1>0 DEF ASelection
  <2>2. Choose(open) /\ r # hiOpen.range
    BY <1>4 DEF ChooseRange
  <2>. HIDE DEF open
  <2>. QED
    BY <1>1, <2>1, <2>2 DEF ASelection
<1>5. CASE Retry
  BY <1>0, <1>5, ReaskInv DEF Retry
<1>6. ASSUME NEW s, Observed(s) PROVE HistoryInv'
  <2>. DEFINE grown == [hiGrown EXCEPT ![s] = @ + 1]
  <2>1. hiGrown' = grown /\ hiOpen' = hiOpen
    BY <1>6 DEF Observed
  <2>2. CASE RequestKey(hiOpen, grown) = Current
    <3>1. Current' = Current
      BY <2>1, <2>2 DEF Current, RequestKey, MetricKey, Definitions
    <3>2. UNCHANGED <<hiResult, hiLoads, hiLoading, hiError, hiEvents, hiEvLoads>>
      BY <1>6, <2>2 DEF Observed, Current
    <3>3. Interval(hiOpen, hiResult)' = Interval(hiOpen, hiResult)
      BY <2>1, <3>2 DEF Interval
    <3>. QED
      BY <2>1, <3>1, <3>2, <3>3 DEF HistoryInv, HistoryShapes, ASelection, ResultHeld, LoadsHeld, EventsHeld,
         EventsMatchChart, WaitingHeld
  <2>3. CASE RequestKey(hiOpen, grown) # Current
    <3>1. Reask(hiOpen, grown)
      BY <1>6, <2>3 DEF Observed, Current
    <3>. HIDE DEF grown
    <3>. QED
      BY <1>0, <2>1, <3>1, ReaskInv
  <2>. QED
    BY <2>2, <2>3
<1>. QED
  BY <1>2, <1>3, <1>4, <1>5, <1>6

LEMMA AnswerInv ==
    ASSUME HistoryInv,
           \/ Refresh \/ HiTick
           \/ \E l \in hiLoads : Measured(l) \/ NotMeasured(l)
           \/ \E l \in hiEvLoads : Listing(l)
           \/ UNCHANGED hiVars
    PROVE  HistoryInv'
<1>0. UNCHANGED <<hiOpen, hiGrown>> /\ Current' = Current
  BY DEF Refresh, HiTick, Measured, NotMeasured, Listing, hiVars, Current, RequestKey, MetricKey, Definitions
<1>1. ASSUME hiResult' = hiResult PROVE Interval(hiOpen, hiResult)' = Interval(hiOpen, hiResult)
  BY <1>0, <1>1 DEF Interval
<1>2. CASE HiTick \/ UNCHANGED hiVars
  <2>1. UNCHANGED <<hiResult, hiLoads, hiLoading, hiError, hiEvents, hiEvLoads>>
    BY <1>2 DEF HiTick, hiVars
  <2>. QED
    BY <1>0, <1>1, <2>1 DEF HistoryInv, HistoryShapes, ASelection, ResultHeld, LoadsHeld, EventsHeld,
       EventsMatchChart, WaitingHeld
<1>3. CASE Refresh
  <2>1. hiLoads' = hiLoads \cup {Asked(hiOpen, hiGrown)} /\ UNCHANGED <<hiResult, hiLoading, hiError, hiEvents, hiEvLoads>>
    BY <1>3 DEF Refresh
  <2>. DEFINE again == Asked(hiOpen, hiGrown)
  <2>3. ALoad(again) /\ again.live = TRUE /\ again.key = Current /\ again.fixed = hiOpen.fixed
    BY AskedFor DEF Current
  <2>4. hiLoads' = hiLoads \cup {again}
    BY <2>1
  <2>. HIDE DEF again
  <2>2. HistoryShapes' /\ LoadsHeld' /\ WaitingHeld'
    BY <1>0, <2>1, <2>3, <2>4 DEF HistoryInv, HistoryShapes, ASelection, LoadsHeld, WaitingHeld
  <2>. QED
    BY <1>0, <1>1, <2>1, <2>2 DEF HistoryInv, ResultHeld, EventsHeld, EventsMatchChart
<1>4. ASSUME NEW l \in hiLoads, Measured(l) PROVE HistoryInv'
  <2>1. hiLoads' = hiLoads \ {l}
    BY <1>4 DEF Measured
  <2>2. CASE l.live
    <3>1. /\ hiResult' = AsResult(l) /\ hiError' = FALSE /\ hiLoading' = FALSE
          /\ Relist(hiOpen, AsResult(l))
      BY <1>4, <2>2 DEF Measured
    <3>2. hiResult'.key = Current' /\ hiResult'.fixed = hiOpen'.fixed
      BY <1>0, <2>2, <3>1 DEF AsResult, HistoryInv, LoadsHeld
    <3>3. hiResult' = HiNone => Current'[2] = ""
      <4>1. HiNone.key = <<"", "", 0>>
        BY DEF HiNone
      <4>2. <<"", "", 0>>[2] = ""
        OBVIOUS
      <4>. DEFINE now == Current'
      <4>3. hiResult' = HiNone => now = <<"", "", 0>>
        BY <3>2, <4>1
      <4>. HIDE DEF now
      <4>4. hiResult' = HiNone => now[2] = ""
        BY <4>2, <4>3
      <4>. QED
        BY <4>4 DEF now
    <3>4. EventsHeld' /\ \A k \in hiEvLoads' : AnEventLoad(k)
      BY <1>0, <3>1, RelistHeld
    <3>5. HistoryShapes' /\ LoadsHeld'
      BY <1>0, <2>1, <3>4 DEF HistoryInv, HistoryShapes, ASelection, LoadsHeld
    <3>. QED
      BY <3>2, <3>3, <3>4, <3>5 DEF HistoryInv, ResultHeld, WaitingHeld
  <2>3. CASE ~l.live
    <3>1. UNCHANGED <<hiResult, hiLoading, hiError, hiEvents, hiEvLoads>>
      BY <1>4, <2>3 DEF Measured
    <3>2. WaitingHeld'
      BY <1>0, <2>1, <2>3, <3>1 DEF HistoryInv, WaitingHeld
    <3>. QED
      BY <1>0, <1>1, <2>1, <3>1, <3>2 DEF HistoryInv, HistoryShapes, ASelection, ResultHeld, LoadsHeld,
         EventsHeld, EventsMatchChart
  <2>. QED
    BY <2>2, <2>3
<1>5. ASSUME NEW l \in hiLoads, NotMeasured(l) PROVE HistoryInv'
  <2>1. /\ hiLoads' = hiLoads \ {l} /\ UNCHANGED <<hiResult, hiEvents, hiEvLoads>>
        /\ IF l.live THEN hiError' = TRUE /\ hiLoading' = FALSE ELSE UNCHANGED <<hiError, hiLoading>>
    BY <1>5 DEF NotMeasured
  <2>2. WaitingHeld'
    BY <1>0, <2>1 DEF HistoryInv, WaitingHeld
  <2>. QED
    BY <1>0, <1>1, <2>1, <2>2 DEF HistoryInv, HistoryShapes, ASelection, ResultHeld, LoadsHeld, EventsHeld,
       EventsMatchChart
<1>6. ASSUME NEW l \in hiEvLoads, Listing(l) PROVE HistoryInv'
  <2>1. /\ hiEvLoads' = hiEvLoads \ {l} /\ UNCHANGED <<hiResult, hiLoads, hiLoading, hiError>>
        /\ hiEvents' = hiEvents \/ (l.live /\ hiEvents' = l.interval)
    BY <1>6 DEF Listing
  <2>. QED
    BY <1>0, <1>1, <2>1 DEF HistoryInv, HistoryShapes, ASelection, ResultHeld, LoadsHeld, EventsHeld,
       EventsMatchChart, WaitingHeld
<1>. QED
  BY <1>2, <1>3, <1>4, <1>5, <1>6

(* What is charted, listed and announced as loading belongs to the           *)
(* selection, whatever was chosen while answers were on their way.           *)
THEOREM HistoryAlwaysSelected == HistoryInit /\ [][HistoryNext]_hiVars => []HistoryIsSelected
<1>1. HistoryInit => HistoryInv
  BY HistoryBegin
<1>2. HistoryInv /\ [HistoryNext]_hiVars => HistoryInv'
  BY ChoiceInv, AnswerInv DEF HistoryNext
<1>3. HistoryInv => HistoryIsSelected
  <2>. SUFFICES ASSUME HistoryInv PROVE HistoryIsSelected
    OBVIOUS
  <2>1. ChartIsSelected /\ EventsMatchChart
    BY DEF HistoryInv, ResultHeld, EventsHeld, ChartIsSelected, Shown
  <2>2. ASSUME Spinner PROVE \E l \in hiLoads : l.live /\ l.key = RequestKey(hiOpen, hiGrown)
    <3>1. Current[2] # "" /\ hiResult = HiNone /\ (hiLoading \/ ~hiError)
      BY <2>2 DEF Spinner, Shown, Current, RequestKey, HistoryInv, ResultHeld
    <3>. QED
      BY <3>1 DEF HistoryInv, WaitingHeld, LoadsHeld, Current
  <2>. QED
    BY <2>1, <2>2 DEF HistoryIsSelected, SpinnerMeansWaiting
<1>. QED
  BY <1>1, <1>2, <1>3, PTL

-----------------------------------------------------------------------------
(* Policy: the rule in effect is the most specific one, and the page shows   *)
(* it.                                                                       *)

(* The source the documentation names: GPU before device before profile.     *)
MostSpecific(doc, d, g, m) ==
    IF g # "" /\ <<"gpu", d, g, m>> \in DOMAIN doc.rules THEN "gpu"
    ELSE IF <<"device", d, "", m>> \in DOMAIN doc.rules THEN "device"
    ELSE IF <<"profile", doc.assigned[d], "", m>> \in DOMAIN doc.rules THEN "profile"
    ELSE IF g # "" /\ ~GlobalSaved THEN "unconfigured" ELSE "global"

Explicit(doc) == \A k \in DOMAIN doc.rules : doc.rules[k] # Inherit

LEMMA Concatenated ==
    ASSUME NEW a, NEW b, NEW c
    PROVE  /\ Len(<<a, b>> \o <<>>) = 2 /\ (<<a, b>> \o <<>>)[1] = a /\ (<<a, b>> \o <<>>)[2] = b
           /\ Len(<<a, b>> \o <<c>>) = 3 /\ (<<a, b>> \o <<c>>)[1] = a /\ (<<a, b>> \o <<c>>)[2] = b
           /\ (<<a, b>> \o <<c>>)[3] = c
  OBVIOUS

LEMMA LastOf ==
    ASSUME NEW I \in SUBSET Nat, NEW i \in I, \A j \in I : j <= i
    PROVE  Max(I) = i
<1>1. \A x \in I : (\A y \in I : x >= y) => x = i
  <2>1. \A x \in I : x \in Int
    OBVIOUS
  <2>. QED
    BY <2>1
<1>2. \A y \in I : i >= y
  <2>1. \A x \in I : x \in Int
    OBVIOUS
  <2>. QED
    BY <2>1
<1>. QED
  BY <1>1, <1>2 DEF Max

(* The source found is the most specific one that has a rule.                *)
LEMMA Precedence ==
    ASSUME NEW doc, Explicit(doc), NEW d, NEW g, NEW m
    PROVE  Resolved(doc, d, g, m) = MostSpecific(doc, d, g, m)
<1>. DEFINE p == <<"profile", doc.assigned[d], "", m>>
            v == <<"device", d, "", m>>
            u == <<"gpu", d, g, m>>
            A == <<"profile", RuleAt(doc, p)>>
            B == <<"device", RuleAt(doc, v)>>
            C == <<"gpu", RuleAt(doc, u)>>
            s == Sources(doc, d, g, m)
            I == {i \in 1..Len(s) : s[i][2] # Inherit}
            unset == IF g # "" /\ ~GlobalSaved THEN "unconfigured" ELSE "global"
            last == IF I # {} THEN Max(I) ELSE 0
<1>1. \A k : RuleAt(doc, k) # Inherit <=> k \in DOMAIN doc.rules
  BY DEF RuleAt, Explicit
<1>2. /\ A[1] = "profile" /\ (A[2] # Inherit <=> p \in DOMAIN doc.rules)
      /\ B[1] = "device" /\ (B[2] # Inherit <=> v \in DOMAIN doc.rules)
      /\ C[1] = "gpu" /\ (C[2] # Inherit <=> u \in DOMAIN doc.rules)
  <2>. HIDE DEF p, v, u
  <2>. QED
    BY <1>1
<1>3. Resolved(doc, d, g, m) = IF last > 0 THEN s[last][1] ELSE unset
  BY DEF Resolved, SelectLastInSeq
<1>4. s = <<A, B>> \o (IF g = "" THEN <<>> ELSE <<C>>)
  BY DEF Sources
<1>. HIDE DEF p, v, u, A, B, C, s
<1>5. CASE g = ""
  <2>1. s = <<A, B>> \o <<>>
    BY <1>4, <1>5
  <2>2. Len(s) = 2 /\ s[1] = A /\ s[2] = B
    BY <2>1, Concatenated
  <2>3. /\ \A i \in I : i = 1 \/ i = 2
        /\ 1 \in I <=> s[1][2] # Inherit
        /\ 2 \in I <=> s[2][2] # Inherit
    BY <2>2
  <2>. HIDE DEF I
  <2>4. I \in SUBSET Nat
    BY <2>3
  <2>5. CASE 2 \in I
    <3>1. \A j \in I : j <= 2
      BY <2>3
    <3>2. last = 2
      BY <2>4, <2>5, <3>1, LastOf
    <3>. HIDE DEF last
    <3>3. Resolved(doc, d, g, m) = s[2][1]
      BY <1>3, <3>2
    <3>. QED
      BY <1>2, <1>5, <2>2, <2>3, <2>5, <3>3 DEF v, MostSpecific
  <2>6. CASE 2 \notin I /\ 1 \in I
    <3>1. \A j \in I : j <= 1
      BY <2>3, <2>6
    <3>2. last = 1
      BY <2>4, <2>6, <3>1, LastOf
    <3>. HIDE DEF last
    <3>3. Resolved(doc, d, g, m) = s[1][1]
      BY <1>3, <3>2
    <3>. QED
      BY <1>2, <1>5, <2>2, <2>3, <2>6, <3>3 DEF v, p, MostSpecific
  <2>7. CASE 2 \notin I /\ 1 \notin I
    <3>1. I = {}
      BY <2>3, <2>7
    <3>2. last = 0
      BY <3>1
    <3>. HIDE DEF last, unset
    <3>3. Resolved(doc, d, g, m) = unset
      BY <1>3, <3>2
    <3>. QED
      BY <1>2, <1>5, <2>2, <2>3, <2>7, <3>3 DEF v, p, unset, MostSpecific
  <2>. QED
    BY <2>5, <2>6, <2>7
<1>6. CASE g # ""
  <2>1. s = <<A, B>> \o <<C>>
    BY <1>4, <1>6
  <2>2. Len(s) = 3 /\ s[1] = A /\ s[2] = B /\ s[3] = C
    BY <2>1, Concatenated
  <2>3. /\ \A i \in I : i = 1 \/ i = 2 \/ i = 3
        /\ 1 \in I <=> s[1][2] # Inherit
        /\ 2 \in I <=> s[2][2] # Inherit
        /\ 3 \in I <=> s[3][2] # Inherit
    BY <2>2
  <2>. HIDE DEF I
  <2>4. I \in SUBSET Nat
    BY <2>3
  <2>5. CASE 3 \in I
    <3>1. \A j \in I : j <= 3
      BY <2>3
    <3>2. last = 3
      BY <2>4, <2>5, <3>1, LastOf
    <3>. HIDE DEF last
    <3>3. Resolved(doc, d, g, m) = s[3][1]
      BY <1>3, <3>2
    <3>. QED
      BY <1>2, <1>6, <2>2, <2>3, <2>5, <3>3 DEF u, MostSpecific
  <2>6. CASE 3 \notin I /\ 2 \in I
    <3>1. \A j \in I : j <= 2
      BY <2>3, <2>6
    <3>2. last = 2
      BY <2>4, <2>6, <3>1, LastOf
    <3>. HIDE DEF last
    <3>3. Resolved(doc, d, g, m) = s[2][1]
      BY <1>3, <3>2
    <3>. QED
      BY <1>2, <1>6, <2>2, <2>3, <2>6, <3>3 DEF u, v, MostSpecific
  <2>7. CASE 3 \notin I /\ 2 \notin I /\ 1 \in I
    <3>1. \A j \in I : j <= 1
      BY <2>3, <2>7
    <3>2. last = 1
      BY <2>4, <2>7, <3>1, LastOf
    <3>. HIDE DEF last
    <3>3. Resolved(doc, d, g, m) = s[1][1]
      BY <1>3, <3>2
    <3>. QED
      BY <1>2, <1>6, <2>2, <2>3, <2>7, <3>3 DEF u, v, p, MostSpecific
  <2>8. CASE 3 \notin I /\ 2 \notin I /\ 1 \notin I
    <3>1. I = {}
      BY <2>3, <2>8
    <3>2. last = 0
      BY <3>1
    <3>. HIDE DEF last, unset
    <3>3. Resolved(doc, d, g, m) = unset
      BY <1>3, <3>2
    <3>. QED
      BY <1>2, <1>6, <2>2, <2>3, <2>8, <3>3 DEF u, v, p, unset, MostSpecific
  <2>. QED
    BY <2>5, <2>6, <2>7, <2>8
<1>. QED
  BY <1>5, <1>6

-----------------------------------------------------------------------------
(* Policy: what the page has is what the server keeps, unless a save is under *)
(* way or an error is shown.                                                 *)

InEffect == [device |-> hwSel.device, rules |-> Effective(hwStored, hwSel.device)]

AllExplicit == Explicit(hwStored) /\ Explicit(hwCopy) /\ Explicit(hwSave.doc)
StoredHeld == hwSave.phase = "stored" => hwStored = hwSave.doc
Unread == ~hwLoaded => hwSave.phase = "idle" /\ hwTable = NoTable /\ hwLoads = {}
LoadsShaped == \A l \in hwLoads : l \in [device : {l.device}, live : BOOLEAN, answer : {l.answer}]
TableFits ==
    HwUsable /\ ~hwError =>
      /\ hwTable # NoTable => hwTable = InEffect
      /\ \A l \in hwLoads : l.live => l.device = hwSel.device /\ (l.answer # NoTable => l.answer = InEffect)

CurrentInv == PolicyInv /\ AllExplicit /\ CopyIsStored /\ StoredHeld /\ Unread /\ LoadsShaped /\ TableFits

LEMMA CurrentBegin == ASSUME PolicyInit PROVE CurrentInv
<1>1. PolicyInv
  BY PolicyBegin
<1>2. Explicit(EmptyPolicy)
  <2>1. DOMAIN EmptyPolicy.rules = {}
    BY DEF EmptyPolicy
  <2>. QED
    BY <2>1 DEF Explicit
<1>3. Explicit(hwStored)
  <2>1. CASE hwStored = EmptyPolicy
    BY <1>2, <2>1
  <2>2. CASE hwStored # EmptyPolicy
    <3>. DEFINE K == {x \in Keys : x[4] = "gpu.temp_c" /\ (x[3] # "" => FittedTo[x[3]] = x[2] /\ x[3] \in Stable)}
                off == [Inherit EXCEPT !.mode = "disabled"]
                R == [k \in K |-> off]
    <3>1. \E P, A : hwStored = [profiles |-> P, assigned |-> A, rules |-> R]
      BY <2>2 DEF PolicyInit
    <3>2. off # Inherit
      BY DEF Inherit
    <3>. HIDE DEF K, off
    <3>. QED
      BY <3>1, <3>2 DEF Explicit
  <2>. QED
    BY <2>1, <2>2
<1>4. hwCopy = EmptyPolicy /\ hwSave.doc = EmptyPolicy /\ hwSave.phase = "idle" /\ ~hwLoaded /\ hwTable = NoTable /\ hwLoads = {}
  BY DEF PolicyInit
<1>. QED
  BY <1>1, <1>2, <1>3, <1>4 DEF CurrentInv, AllExplicit, CopyIsStored, HwUsable, StoredHeld, Unread,
     LoadsShaped, TableFits

(* Once the device is another or the copy is replaced, only the new request  *)
(* for the table is live.                                                    *)
LEMMA RefetchLoads ==
    ASSUME LoadsShaped, NEW d, Refetch(d)
    PROVE  /\ hwTable' = NoTable
           /\ LoadsShaped'
           /\ \A l \in hwLoads' : l.live => l.device = d /\ l.answer = NoTable
<1>. DEFINE off(l) == [l EXCEPT !.live = FALSE]
            new == [device |-> d, live |-> TRUE, answer |-> NoTable]
<1>1. hwLoads' \subseteq {off(l) : l \in hwLoads} \cup {new}
  BY DEF Refetch
<1>2. \A l \in hwLoads : off(l) \in [device : {off(l).device}, live : BOOLEAN, answer : {off(l).answer}] /\ off(l).live = FALSE
  BY DEF LoadsShaped
<1>3. new \in [device : {new.device}, live : BOOLEAN, answer : {new.answer}] /\ new.device = d /\ new.answer = NoTable
  <2>. HIDE DEF PolicyInv
  <2>. QED
    OBVIOUS
<1>. HIDE DEF off, new
<1>4. \A l \in hwLoads' : l = new \/ \E k \in hwLoads : l = off(k)
  BY <1>1
<1>5. \A l \in hwLoads' : l \in [device : {l.device}, live : BOOLEAN, answer : {l.answer}]
  BY <1>2, <1>3, <1>4
<1>6. \A l \in hwLoads' : l.live => l.device = d /\ l.answer = NoTable
  BY <1>2, <1>3, <1>4
<1>. QED
  BY <1>5, <1>6 DEF LoadsShaped, Refetch

(* A save under way, or an error, leaves nothing to claim.                   *)
LEMMA CurrentSending ==
    ASSUME CurrentInv, NEW doc, Explicit(doc), Sending(doc), PolicyInv'
    PROVE  CurrentInv'
<1>1. hwSave' = [phase |-> "sent", doc |-> doc] /\ UNCHANGED <<hwStored, hwCopy, hwLoaded, hwSel, hwTable, hwLoads>> /\ hwLoaded
  BY DEF Sending, HwUsable
<1>2. hwSave'.phase = "sent" /\ hwSave'.doc = doc
  BY <1>1
<1>3. AllExplicit'
  BY <1>1, <1>2 DEF CurrentInv, AllExplicit, Explicit
<1>. QED
  BY <1>1, <1>2, <1>3 DEF CurrentInv, CopyIsStored, HwUsable, HwIdle, StoredHeld, Unread, LoadsShaped, TableFits

LEMMA CurrentComplained ==
    ASSUME CurrentInv, Complained, PolicyInv'
    PROVE  CurrentInv'
BY DEF Complained, CurrentInv, AllExplicit, Explicit, CopyIsStored, HwUsable, HwIdle, StoredHeld, Unread,
   LoadsShaped, TableFits

LEMMA SentExplicit ==
    ASSUME CurrentInv
    PROVE  /\ \A k, r : Explicit(WithRule(hwCopy, k, r))
           /\ \A doc : doc.rules = hwCopy.rules => Explicit(doc)
<1>0. Explicit(hwCopy) /\ hwCopy \in PolicyDocs
  BY DEF CurrentInv, AllExplicit, PolicyInv, GoodDoc
<1>1. ASSUME NEW k, NEW r PROVE Explicit(WithRule(hwCopy, k, r))
  <2>. DEFINE D == (DOMAIN hwCopy.rules \ {k}) \cup (IF r = Inherit THEN {} ELSE {k})
              F == [x \in D |-> IF x = k THEN r ELSE hwCopy.rules[x]]
  <2>1. \A x \in D : F[x] # Inherit
    BY <1>0 DEF Explicit
  <2>2. WithRule(hwCopy, k, r) = [hwCopy EXCEPT !.rules = F]
    BY DEF WithRule
  <2>3. DOMAIN F = D
    OBVIOUS
  <2>. HIDE DEF F, D
  <2>4. WithRule(hwCopy, k, r).rules = F
    BY <1>0, <2>2 DEF PolicyDocs
  <2>. QED
    BY <2>1, <2>3, <2>4 DEF Explicit
<1>. QED
  BY <1>0, <1>1 DEF Explicit

LEMMA CurrentStep == ASSUME CurrentInv, [PolicyNext]_hwVars PROVE CurrentInv'
<1>0. PolicyInv'
  BY PolicyStep DEF CurrentInv
<1>. DEFINE Parts == AllExplicit /\ CopyIsStored /\ StoredHeld /\ Unread /\ LoadsShaped /\ TableFits
<1>. SUFFICES Parts'
  BY <1>0 DEF CurrentInv
<1>00. Parts /\ PolicyInv /\ hwSel \in Selections /\ hwSave \in PolicySaves
  BY DEF CurrentInv, PolicyInv, SelectionFits, SaveFits
<1>1. CASE UNCHANGED hwVars
  BY <1>1, <1>00 DEF hwVars, AllExplicit, Explicit, CopyIsStored, HwUsable, HwIdle, StoredHeld, Unread,
     LoadsShaped, TableFits, InEffect
<1>2. CASE HwLoad
  <2>1. UNCHANGED <<hwStored, hwSel, hwSave, hwTable, hwLoads>> /\ hwTable = NoTable /\ hwLoads = {} /\ hwSave.phase = "idle"
    BY <1>00, <1>2 DEF HwLoad, Unread
  <2>2. (hwCopy' = hwStored /\ hwLoaded') \/ (hwCopy' = hwCopy /\ hwError')
    BY <1>2 DEF HwLoad
  <2>. QED
    BY <1>00, <2>1, <2>2 DEF AllExplicit, Explicit, CopyIsStored, HwUsable, HwIdle, StoredHeld, Unread,
       LoadsShaped, TableFits
<1>3. CASE \/ \E s \in {"device", "gpu", "profile"} : SelectScope(s)
           \/ \E p \in HwProfiles \cup {""} : SelectProfile(p)
           \/ \E g \in HwGpus \cup {""} : SelectGpu(g)
           \/ \E m \in HwMetrics : SelectMetric(m)
  <2>1. hwSel'.device = hwSel.device
    BY <1>00, <1>3 DEF SelectScope, SelectProfile, SelectGpu, SelectMetric, Chosen, Selections
  <2>2. UNCHANGED <<hwStored, hwCopy, hwLoaded, hwSave, hwError, hwTable, hwLoads>>
    BY <1>3 DEF SelectScope, SelectProfile, SelectGpu, SelectMetric, Chosen
  <2>3. InEffect' = InEffect
    BY <2>1, <2>2 DEF InEffect
  <2>. QED
    BY <1>00, <2>1, <2>2, <2>3 DEF AllExplicit, Explicit, CopyIsStored, HwUsable, HwIdle, StoredHeld, Unread,
       LoadsShaped, TableFits
<1>4. CASE \E d \in HwDevices \cup {""} : SelectDevice(d)
  <2>1. PICK d \in HwDevices \cup {""} : SelectDevice(d)
    BY <1>4
  <2>2. /\ UNCHANGED <<hwStored, hwCopy, hwLoaded, hwSave, hwError>> /\ hwLoaded /\ Refetch(d)
        /\ hwSel' = OnDevice(d)
    BY <2>1 DEF SelectDevice, HwUsable
  <2>3. hwSel'.device = d
    BY <1>00, <2>2 DEF OnDevice, Selections
  <2>4. LoadsShaped' /\ TableFits'
    BY <1>00, <2>2, <2>3, RefetchLoads DEF TableFits
  <2>. QED
    BY <1>00, <2>2, <2>4 DEF AllExplicit, Explicit, CopyIsStored, HwUsable, HwIdle, StoredHeld, Unread
<1>5. CASE \E r \in Rules : TypeRule(r)
  <2>1. UNCHANGED <<hwStored, hwCopy, hwLoaded, hwSel, hwSave, hwError, hwTable, hwLoads>>
    BY <1>5 DEF TypeRule
  <2>. QED
    BY <1>00, <2>1 DEF AllExplicit, Explicit, CopyIsStored, HwUsable, HwIdle, StoredHeld, Unread, LoadsShaped,
       TableFits, InEffect
<1>6. CASE SaveRule
  <2>1. Complained \/ Sending(WithRule(hwCopy, KeyOf(hwSel), Meant))
    BY <1>6 DEF SaveRule
  <2>2. Explicit(WithRule(hwCopy, KeyOf(hwSel), Meant))
    BY SentExplicit
  <2>. QED
    BY <1>0, <2>1, <2>2, CurrentSending, CurrentComplained DEF CurrentInv
<1>7. CASE \E p \in HwProfiles : CreateProfile(p)
  <2>1. PICK p \in HwProfiles : CreateProfile(p)
    BY <1>7
  <2>. DEFINE doc == [hwCopy EXCEPT !.profiles = @ \cup {p}]
  <2>2. Complained \/ Sending(doc)
    BY <2>1 DEF CreateProfile
  <2>3. doc.rules = hwCopy.rules
    BY <1>00 DEF PolicyInv, GoodDoc, PolicyDocs
  <2>. HIDE DEF doc
  <2>4. Explicit(doc)
    BY <2>3, SentExplicit
  <2>. QED
    BY <1>0, <2>2, <2>4, CurrentSending, CurrentComplained DEF CurrentInv
<1>8. CASE \E p \in HwProfiles \cup {""} : AssignProfile(p)
  <2>1. PICK p \in HwProfiles \cup {""} : AssignProfile(p)
    BY <1>8
  <2>. DEFINE A == [hwCopy.assigned EXCEPT ![hwSel.device] = p]
              doc == [hwCopy EXCEPT !.assigned = A]
  <2>2. Sending(doc)
    BY <2>1 DEF AssignProfile
  <2>. HIDE DEF A
  <2>3. doc.rules = hwCopy.rules
    BY <1>00 DEF PolicyInv, GoodDoc, PolicyDocs
  <2>. HIDE DEF doc
  <2>4. Explicit(doc)
    BY <2>3, SentExplicit
  <2>. QED
    BY <1>0, <2>2, <2>4, CurrentSending DEF CurrentInv
<1>9. CASE StorePolicy
  <2>1. /\ UNCHANGED <<hwCopy, hwLoaded, hwSel, hwError, hwTable, hwLoads>> /\ hwSave.phase = "sent"
        /\ hwSave'.phase \in {"stored", "refused"} /\ hwSave'.doc = hwSave.doc
        /\ hwStored' = hwSave.doc \/ (hwStored' = hwStored /\ hwSave'.phase = "refused")
    BY <1>00, <1>9 DEF StorePolicy, PolicySaves
  <2>. QED
    BY <1>00, <2>1 DEF AllExplicit, Explicit, CopyIsStored, HwUsable, HwIdle, StoredHeld, Unread, LoadsShaped,
       TableFits
<1>10. CASE Saved
  <2>1. /\ UNCHANGED <<hwStored, hwLoaded, hwSel, hwError>> /\ Refetch(hwSel.device)
        /\ hwCopy' = hwSave.doc /\ hwStored = hwSave.doc /\ hwSave' = HwDone /\ hwLoaded
    BY <1>00, <1>10 DEF Saved, StoredHeld, Unread
  <2>2. HwDone.phase = "idle" /\ HwDone.doc = EmptyPolicy
    BY DEF HwDone
  <2>3. Explicit(EmptyPolicy)
    <3>1. DOMAIN EmptyPolicy.rules = {}
      BY DEF EmptyPolicy
    <3>. QED
      BY <3>1 DEF Explicit
  <2>4. LoadsShaped' /\ TableFits'
    BY <1>00, <2>1, RefetchLoads DEF TableFits
  <2>. QED
    BY <1>00, <2>1, <2>2, <2>3, <2>4 DEF AllExplicit, CopyIsStored, HwUsable, HwIdle, StoredHeld, Unread
<1>11. CASE NotSaved
  <2>1. UNCHANGED <<hwStored, hwCopy, hwLoaded, hwSel, hwTable, hwLoads>> /\ hwError' = TRUE /\ hwSave' = HwDone
    BY <1>11 DEF NotSaved
  <2>2. HwDone.phase = "idle" /\ HwDone.doc = EmptyPolicy
    BY DEF HwDone
  <2>3. Explicit(EmptyPolicy)
    <3>1. DOMAIN EmptyPolicy.rules = {}
      BY DEF EmptyPolicy
    <3>. QED
      BY <3>1 DEF Explicit
  <2>. QED
    BY <1>00, <2>1, <2>2, <2>3 DEF AllExplicit, Explicit, CopyIsStored, HwUsable, HwIdle, StoredHeld, Unread,
       LoadsShaped, TableFits
<1>12. CASE \E l \in hwLoads : ServeTable(l)
  <2>1. PICK l \in hwLoads : ServeTable(l)
    BY <1>12
  <2>. DEFINE t == [device |-> l.device, rules |-> Effective(hwStored, l.device)]
              k == [l EXCEPT !.answer = t]
  <2>2. UNCHANGED <<hwStored, hwCopy, hwLoaded, hwSel, hwSave, hwError, hwTable>> /\ hwLoads' = (hwLoads \ {l}) \cup {k}
    BY <2>1 DEF ServeTable
  <2>3. l.device = hwSel.device => t = InEffect
    BY DEF InEffect
  <2>. HIDE DEF t
  <2>4. k \in [device : {k.device}, live : BOOLEAN, answer : {k.answer}] /\ k.device = l.device /\ k.live = l.live /\ k.answer = t
    BY <1>00 DEF LoadsShaped
  <2>. HIDE DEF k
  <2>5. LoadsShaped'
    BY <1>00, <2>2, <2>4 DEF LoadsShaped
  <2>6. TableFits'
    <3>1. InEffect' = InEffect
      BY <2>2 DEF InEffect
    <3>. QED
      BY <1>00, <2>2, <2>3, <2>4, <3>1 DEF TableFits, HwUsable, HwIdle
  <2>7. hwLoaded
    BY <1>00 DEF Unread
  <2>. QED
    BY <1>00, <2>2, <2>5, <2>6, <2>7 DEF AllExplicit, Explicit, CopyIsStored, HwUsable, HwIdle, StoredHeld, Unread
<1>13. CASE \E l \in hwLoads : TableArrives(l) \/ TableFails(l)
  <2>1. PICK l \in hwLoads : TableArrives(l) \/ TableFails(l)
    BY <1>13
  <2>2. /\ UNCHANGED <<hwStored, hwCopy, hwLoaded, hwSel, hwSave>> /\ hwLoads' = hwLoads \ {l}
        /\ hwTable' = hwTable \/ (l.live /\ hwTable' = l.answer)
        /\ ~hwError' => ~hwError
    <3>1. CASE TableArrives(l)
      BY <3>1 DEF TableArrives
    <3>2. CASE TableFails(l)
      BY <3>2 DEF TableFails
    <3>. QED
      BY <2>1, <3>1, <3>2
  <2>3. hwLoaded
    BY <1>00 DEF Unread
  <2>4. InEffect' = InEffect
    BY <2>2 DEF InEffect
  <2>5. TableFits'
    BY <1>00, <2>2, <2>4 DEF TableFits, HwUsable, HwIdle
  <2>. QED
    BY <1>00, <2>2, <2>3, <2>5 DEF AllExplicit, Explicit, CopyIsStored, HwUsable, HwIdle, StoredHeld, Unread,
       LoadsShaped
<1>. QED
  BY <1>1, <1>2, <1>3, <1>4, <1>5, <1>6, <1>7, <1>8, <1>9, <1>10, <1>11, <1>12, <1>13 DEF PolicyNext

(* A table that is in effect names the sources by the documented precedence. *)
LEMMA TableReads == ASSUME CurrentInv PROVE TableCurrent
<1>. DEFINE d == hwSel.device
            Has(k) == k \in DOMAIN hwStored.rules
            gk(c) == <<"gpu", d, c[1], c[2]>>
            vk(c) == <<"device", d, "", c[2]>>
            pk(c) == <<"profile", hwStored.assigned[d], "", c[2]>>
            Good(c) == /\ hwTable.rules[c] = "gpu" <=> Has(gk(c))
                       /\ hwTable.rules[c] = "device" <=> Has(vk(c)) /\ ~Has(gk(c))
                       /\ hwTable.rules[c] = "profile" <=> Has(pk(c)) /\ ~Has(vk(c)) /\ ~Has(gk(c))
<1>. SUFFICES ASSUME hwTable # NoTable, HwUsable, ~hwError
              PROVE  hwTable.device = d /\ \A c \in DOMAIN hwTable.rules : Good(c)
  BY DEF TableCurrent
<1>1. hwTable.device = d /\ hwTable.rules = Effective(hwStored, d)
  BY DEF CurrentInv, TableFits, InEffect
<1>2. SUFFICES ASSUME NEW c \in Sampled(d) PROVE Good(c)
  BY <1>1 DEF Effective
<1>3. hwTable.rules[c] = Resolved(hwStored, d, c[1], c[2])
  BY <1>1 DEF Effective
<1>4. Has(gk(c)) => c[1] # ""
  <2>1. DOMAIN hwStored.rules \subseteq Keys
    <3>1. PICK K \in SUBSET Keys : hwStored.rules \in [K -> Rules]
      BY DEF CurrentInv, PolicyInv, GoodDoc, PolicyDocs, RuleTables
    <3>. QED
      BY <3>1
  <2>2. ASSUME NEW x, NEW y, <<"gpu", d, x, y>> \in Keys PROVE x # ""
    BY <2>2, PolicyAssumption DEF Keys
  <2>. QED
    BY <2>1, <2>2
<1>5. hwTable.rules[c] = IF c[1] # "" /\ Has(gk(c)) THEN "gpu" ELSE IF Has(vk(c)) THEN "device"
                         ELSE IF Has(pk(c)) THEN "profile"
                         ELSE IF c[1] # "" /\ ~GlobalSaved THEN "unconfigured" ELSE "global"
  <2>1. Explicit(hwStored)
    BY DEF CurrentInv, AllExplicit
  <2>2. hwTable.rules[c] = MostSpecific(hwStored, d, c[1], c[2])
    BY <1>3, <2>1, Precedence
  <2>. QED
    BY <2>2 DEF MostSpecific
<1>. HIDE DEF Has, gk, vk, pk
<1>6. CASE c[1] # "" /\ Has(gk(c))
  BY <1>5, <1>6
<1>7. CASE ~Has(gk(c)) /\ Has(vk(c))
  BY <1>5, <1>7
<1>8. CASE ~Has(gk(c)) /\ ~Has(vk(c)) /\ Has(pk(c))
  BY <1>5, <1>8
<1>9. CASE ~Has(gk(c)) /\ ~Has(vk(c)) /\ ~Has(pk(c))
  <2>1. hwTable.rules[c] \in {"unconfigured", "global"}
    BY <1>5, <1>9
  <2>. QED
    BY <1>9, <2>1
<1>. QED
  BY <1>4, <1>6, <1>7, <1>8, <1>9

(* The copy a save starts from is what the server keeps, and the table shows *)
(* the source each metric takes its rule from, whenever nothing is under way *)
(* and no error is shown: however saves, their failures, changes of device   *)
(* and late answers interleave.                                              *)
THEOREM PolicyPageCurrent == PolicyInit /\ [][PolicyNext]_hwVars => []PolicyCurrent
<1>1. PolicyInit => CurrentInv
  BY CurrentBegin
<1>2. CurrentInv /\ [PolicyNext]_hwVars => CurrentInv'
  BY CurrentStep
<1>3. CurrentInv => PolicyCurrent
  BY TableReads DEF CurrentInv, PolicyCurrent
<1>. QED
  BY <1>1, <1>2, <1>3, PTL

-----------------------------------------------------------------------------
(* A fold over a sequence is defined by CHOOSE: that it takes its steps in   *)
(* order is proved from the least element of a set of numbers.               *)

LEMMA LeastNat ==
    ASSUME NEW T \in SUBSET Nat, T # {}
    PROVE  \E n \in T : \A m \in T : n <= m
<1>. DEFINE below == {0 .. n : n \in T}
<1>1. below \subseteq FiniteSubsetsOf(Nat) /\ below # {}
  <2>1. \A n \in T : 0 .. n \subseteq Nat /\ IsFiniteSet(0 .. n)
    BY FS_Interval
  <2>. QED
    BY <2>1 DEF FiniteSubsetsOf
<1>2. \E x \in below : \A y \in below : ~ (<<y, x>> \in StrictSubsetOrdering(Nat))
  <2>. HIDE DEF below
  <2>. QED
    BY <1>1, FS_StrictSubsetOrderingWellFounded, WFMin
<1>3. PICK n \in T : \A m \in T : ~ (<<0 .. m, 0 .. n>> \in StrictSubsetOrdering(Nat))
  BY <1>2
<1>4. ASSUME NEW m \in T, ~ (n <= m) PROVE FALSE
  <2>1. 0 .. m \subseteq 0 .. n /\ n \notin 0 .. m /\ n \in 0 .. n
    BY <1>4
  <2>2. <<0 .. m, 0 .. n>> \in StrictSubsetOrdering(Nat)
    BY <2>1 DEF StrictSubsetOrdering
  <2>. QED
    BY <1>3, <2>2
<1>. QED
  BY <1>4

LEMMA Greatest ==
    ASSUME NEW n \in Nat, NEW s \in SUBSET (1 .. n), s # {}
    PROVE  Max(s) \in s /\ \A y \in s : y <= Max(s)
<1>. DEFINE T == {n - y : y \in s}
<1>1. T \in SUBSET Nat /\ T # {}
  <2>1. ASSUME NEW y \in s PROVE n - y \in Nat
    <3>1. y \in 1 .. n
      OBVIOUS
    <3>. QED
      BY <3>1
  <2>2. \E y \in s : TRUE
    OBVIOUS
  <2>. QED
    BY <2>1, <2>2
<1>2. PICK k \in T : \A m \in T : k <= m
  BY <1>1, LeastNat
<1>3. PICK x \in s : k = n - x
  BY <1>2
<1>4. \A y \in s : x >= y
  <2>1. ASSUME NEW y \in s PROVE x >= y
    <3>1. n - x <= n - y
      BY <1>2, <1>3
    <3>. QED
      BY <3>1
  <2>. QED
    BY <2>1
<1>. QED
  BY <1>4 DEF Max

LEMMA GreatestUpTo == ASSUME NEW i \in Nat, i > 0 PROVE Max(1 .. i) = i /\ (1 .. i) \ {i} = 1 .. (i - 1) /\ 1 .. i # {}
<1>1. i \in 1 .. i /\ (1 .. i) \ {i} = 1 .. (i - 1)
  OBVIOUS
<1>2. Max(1 .. i) \in 1 .. i /\ i <= Max(1 .. i)
  <2>1. Max(1 .. i) \in 1 .. i /\ \A y \in 1 .. i : y <= Max(1 .. i)
    BY <1>1, Greatest
  <2>. QED
    BY <1>1, <2>1
<1>. QED
  BY <1>1, <1>2

(* A function on finite sets of indices can be defined by the greatest one.  *)
Stepped(f, base, n, G) ==
    \A s \in SUBSET (1 .. n) : f[s] = IF s = {} THEN base ELSE G[<<f[s \ {Max(s)}], Max(s)>>]

LEMMA StepsExist ==
    ASSUME NEW B, NEW base \in B, NEW n \in Nat, NEW G \in [B \X (1 .. n) -> B]
    PROVE  \E f \in [SUBSET (1 .. n) -> B] : Stepped(f, base, n, G)
<1>. DEFINE Over(f, k) == \A s \in SUBSET (1 .. k) : f[s] = IF s = {} THEN base ELSE G[<<f[s \ {Max(s)}], Max(s)>>]
            Bad == {k \in 0 .. n : ~ \E f \in [SUBSET (1 .. k) -> B] : Over(f, k)}
<1>1. ASSUME Bad # {} PROVE FALSE
  <2>0. Bad \in SUBSET Nat
    OBVIOUS
  <2>1. PICK k \in Bad : \A m \in Bad : k <= m
    BY <1>1, <2>0, LeastNat
  <2>2. CASE k = 0
    <3>. DEFINE f == [s \in SUBSET (1 .. 0) |-> base]
    <3>1. SUBSET (1 .. 0) = {{}}
      OBVIOUS
    <3>2. f \in [SUBSET (1 .. 0) -> B] /\ Over(f, 0)
      BY <3>1
    <3>. QED
      BY <2>1, <2>2, <3>2
  <2>3. CASE k # 0
    <3>0. k - 1 \in 0 .. n /\ k - 1 \notin Bad /\ k \in 1 .. n /\ k \in Nat
      <4>1. k \in 0 .. n
        OBVIOUS
      <4>2. k \in 1 .. n /\ k - 1 \in 0 .. n /\ k \in Nat /\ ~ (k <= k - 1)
        BY <2>3, <4>1
      <4>. HIDE DEF Bad
      <4>. QED
        BY <2>1, <4>2
    <3>1. PICK f \in [SUBSET (1 .. (k - 1)) -> B] : Over(f, k - 1)
      BY <3>0
    <3>. DEFINE g == [s \in SUBSET (1 .. k) |-> IF k \in s THEN G[<<f[s \ {k}], k>>] ELSE f[s]]
    <3>2. g \in [SUBSET (1 .. k) -> B]
      <4>1. ASSUME NEW s \in SUBSET (1 .. k), k \in s PROVE G[<<f[s \ {k}], k>>] \in B
        <5>1. s \ {k} \in SUBSET (1 .. (k - 1))
          BY <3>0
        <5>. QED
          BY <3>0, <5>1
      <4>2. ASSUME NEW s \in SUBSET (1 .. k), k \notin s PROVE f[s] \in B
        <5>1. s \in SUBSET (1 .. (k - 1))
          BY <3>0, <4>2
        <5>. QED
          BY <5>1
      <4>. QED
        BY <4>1, <4>2
    <3>3. ASSUME NEW s \in SUBSET (1 .. k)
          PROVE  g[s] = IF s = {} THEN base ELSE G[<<g[s \ {Max(s)}], Max(s)>>]
      <4>1. CASE s = {}
        <5>1. s \in SUBSET (1 .. (k - 1)) /\ k \notin s
          BY <4>1
        <5>2. f[s] = base
          BY <3>1, <4>1, <5>1
        <5>. QED
          BY <4>1, <5>1, <5>2
      <4>2. CASE k \in s
        <5>1. Max(s) = k
          <6>1. Max(s) \in s /\ k <= Max(s)
            <7>. HIDE DEF g, Bad, Over
            <7>1. Max(s) \in s /\ \A y \in s : y <= Max(s)
              BY <3>0, <4>2, Greatest
            <7>. QED
              BY <4>2, <7>1
          <6>2. Max(s) \in 1 .. k
            BY <6>1
          <6>. QED
            BY <3>0, <6>1, <6>2
        <5>2. s \ {k} \in SUBSET (1 .. k) /\ k \notin s \ {k}
          OBVIOUS
        <5>3. g[s \ {k}] = f[s \ {k}]
          BY <5>2
        <5>4. g[s] = G[<<f[s \ {k}], k>>]
          BY <4>2
        <5>. QED
          BY <4>2, <5>1, <5>3, <5>4
      <4>3. CASE s # {} /\ k \notin s
        <5>1. s \in SUBSET (1 .. (k - 1))
          BY <3>0, <4>3
        <5>2. s \ {Max(s)} \in SUBSET (1 .. k) /\ k \notin s \ {Max(s)}
          BY <4>3
        <5>3. g[s \ {Max(s)}] = f[s \ {Max(s)}] /\ g[s] = f[s]
          BY <4>3, <5>2
        <5>4. f[s] = G[<<f[s \ {Max(s)}], Max(s)>>]
          BY <3>1, <4>3, <5>1
        <5>. QED
          BY <4>3, <5>3, <5>4
      <4>. QED
        BY <4>1, <4>2, <4>3
    <3>. HIDE DEF g
    <3>4. Over(g, k)
      BY <3>3
    <3>. QED
      BY <2>1, <3>2, <3>4
  <2>. QED
    BY <2>2, <2>3
<1>2. n \in 0 .. n
  OBVIOUS
<1>3. PICK f \in [SUBSET (1 .. n) -> B] : Over(f, n)
  BY <1>1, <1>2
<1>. QED
  BY <1>3 DEF Stepped

Ordered(seq) == \A i, j \in 1 .. Len(seq) : i < j => seq[i] < seq[j]
Younger(seq) == FoldLeft(Aged, <<>>, seq)

LEMMA AgedChain ==
    ASSUME NEW seq \in Seq(Int)
    PROVE  \E g :
             /\ g[0] = <<>>
             /\ \A i \in 1 .. Len(seq) : g[i] = Aged(g[i - 1], seq[i])
             /\ Younger(seq) = g[Len(seq)]
<1>. DEFINE n == Len(seq)
            Is(h) == h = [s \in SUBSET (1 .. n) |-> IF s = {} THEN <<>> ELSE Aged(h[s \ {Max(s)}], seq[Max(s)])]
            f == CHOOSE h : Is(h)
            G == [x \in Seq(Int) \X (1 .. n) |-> Aged(x[1], seq[x[2]])]
<1>0. n \in Nat /\ DOMAIN seq = 1 .. n /\ \A i \in 1 .. n : seq[i] \in Int
  OBVIOUS
<1>1. Younger(seq) = f[1 .. n]
  <2>1. Younger(seq) = (CHOOSE h : h = [s \in SUBSET DOMAIN seq |->
            IF s = {} THEN <<>> ELSE Aged(h[s \ {Max(s)}], seq[Max(s)])])[DOMAIN seq]
    BY DEF Younger, FoldLeft, MapThenFoldSet
  <2>. QED
    BY <1>0, <2>1
<1>2. \A kept \in Seq(Int), i \in 1 .. n : Aged(kept, seq[i]) \in Seq(Int) /\ G[<<kept, i>>] = Aged(kept, seq[i])
  BY <1>0 DEF Aged
<1>3. G \in [Seq(Int) \X (1 .. n) -> Seq(Int)]
  BY <1>0 DEF Aged
<1>. HIDE DEF G, n
<1>4. PICK h \in [SUBSET (1 .. n) -> Seq(Int)] :
        \A s \in SUBSET (1 .. n) : h[s] = IF s = {} THEN <<>> ELSE G[<<h[s \ {Max(s)}], Max(s)>>]
  <2>. DEFINE B == Seq(Int)
              e == <<>>
  <2>1. e \in B /\ n \in Nat /\ G \in [B \X (1 .. n) -> B]
    BY <1>0, <1>3
  <2>. HIDE DEF B, e
  <2>2. \E h \in [SUBSET (1 .. n) -> B] : Stepped(h, e, n, G)
    BY <2>1, StepsExist
  <2>. QED
    BY <2>2 DEF B, e, Stepped
<1>5. Is(h)
  <2>1. ASSUME NEW s \in SUBSET (1 .. n), s # {} PROVE h[s] = Aged(h[s \ {Max(s)}], seq[Max(s)])
    <3>1. Max(s) \in 1 .. n /\ s \ {Max(s)} \in SUBSET (1 .. n)
      BY <1>0, <2>1, Greatest
    <3>2. h[s \ {Max(s)}] \in Seq(Int)
      BY <3>1
    <3>. QED
      BY <1>2, <1>4, <2>1, <3>1, <3>2
  <2>2. h[{}] = <<>>
    BY <1>4
  <2>3. h = [s \in SUBSET (1 .. n) |-> h[s]]
    OBVIOUS
  <2>. QED
    BY <2>1, <2>2, <2>3
<1>6. Is(f)
  BY <1>5
<1>. DEFINE g == [i \in 0 .. n |-> f[1 .. i]]
<1>. HIDE DEF f
<1>9. ASSUME NEW i \in 1 .. n PROVE g[i] = Aged(g[i - 1], seq[i])
  <2>1. 1 .. i \in SUBSET (1 .. n) /\ i - 1 \in 0 .. n /\ i \in 0 .. n
    BY <1>0
  <2>2. Max(1 .. i) = i /\ (1 .. i) \ {i} = 1 .. (i - 1) /\ 1 .. i # {}
    <3>1. i \in Nat /\ i > 0
      BY <1>0
    <3>. QED
      BY <3>1, GreatestUpTo
  <2>3. f[1 .. i] = Aged(f[1 .. (i - 1)], seq[i])
    BY <1>6, <2>1, <2>2
  <2>. QED
    BY <2>1, <2>3
<1>10. g[0] = <<>> /\ g[n] = f[1 .. n]
  <2>1. f[{}] = <<>>
    BY <1>6
  <2>2. 1 .. 0 = {} /\ 0 \in 0 .. n /\ n \in 0 .. n
    BY <1>0
  <2>. QED
    BY <2>1, <2>2
<1>. HIDE DEF g
<1>. QED
  BY <1>1, <1>9, <1>10 DEF n

(* What stays of readings in order is in order.                              *)
LEMMA YoungerOrdered ==
    ASSUME NEW seq \in Seq(Int), Ordered(seq)
    PROVE  Younger(seq) \in Seq(Int) /\ Ordered(Younger(seq))
<1>. DEFINE n == Len(seq)
<1>0. n \in Nat /\ \A i \in 1 .. n : seq[i] \in Int
  OBVIOUS
<1>1. PICK g : /\ g[0] = <<>>
               /\ \A i \in 1 .. n : g[i] = Aged(g[i - 1], seq[i])
               /\ Younger(seq) = g[n]
  BY AgedChain
<1>2. \A i, j \in 1 .. n : i < j => seq[i] < seq[j]
  BY DEF Ordered
<1>. HIDE DEF n
<1>. DEFINE Good(i) == /\ g[i] \in Seq(Int) /\ Ordered(g[i])
                       /\ \A k \in 1 .. Len(g[i]), j \in (i + 1) .. n : g[i][k] < seq[j]
            Bad == {i \in 0 .. n : ~Good(i)}
<1>3. Good(0)
  <2>1. <<>> \in Seq(Int) /\ 1 .. Len(<<>>) = {}
    OBVIOUS
  <2>. QED
    BY <1>1, <2>1 DEF Ordered
<1>4. ASSUME NEW i \in 1 .. n, Good(i - 1) PROVE Good(i)
  <2>. DEFINE old == g[i - 1]
              t == seq[i]
  <2>0. /\ old \in Seq(Int) /\ Ordered(old) /\ t \in Int /\ i \in Nat
        /\ \A k \in 1 .. Len(old), j \in i .. n : old[k] < seq[j]
    BY <1>0, <1>4
  <2>1. g[i] = Aged(old, t)
    BY <1>1
  <2>. HIDE DEF old, t
  <2>2. CASE g[i] = old
    <3>1. \A j \in (i + 1) .. n : j \in i .. n
      BY <1>0, <2>0
    <3>. QED
      BY <2>0, <2>2, <3>1
  <2>3. CASE g[i] = Append(old, t)
    <3>. DEFINE new == Append(old, t)
    <3>1. /\ new \in Seq(Int) /\ Len(new) = Len(old) + 1 /\ Len(old) \in Nat
          /\ new[Len(old) + 1] = t /\ \A k \in 1 .. Len(old) : new[k] = old[k] /\ new[k] \in Int
      BY <2>0
    <3>. HIDE DEF new
    <3>2. \A k \in 1 .. Len(old) : old[k] < t
      <4>1. i \in i .. n /\ t = seq[i]
        BY <1>0, <2>0 DEF t
      <4>. QED
        BY <2>0, <4>1
    <3>3. Ordered(new)
      <4>1. ASSUME NEW a \in 1 .. Len(new), NEW b \in 1 .. Len(new), a < b PROVE new[a] < new[b]
        <5>1. a \in 1 .. Len(old)
          BY <3>1, <4>1
        <5>2. CASE b = Len(old) + 1
          BY <3>1, <3>2, <5>1, <5>2
        <5>3. CASE b # Len(old) + 1
          <6>1. b \in 1 .. Len(old)
            BY <3>1, <5>3
          <6>. QED
            BY <2>0, <3>1, <4>1, <5>1, <6>1 DEF Ordered
        <5>. QED
          BY <5>2, <5>3
      <4>. QED
        BY <4>1 DEF Ordered
    <3>4. ASSUME NEW k \in 1 .. Len(new), NEW j \in (i + 1) .. n PROVE new[k] < seq[j]
      <4>1. j \in i .. n /\ j \in 1 .. n /\ i < j
        BY <1>0, <2>0
      <4>2. CASE k = Len(old) + 1
        BY <1>2, <3>1, <4>1, <4>2 DEF t
      <4>3. CASE k # Len(old) + 1
        <5>1. k \in 1 .. Len(old)
          BY <3>1, <4>3
        <5>. QED
          BY <2>0, <3>1, <4>1, <5>1
      <4>. QED
        BY <4>2, <4>3
    <3>5. g[i] = new
      BY <2>3 DEF new
    <3>. QED
      BY <3>1, <3>3, <3>4, <3>5
  <2>. HIDE DEF Good
  <2>. QED
    BY <2>1, <2>2, <2>3 DEF Aged
<1>. HIDE DEF Good
<1>5. ASSUME Bad # {} PROVE FALSE
  <2>0. Bad \in SUBSET Nat
    OBVIOUS
  <2>1. PICK i \in Bad : \A m \in Bad : i <= m
    BY <1>5, <2>0, LeastNat
  <2>2. i \in 1 .. n /\ i - 1 \in 0 .. n /\ ~ (i <= i - 1)
    <3>1. i \in 0 .. n /\ i # 0
      BY <1>3
    <3>. QED
      BY <1>0, <3>1
  <2>3. Good(i - 1)
    BY <2>1, <2>2
  <2>4. ~Good(i)
    OBVIOUS
  <2>. QED
    BY <1>4, <2>2, <2>3, <2>4
<1>6. Good(n)
  <2>1. n \in 0 .. n
    BY <1>0
  <2>. QED
    BY <1>5, <2>1
<1>. QED
  BY <1>1, <1>6 DEF Good

LEMMA Suffix ==
    ASSUME NEW seq \in Seq(Int), NEW from \in Nat, from < Len(seq)
    PROVE  LET rest == SubSeq(seq, from + 1, Len(seq))
           IN  rest \in Seq(Int) /\ Len(rest) = Len(seq) - from /\ \A k \in 1 .. Len(rest) : rest[k] = seq[from + k]
<1>. DEFINE rest == SubSeq(seq, from + 1, Len(seq))
<1>. DEFINE m == from + 1
            n == Len(seq)
<1>1. m \in Int /\ n \in Int /\ m <= n /\ n - m + 1 = n - from /\ \A i \in m .. n : seq[i] \in Int
  OBVIOUS
<1>2. \A k \in 1 .. (n - from) : m + k - 1 = from + k
  OBVIOUS
<1>. HIDE DEF m, n
<1>3. /\ SubSeq(seq, m, n) \in Seq(Int)
      /\ Len(SubSeq(seq, m, n)) = n - m + 1
      /\ \A k \in 1 .. n - m + 1 : SubSeq(seq, m, n)[k] = seq[m + k - 1]
  BY <1>1, SubSeqProperties
<1>. QED
  BY <1>1, <1>2, <1>3 DEF m, n

SamplesInv == saReadings \in Seq(Int) /\ Ordered(saReadings)

(* A reading is added at the end, the oldest give way.                       *)
LEMMA ReadingsKept ==
    ASSUME SamplesInv, NEW row \in SaRows
    PROVE  Readings(row) \in Seq(Int) /\ Ordered(Readings(row))
<1>. DEFINE kept == Younger(saReadings)
            more == Reading(row, kept)
<1>1. kept \in Seq(Int) /\ Ordered(kept)
  BY YoungerOrdered DEF SamplesInv
<1>2. row.seen \in Int
  BY DEF SaRows
<1>3. Readings(row) = Newest(more)
  BY DEF Readings, Younger
<1>. HIDE DEF kept
<1>4. more \in Seq(Int) /\ Ordered(more)
  <2>1. CASE more = kept
    BY <1>1, <2>1
  <2>2. CASE more = Append(kept, row.seen) /\ (kept = <<>> \/ row.seen > Last(kept))
    <3>. DEFINE t == row.seen
                new == Append(kept, t)
    <3>. HIDE DEF t, more
    <3>1. /\ new \in Seq(Int) /\ Len(new) = Len(kept) + 1 /\ Len(kept) \in Nat
          /\ new[Len(kept) + 1] = t /\ \A k \in 1 .. Len(kept) : new[k] = kept[k] /\ new[k] \in Int
      BY <1>1, <1>2 DEF t
    <3>2. \A k \in 1 .. Len(kept) : kept[k] < t
      <4>1. ASSUME NEW k \in 1 .. Len(kept) PROVE kept[k] < t
        <5>1. kept # <<>>
          BY <1>1
        <5>2. t > kept[Len(kept)] /\ t \in Int
          BY <1>2, <2>2, <5>1 DEF Last, t
        <5>3. Len(kept) \in 1 .. Len(kept) /\ kept[k] \in Int /\ kept[Len(kept)] \in Int
          BY <1>1
        <5>4. k = Len(kept) \/ kept[k] < kept[Len(kept)]
          BY <1>1, <3>1, <5>3 DEF Ordered
        <5>. QED
          BY <5>2, <5>3, <5>4
      <4>. QED
        BY <4>1
    <3>. HIDE DEF new
    <3>3. Ordered(new)
      <4>1. ASSUME NEW a \in 1 .. Len(new), NEW b \in 1 .. Len(new), a < b PROVE new[a] < new[b]
        <5>1. a \in 1 .. Len(kept)
          BY <3>1, <4>1
        <5>2. CASE b = Len(kept) + 1
          BY <3>1, <3>2, <5>1, <5>2
        <5>3. CASE b # Len(kept) + 1
          <6>1. b \in 1 .. Len(kept)
            BY <3>1, <5>3
          <6>. QED
            BY <1>1, <3>1, <4>1, <5>1, <6>1 DEF Ordered
        <5>. QED
          BY <5>2, <5>3
      <4>. QED
        BY <4>1 DEF Ordered
    <3>4. more = new
      BY <2>2 DEF new, t
    <3>. QED
      BY <3>1, <3>3, <3>4
  <2>. QED
    BY <2>1, <2>2 DEF Reading
<1>. HIDE DEF more
<1>5. CASE Newest(more) = more
  BY <1>3, <1>4, <1>5
<1>6. CASE Len(more) > SaMax /\ Newest(more) = SubSeq(more, Len(more) - SaMax + 1, Len(more))
  <2>. DEFINE from == Len(more) - SaMax
              new == SubSeq(more, from + 1, Len(more))
  <2>1. from \in Nat /\ Len(more) \in Nat /\ from < Len(more)
    BY <1>4, <1>6, SamplesAssumption
  <2>. HIDE DEF from
  <2>2. new \in Seq(Int) /\ Len(new) = Len(more) - from /\ \A k \in 1 .. Len(new) : new[k] = more[from + k]
    BY <1>4, <2>1, Suffix
  <2>3. Newest(more) = new
    BY <1>6 DEF from
  <2>. HIDE DEF new
  <2>4. Ordered(new)
    <3>1. ASSUME NEW a \in 1 .. Len(new), NEW b \in 1 .. Len(new), a < b PROVE new[a] < new[b]
      <4>1. from + a \in 1 .. Len(more) /\ from + b \in 1 .. Len(more) /\ from + a < from + b
        BY <2>1, <2>2, <3>1
      <4>. QED
        BY <1>4, <2>2, <4>1 DEF Ordered
    <3>. QED
      BY <3>1 DEF Ordered
  <2>. QED
    BY <1>3, <2>2, <2>3, <2>4
<1>. QED
  BY <1>4, <1>5, <1>6, SamplesAssumption DEF Newest

(* However often the list repeats a row or goes back to an older one, the    *)
(* readings a chart is drawn from are in order and none stands twice.        *)
THEOREM ReadingsStayInOrder == SamplesInit /\ [][SamplesNext]_saVars => []ReadingsInOrder
<1>1. SamplesInit => SamplesInv
  <2>1. <<>> \in Seq(Int) /\ 1 .. Len(<<>>) = {}
    OBVIOUS
  <2>. QED
    BY <2>1 DEF SamplesInit, SamplesInv, Ordered
<1>2. SamplesInv /\ [SamplesNext]_saVars => SamplesInv'
  <2>. SUFFICES ASSUME SamplesInv, [SamplesNext]_saVars PROVE SamplesInv'
    OBVIOUS
  <2>1. CASE UNCHANGED saReadings
    BY <2>1 DEF SamplesInv, Ordered
  <2>2. CASE \E row \in SaRows : RowListed(row)
    BY <2>2, ReadingsKept DEF RowListed, SamplesInv, Ordered
  <2>3. CASE RowGone
    <3>1. <<>> \in Seq(Int) /\ Len(<<>>) = 0
      OBVIOUS
    <3>. QED
      BY <2>3, <3>1 DEF RowGone, SamplesInv, Ordered
  <2>. QED
    BY <2>1, <2>2, <2>3 DEF SamplesNext, SaTick, saVars
<1>3. SamplesInv => ReadingsInOrder
  <2>. SUFFICES ASSUME SamplesInv, NEW i \in 1 .. (Len(saReadings) - 1) PROVE saReadings[i] < saReadings[i + 1]
    BY DEF ReadingsInOrder
  <2>1. Len(saReadings) \in Nat
    BY DEF SamplesInv
  <2>2. i \in 1 .. Len(saReadings) /\ i + 1 \in 1 .. Len(saReadings) /\ i < i + 1
    BY <2>1
  <2>. QED
    BY <2>2 DEF SamplesInv, Ordered
<1>. QED
  BY <1>1, <1>2, <1>3, PTL

AddedUp(base, seq) == FoldLeft(Merged, base, seq)

MergedOver(f, base, seq, n) == f = [s \in SUBSET (1 .. n) |->
    IF s = {} THEN base ELSE Merged(f[s \ {Max(s)}], seq[Max(s)])]

LEMMA MergedOverExists ==
    ASSUME NEW base, NEW seq, NEW N \in Nat
    PROVE  \E f : MergedOver(f, base, seq, N)
<1>. DEFINE Bad == {n \in Nat : ~ \E f : MergedOver(f, base, seq, n)}
<1>1. ASSUME Bad # {} PROVE FALSE
  <2>1. PICK n \in Bad : \A m \in Bad : n <= m
    BY <1>1, LeastNat
  <2>2. CASE n = 0
    <3>. DEFINE f == [s \in SUBSET (1 .. 0) |-> base]
    <3>1. SUBSET (1 .. 0) = {{}}
      OBVIOUS
    <3>2. MergedOver(f, base, seq, 0)
      BY <3>1 DEF MergedOver
    <3>. QED
      BY <2>1, <2>2, <3>2
  <2>3. CASE n # 0
    <3>0. n - 1 \in Nat /\ n - 1 \notin Bad
      BY <2>1, <2>3
    <3>1. PICK f : MergedOver(f, base, seq, n - 1)
      BY <3>0
    <3>. DEFINE g == [s \in SUBSET (1 .. n) |-> IF n \in s THEN Merged(f[s \ {n}], seq[n]) ELSE f[s]]
    <3>2. ASSUME NEW s \in SUBSET (1 .. n)
          PROVE  g[s] = IF s = {} THEN base ELSE Merged(g[s \ {Max(s)}], seq[Max(s)])
      <4>1. CASE s = {}
        <5>1. s \in SUBSET (1 .. (n - 1)) /\ n \notin s
          BY <4>1
        <5>. QED
          BY <3>1, <4>1, <5>1 DEF MergedOver
      <4>2. CASE n \in s
        <5>1. Max(s) = n
          <6>1. Max(s) \in s /\ n <= Max(s)
            BY <4>2, Greatest
          <6>2. Max(s) \in 1 .. n
            BY <6>1
          <6>. QED
            BY <6>1, <6>2
        <5>2. s \ {n} \in SUBSET (1 .. n) /\ n \notin s \ {n}
          OBVIOUS
        <5>3. g[s \ {n}] = f[s \ {n}]
          BY <5>2
        <5>4. g[s] = Merged(f[s \ {n}], seq[n])
          BY <4>2
        <5>. QED
          BY <4>2, <5>1, <5>3, <5>4
      <4>3. CASE s # {} /\ n \notin s
        <5>1. s \in SUBSET (1 .. (n - 1))
          BY <4>3
        <5>2. s \ {Max(s)} \in SUBSET (1 .. n) /\ n \notin s \ {Max(s)}
          BY <4>3
        <5>3. g[s \ {Max(s)}] = f[s \ {Max(s)}] /\ g[s] = f[s]
          BY <4>3, <5>2
        <5>4. f[s] = Merged(f[s \ {Max(s)}], seq[Max(s)])
          BY <3>1, <4>3, <5>1 DEF MergedOver
        <5>. QED
          BY <4>3, <5>3, <5>4
      <4>. QED
        BY <4>1, <4>2, <4>3
    <3>3. MergedOver(g, base, seq, n)
      <4>1. g = [s \in SUBSET (1 .. n) |-> g[s]]
        OBVIOUS
      <4>. HIDE DEF g
      <4>. QED
        BY <3>2, <4>1 DEF MergedOver
    <3>. HIDE DEF g
    <3>. QED
      BY <2>1, <3>3
  <2>. QED
    BY <2>2, <2>3
<1>. QED
  BY <1>1

(* The messages merged one after the other. *)
LEMMA MergedChain ==
    ASSUME NEW base, NEW seq, NEW n \in Nat, DOMAIN seq = 1 .. n
    PROVE  \E g : /\ g = [i \in 0 .. n |-> g[i]]
                  /\ g[0] = base
                  /\ \A i \in 1 .. n : g[i] = Merged(g[i - 1], seq[i])
                  /\ AddedUp(base, seq) = g[n]
<1>. DEFINE Over(f) == MergedOver(f, base, seq, n)
            f == CHOOSE h : Over(h)
            g == [i \in 0 .. n |-> f[1 .. i]]
<1>1. AddedUp(base, seq) = f[1 .. n]
  <2>1. AddedUp(base, seq) = (CHOOSE h : h = [s \in SUBSET DOMAIN seq |->
            IF s = {} THEN base ELSE Merged(h[s \ {Max(s)}], seq[Max(s)])])[DOMAIN seq]
    BY DEF AddedUp, FoldLeft, MapThenFoldSet
  <2>. QED
    BY <2>1 DEF MergedOver
<1>2. Over(f)
  BY MergedOverExists
<1>. HIDE DEF f
<1>3. ASSUME NEW i \in 1 .. n PROVE g[i] = Merged(g[i - 1], seq[i])
  <2>1. 1 .. i \in SUBSET (1 .. n) /\ i - 1 \in 0 .. n /\ i \in 0 .. n
    OBVIOUS
  <2>2. Max(1 .. i) = i /\ (1 .. i) \ {i} = 1 .. (i - 1) /\ 1 .. i # {}
    <3>1. i \in Nat /\ i > 0
      OBVIOUS
    <3>. QED
      BY <3>1, GreatestUpTo
  <2>3. f[1 .. i] = Merged(f[1 .. (i - 1)], seq[i])
    BY <1>2, <2>1, <2>2 DEF MergedOver
  <2>. QED
    BY <2>1, <2>3
<1>4. g[0] = base
  <2>1. f[{}] = base
    BY <1>2 DEF MergedOver
  <2>2. 1 .. 0 = {}
    OBVIOUS
  <2>. QED
    BY <2>1, <2>2
<1>5. g = [i \in 0 .. n |-> g[i]] /\ g[n] = f[1 .. n]
  OBVIOUS
<1>. HIDE DEF g
<1>. QED
  BY <1>1, <1>3, <1>4, <1>5

LEMMA MergedOnly ==
    ASSUME NEW base, NEW seq, NEW n \in Nat, DOMAIN seq = 1 .. n,
           NEW h, h[0] = base, \A i \in 1 .. n : h[i] = Merged(h[i - 1], seq[i])
    PROVE  AddedUp(base, seq) = h[n]
<1>1. PICK g : /\ g[0] = base
               /\ \A i \in 1 .. n : g[i] = Merged(g[i - 1], seq[i])
               /\ AddedUp(base, seq) = g[n]
  BY MergedChain
<1>. DEFINE Bad == {i \in 0 .. n : g[i] # h[i]}
<1>2. ASSUME Bad # {} PROVE FALSE
  <2>0. Bad \in SUBSET Nat
    OBVIOUS
  <2>1. PICK k \in Bad : \A m \in Bad : k <= m
    BY <1>2, <2>0, LeastNat
  <2>2. k # 0 /\ k \in 1 .. n
    BY <1>1, <2>1
  <2>3. k - 1 \in 0 .. n /\ k - 1 \notin Bad
    BY <2>1, <2>2
  <2>4. g[k - 1] = h[k - 1]
    BY <2>3
  <2>. QED
    BY <1>1, <2>1, <2>2, <2>4
<1>. QED
  BY <1>1, <1>2

LEMMA MergedNone == ASSUME NEW base PROVE AddedUp(base, <<>>) = base
<1>1. PICK g : g[0] = base /\ AddedUp(base, <<>>) = g[0]
  <2>1. DOMAIN <<>> = 1 .. 0
    OBVIOUS
  <2>. QED
    BY <2>1, MergedChain
<1>. QED
  BY <1>1

LEMMA MergedLast ==
    ASSUME NEW S, NEW base, NEW seq \in Seq(S), NEW x \in S
    PROVE  AddedUp(base, Append(seq, x)) = Merged(AddedUp(base, seq), x)
<1>. DEFINE n == Len(seq)
            more == Append(seq, x)
<1>0. n \in Nat /\ DOMAIN seq = 1 .. n
  OBVIOUS
<1>2. /\ DOMAIN more = 1 .. (n + 1) /\ n + 1 \in Nat
      /\ \A i \in 1 .. n : more[i] = seq[i]
      /\ more[n + 1] = x
  OBVIOUS
<1>. HIDE DEF n, more
<1>1. PICK g : /\ g[0] = base
               /\ \A i \in 1 .. n : g[i] = Merged(g[i - 1], seq[i])
               /\ AddedUp(base, seq) = g[n]
  BY <1>0, MergedChain
<1>. DEFINE h == [i \in 0 .. (n + 1) |-> IF i = n + 1 THEN Merged(g[n], x) ELSE g[i]]
<1>3. h[0] = base /\ h[n + 1] = Merged(g[n], x)
  BY <1>0, <1>1
<1>4. ASSUME NEW i \in 1 .. (n + 1) PROVE h[i] = Merged(h[i - 1], more[i])
  <2>1. CASE i = n + 1
    <3>1. i - 1 = n /\ h[n] = g[n]
      BY <1>0, <2>1
    <3>. QED
      BY <1>2, <1>3, <2>1, <3>1
  <2>2. CASE i # n + 1
    <3>1. i \in 1 .. n
      BY <1>0, <2>2
    <3>2. h[i] = g[i] /\ h[i - 1] = g[i - 1]
      BY <1>0, <3>1
    <3>. QED
      BY <1>1, <1>2, <3>1, <3>2
  <2>. QED
    BY <2>1, <2>2
<1>. HIDE DEF h
<1>5. AddedUp(base, more) = h[n + 1]
  BY <1>2, <1>3, <1>4, MergedOnly
<1>. QED
  BY <1>1, <1>3, <1>5 DEF more

LEMMA MergedFirst ==
    ASSUME NEW S, NEW base, NEW seq \in Seq(S), Len(seq) > 0
    PROVE  AddedUp(base, seq) = AddedUp(Merged(base, Head(seq)), Tail(seq))
<1>. DEFINE L == Len(seq)
            n == L - 1
            rest == Tail(seq)
            next == Merged(base, Head(seq))
<1>00. L \in Nat /\ DOMAIN seq = 1 .. L
  OBVIOUS
<1>0. n \in Nat /\ L \in Nat /\ L = n + 1 /\ DOMAIN seq = 1 .. L /\ seq[1] = Head(seq)
  OBVIOUS
<1>2. DOMAIN rest = 1 .. n /\ \A i \in 1 .. n : rest[i] = seq[i + 1]
  <2>1. rest \in Seq(S) /\ Len(rest) = n
    OBVIOUS
  <2>. QED
    BY <2>1
<1>. HIDE DEF L, n, rest
<1>1. PICK g : /\ g[0] = base
               /\ \A i \in 1 .. L : g[i] = Merged(g[i - 1], seq[i])
               /\ AddedUp(base, seq) = g[L]
  <2>. HIDE DEF next
  <2>. QED
    BY <1>00, MergedChain
<1>. DEFINE h == [i \in 0 .. n |-> g[i + 1]]
<1>3. h[0] = next
  <2>1. h[0] = g[1] /\ 1 \in 1 .. L
    BY <1>0
  <2>. QED
    BY <1>0, <1>1, <2>1
<1>4. ASSUME NEW i \in 1 .. n PROVE h[i] = Merged(h[i - 1], rest[i])
  <2>1. h[i] = g[i + 1] /\ h[i - 1] = g[i] /\ i + 1 \in 1 .. L /\ (i + 1) - 1 = i
    BY <1>0
  <2>. QED
    BY <1>1, <1>2, <2>1
<1>5. h[n] = g[L]
  BY <1>0
<1>. HIDE DEF h, next
<1>6. AddedUp(next, rest) = h[n]
  BY <1>0, <1>2, <1>3, <1>4, MergedOnly
<1>. QED
  BY <1>1, <1>5, <1>6 DEF next, rest

Message == [type : {"snapshot", "patch"}, devices : Contents, removed : SUBSET Devices,
            alerts : SUBSET (Alerts \X {"none", "open", "resolved"})]
Connection == [first : BOOLEAN, previous : Contents, mail : Seq(Message)]
SocketStates == {"none", "connecting", "open", "closing", "waiting"}

LiveTypes ==
    /\ table \in Contents /\ incidents \in [Alerts -> {"none", "open", "resolved"}]
    /\ mounts \in 0 .. MaxMounts /\ user \in BOOLEAN
    /\ sockets \in [Mount -> SocketStates] /\ conns \in [Mount -> Connection]
    /\ reloaded \in BOOLEAN

(* A socket belongs to the effect that runs, or is being closed.             *)
SocketsOwned ==
    \A m \in Mount :
      /\ sockets[m] \in {"connecting", "open", "waiting"} => Active(m)
      /\ sockets[m] = "closing" => ~Active(m)
      /\ m > mounts => sockets[m] = "none"

SnapshotFirst(mail) == Len(mail) > 0 /\ mail[1].type = "snapshot"
PatchesAfter(mail) == \A i \in 2 .. Len(mail) : mail[i].type = "patch"

(* A snapshot under way makes good whatever is shown.                        *)
AddsUp(c, list, after) ==
    /\ c.first => c.mail = <<>>
    /\ PatchesAfter(c.mail)
    /\ ~c.first /\ SnapshotFirst(c.mail) => \A other : AddedUp(other, c.mail) = c.previous
    /\ ~c.first /\ ~SnapshotFirst(c.mail) /\ ~after => AddedUp(list, c.mail) = c.previous

StreamsAddUp == \A m \in Mount : IF sockets[m] = "open" THEN AddsUp(conns[m], devices, reloaded) ELSE conns[m] = Idle

LiveInv == LiveTypes /\ SocketsOwned /\ StreamsAddUp /\ IndicatorHonest

LEMMA IdleFits == Idle \in Connection /\ Idle.first = TRUE /\ Idle.mail = <<>> /\ \A list, after : AddsUp(Idle, list, after)
<1>1. Nobody \in Contents
  BY LiveViewAssumption DEF Nobody, Contents
<1>2. Idle \in Connection /\ Idle.first = TRUE /\ Idle.mail = <<>>
  BY <1>1 DEF Idle, Connection
<1>. HIDE DEF Idle
<1>. QED
  BY <1>2 DEF AddsUp, PatchesAfter, SnapshotFirst

LEMMA LiveBegin == ASSUME Init PROVE LiveInv
<1>. USE LiveViewAssumption, IdleFits DEF Init
<1>1. LiveTypes
  <2>1. table \in Contents
    BY DEF Nobody, Contents
  <2>2. incidents \in [Alerts -> {"none", "open", "resolved"}]
    <3>1. incidents = [a \in Alerts |-> IF a \in OpenAtFirst THEN "open" ELSE "none"]
      OBVIOUS
    <3>2. \A a \in Alerts : (IF a \in OpenAtFirst THEN "open" ELSE "none") \in {"none", "open", "resolved"}
      OBVIOUS
    <3>. QED
      BY <3>1, <3>2
  <2>3. sockets \in [Mount -> SocketStates] /\ conns \in [Mount -> Connection]
    BY DEF SocketStates
  <2>4. mounts \in 0 .. MaxMounts
    <3>1. MaxMounts \in Nat /\ mounts = 0
      OBVIOUS
    <3>2. 0 \in 0 .. MaxMounts
      BY <3>1
    <3>. QED
      BY <3>1, <3>2
  <2>5. user \in BOOLEAN /\ reloaded \in BOOLEAN
    OBVIOUS
  <2>. QED
    BY <2>1, <2>2, <2>3, <2>4, <2>5 DEF LiveTypes
<1>2. SocketsOwned /\ StreamsAddUp /\ IndicatorHonest
  BY DEF SocketsOwned, StreamsAddUp, IndicatorHonest
<1>. QED
  BY <1>1, <1>2 DEF LiveInv

(* What is sent makes the list the server believes shown the one it has.     *)
LEMMA PayloadAdds ==
    ASSUME NEW c \in Connection, table \in Contents, incidents \in [Alerts -> {"none", "open", "resolved"}]
    PROVE  /\ Payload(c) \in Message
           /\ c.first => Payload(c).type = "snapshot" /\ \A x : Merged(x, Payload(c)) = table
           /\ ~c.first => Payload(c).type = "patch" /\ Merged(c.previous, Payload(c)) = table
<1>. DEFINE sent == [d \in Devices |-> IF c.first \/ c.previous[d] # table[d] THEN table[d] ELSE 0]
            gone == {d \in Devices : c.previous[d] # 0 /\ table[d] = 0}
            kind == IF c.first THEN "snapshot" ELSE "patch"
            open == Opened(incidents)
<1>1. sent \in Contents /\ gone \in SUBSET Devices /\ kind \in {"snapshot", "patch"}
  BY LiveViewAssumption DEF Contents
<1>2. open \in SUBSET (Alerts \X {"none", "open", "resolved"})
  BY DEF Opened, Listed
<1>3. Payload(c) = [type |-> kind, devices |-> sent, removed |-> gone, alerts |-> open]
  BY DEF Payload
<1>4. c.first => sent = table
  BY DEF Contents
<1>5. ~c.first => [d \in Devices |-> IF sent[d] # 0 THEN sent[d] ELSE IF d \in gone THEN 0 ELSE c.previous[d]] = table
  BY DEF Contents
<1>. HIDE DEF sent, gone, kind, open
<1>6. Payload(c) \in Message
  BY <1>1, <1>2, <1>3 DEF Message
<1>7. Payload(c).type = kind /\ Payload(c).devices = sent /\ Payload(c).removed = gone
  BY <1>3
<1>. HIDE DEF Payload
<1>8. CASE c.first
  BY <1>4, <1>6, <1>7, <1>8 DEF Merged, kind
<1>9. CASE ~c.first
  BY <1>5, <1>6, <1>7, <1>9 DEF Merged, kind
<1>. QED
  BY <1>8, <1>9

LEMMA PushAdds ==
    ASSUME NEW c \in Connection, NEW list, NEW after \in BOOLEAN, AddsUp(c, list, after), table \in Contents,
           incidents \in [Alerts -> {"none", "open", "resolved"}],
           NEW k \in Connection, ~k.first, k.previous = table, k.mail = Append(c.mail, Payload(c))
    PROVE  AddsUp(k, list, after)
<1>. DEFINE p == Payload(c)
            mail == c.mail
<1>1. p \in Message /\ mail \in Seq(Message)
  BY PayloadAdds DEF Connection
<1>2. /\ c.first => p.type = "snapshot" /\ \A x : Merged(x, p) = table
      /\ ~c.first => p.type = "patch" /\ Merged(c.previous, p) = table
  BY PayloadAdds
<1>3. k.mail = Append(mail, p)
  OBVIOUS
<1>. HIDE DEF p
<1>4. \A x : AddedUp(x, k.mail) = Merged(AddedUp(x, mail), p)
  BY <1>1, <1>3, MergedLast
<1>5. /\ Len(k.mail) = Len(mail) + 1 /\ k.mail[Len(mail) + 1] = p
      /\ \A i \in 1 .. Len(mail) : k.mail[i] = mail[i]
      /\ Len(mail) \in Nat
  BY <1>1, <1>3
<1>6. CASE c.first
  <2>1. mail = <<>> /\ Len(mail) = 0
    BY <1>6 DEF AddsUp
  <2>2. SnapshotFirst(k.mail) /\ PatchesAfter(k.mail)
    BY <1>2, <1>5, <1>6, <2>1 DEF SnapshotFirst, PatchesAfter
  <2>3. \A x : AddedUp(x, k.mail) = k.previous
    BY <1>2, <1>4, <1>6
  <2>. QED
    BY <2>2, <2>3 DEF AddsUp
<1>7. CASE ~c.first
  <2>1. PatchesAfter(k.mail)
    <3>1. ASSUME NEW i \in 2 .. Len(k.mail) PROVE k.mail[i].type = "patch"
      <4>1. CASE i = Len(mail) + 1
        BY <1>2, <1>5, <1>7, <4>1
      <4>2. CASE i # Len(mail) + 1
        <5>1. i \in 2 .. Len(mail) /\ i \in 1 .. Len(mail)
          BY <1>5, <4>2
        <5>. QED
          BY <1>5, <5>1 DEF AddsUp, PatchesAfter
      <4>. QED
        BY <4>1, <4>2
    <3>. QED
      BY <3>1 DEF PatchesAfter
  <2>2. SnapshotFirst(k.mail) <=> SnapshotFirst(mail)
    <3>1. CASE Len(mail) = 0
      BY <1>2, <1>5, <1>7, <3>1 DEF SnapshotFirst
    <3>2. CASE Len(mail) # 0
      <4>1. 1 \in 1 .. Len(mail) /\ Len(mail) > 0 /\ Len(k.mail) > 0
        BY <1>5, <3>2
      <4>. QED
        BY <1>5, <4>1 DEF SnapshotFirst
    <3>. QED
      BY <3>1, <3>2
  <2>3. SnapshotFirst(mail) => \A x : AddedUp(x, k.mail) = k.previous
    BY <1>2, <1>4, <1>7 DEF AddsUp
  <2>4. ~SnapshotFirst(mail) /\ ~after => AddedUp(list, k.mail) = k.previous
    BY <1>2, <1>4, <1>7 DEF AddsUp
  <2>. QED
    BY <2>1, <2>2, <2>3, <2>4 DEF AddsUp
<1>. QED
  BY <1>6, <1>7

LEMMA ReceiveAdds ==
    ASSUME NEW c \in Connection, NEW list, NEW after \in BOOLEAN, AddsUp(c, list, after), Len(c.mail) > 0,
           NEW k \in Connection,
           k.first = c.first, k.previous = c.previous, k.mail = Tail(c.mail)
    PROVE  AddsUp(k, Merged(list, Head(c.mail)), after /\ Head(c.mail).type = "patch")
<1>. DEFINE mail == c.mail
            p == Head(mail)
            rest == Tail(mail)
            now == Merged(list, p)
<1>1. mail \in Seq(Message) /\ Len(mail) > 0
  BY DEF Connection
<1>2. /\ p = mail[1] /\ p \in Message /\ rest \in Seq(Message)
      /\ Len(rest) = Len(mail) - 1 /\ Len(mail) \in Nat
      /\ \A i \in 1 .. Len(rest) : rest[i] = mail[i + 1]
  BY <1>1
<1>3. p.type \in {"snapshot", "patch"}
  BY <1>2 DEF Message
<1>4. AddedUp(list, mail) = AddedUp(now, rest)
  <2>1. AddedUp(list, mail) = AddedUp(now, rest)
    BY <1>1, MergedFirst
  <2>. QED
    BY <2>1
<1>5. ~c.first
  <2>1. Len(<<>>) = 0
    OBVIOUS
  <2>. QED
    BY <2>1 DEF AddsUp
<1>6. k.mail = rest /\ ~k.first /\ k.previous = c.previous
  BY <1>5
<1>8. AddsUp(c, list, after)
  OBVIOUS
<1>. HIDE DEF p, rest, mail, now
<1>9. /\ \A i \in 2 .. Len(mail) : mail[i].type = "patch"
      /\ SnapshotFirst(mail) => AddedUp(list, mail) = c.previous
      /\ ~SnapshotFirst(mail) /\ ~after => AddedUp(list, mail) = c.previous
  BY <1>5, <1>8 DEF AddsUp, PatchesAfter, mail
<1>10. \A i \in 1 .. Len(rest) : rest[i].type = "patch"
  <2>1. ASSUME NEW i \in 1 .. Len(rest) PROVE rest[i].type = "patch"
    <3>1. i + 1 \in 2 .. Len(mail)
      BY <1>2
    <3>. QED
      BY <1>2, <1>9, <3>1
  <2>. QED
    BY <2>1
<1>11. PatchesAfter(rest) /\ ~SnapshotFirst(rest)
  BY <1>2, <1>10 DEF PatchesAfter, SnapshotFirst
<1>12. ~(after /\ p.type = "patch") => AddedUp(now, rest) = c.previous
  <2>1. CASE p.type = "snapshot"
    BY <1>1, <1>2, <1>4, <1>9, <2>1 DEF SnapshotFirst, mail
  <2>2. CASE p.type = "patch"
    BY <1>2, <1>4, <1>9, <2>2 DEF SnapshotFirst
  <2>. QED
    BY <1>3, <2>1, <2>2
<1>. QED
  BY <1>6, <1>11, <1>12 DEF AddsUp, p, mail, now

(* Nothing of the stream changes.                                            *)
LEMMA QuietInv ==
    ASSUME LiveInv, UNCHANGED <<table, incidents, conns, mounts, user, devices, connected, sockets, reloaded>>
    PROVE  LiveInv'
BY DEF LiveInv, LiveTypes, SocketsOwned, Active, StreamsAddUp, AddsUp, IndicatorHonest

LEMMA ChangeInv == ASSUME LiveInv, Change PROVE LiveInv'
<1>1. UNCHANGED <<conns, mounts, user, devices, connected, sockets, reloaded>>
  BY DEF Change, shown
<1>2. table' \in Contents /\ incidents' \in [Alerts -> {"none", "open", "resolved"}]
  <2>0. table \in Contents /\ incidents \in [Alerts -> {"none", "open", "resolved"}]
    BY DEF LiveInv, LiveTypes
  <2>1. CASE DeviceChanges
    BY <2>0, <2>1 DEF DeviceChanges, Contents
  <2>2. CASE AlertChanges
    <3>1. PICK a \in Alerts : incidents' = [incidents EXCEPT ![a] = IF @ = "none" THEN "open" ELSE "resolved"]
      BY <2>2 DEF AlertChanges
    <3>2. table' = table
      BY <2>2 DEF AlertChanges
    <3>. QED
      BY <2>0, <3>1, <3>2
  <2>. QED
    BY <2>1, <2>2 DEF Change
<1>. QED
  BY <1>1, <1>2 DEF LiveInv, LiveTypes, SocketsOwned, Active, StreamsAddUp, AddsUp, IndicatorHonest

(* When the effect ends, no socket stays open.                               *)
LEMMA LeaveInv ==
    ASSUME LiveInv, user, Leave, UNCHANGED <<table, incidents, mounts, connected, reloaded>>
    PROVE  LiveInv'
<1>0. /\ sockets \in [Mount -> SocketStates] /\ conns \in [Mount -> Connection]
      /\ SocketsOwned /\ StreamsAddUp /\ IndicatorHonest
  BY DEF LiveInv, LiveTypes
<1>1. /\ user' = FALSE
      /\ sockets' = [sockets EXCEPT ![mounts] = IF @ \in {"connecting", "open"} THEN "closing" ELSE "none"]
      /\ conns' = [conns EXCEPT ![mounts] = Idle]
  BY DEF Leave
<1>2. \A m \in Mount : /\ m = mounts => sockets'[m] = (IF sockets[m] \in {"connecting", "open"} THEN "closing" ELSE "none")
                                        /\ conns'[m] = Idle
                       /\ m # mounts => sockets'[m] = sockets[m] /\ conns'[m] = conns[m]
  BY <1>0, <1>1
<1>3. sockets' \in [Mount -> SocketStates] /\ conns' \in [Mount -> Connection]
  BY <1>0, <1>1, IdleFits DEF SocketStates
<1>4. \A m \in Mount : sockets'[m] \in {"closing", "none"} /\ (m > mounts => sockets'[m] = "none")
  BY <1>0, <1>2 DEF SocketsOwned, Active, SocketStates, LiveInv, LiveTypes, Mount
<1>5. \A m \in Mount : conns'[m] = Idle
  BY <1>0, <1>2 DEF StreamsAddUp, SocketsOwned, Active
<1>6. IndicatorHonest'
  <2>1. SUFFICES ASSUME connected PROVE \E m \in Mount : sockets'[m] = "closing"
    BY <1>4 DEF IndicatorHonest
  <2>2. PICK m \in Mount : sockets[m] \in {"open", "closing"}
    BY <1>0, <2>1 DEF IndicatorHonest
  <2>3. sockets[m] = "closing" => m # mounts
    BY <1>0 DEF SocketsOwned, Active
  <2>. QED
    BY <1>0, <1>2, <2>2, <2>3 DEF SocketsOwned, Active
<1>. QED
  BY <1>1, <1>3, <1>4, <1>5, <1>6 DEF LiveInv, LiveTypes, SocketsOwned, StreamsAddUp, Active

LEMMA SignInInv == ASSUME LiveInv, SignIn PROVE LiveInv'
<1>. DEFINE new == mounts + 1
<1>0. /\ sockets \in [Mount -> SocketStates] /\ conns \in [Mount -> Connection]
      /\ SocketsOwned /\ StreamsAddUp /\ IndicatorHonest /\ mounts \in 0 .. MaxMounts
  BY DEF LiveInv, LiveTypes
<1>1. /\ ~user /\ mounts < MaxMounts /\ user' = TRUE /\ mounts' = new
      /\ sockets' = [sockets EXCEPT ![new] = "connecting"]
      /\ UNCHANGED <<table, incidents, conns, devices, connected, reloaded>>
  BY DEF SignIn, shown
<1>2. new \in Mount /\ new \in 0 .. MaxMounts /\ new > mounts
  BY <1>0, <1>1, LiveViewAssumption DEF Mount
<1>3. /\ sockets'[new] = "connecting" /\ sockets[new] = "none"
      /\ \A m \in Mount : m # new => sockets'[m] = sockets[m]
  BY <1>0, <1>1, <1>2 DEF SocketsOwned
<1>4. \A m \in Mount : m # new => sockets[m] \in {"closing", "none"} /\ (m > new => sockets[m] = "none")
  BY <1>0, <1>1, <1>2 DEF SocketsOwned, Active, SocketStates, Mount
<1>5. LiveTypes'
  BY <1>1, <1>2 DEF LiveInv, LiveTypes, SocketStates
<1>6. SocketsOwned'
  BY <1>1, <1>2, <1>3, <1>4 DEF SocketsOwned, Active, Mount
<1>7. StreamsAddUp'
  BY <1>0, <1>1, <1>3, <1>4 DEF StreamsAddUp
<1>8. IndicatorHonest'
  BY <1>0, <1>1, <1>3, <1>4 DEF IndicatorHonest
<1>. QED
  BY <1>5, <1>6, <1>7, <1>8 DEF LiveInv

LEMMA RefreshedInv == ASSUME LiveInv, NEW i, Refreshed(i) PROVE LiveInv'
<1>1. reloaded' = TRUE /\ UNCHANGED <<table, incidents, conns, mounts, user, connected, sockets>>
  BY DEF Refreshed, server
<1>. QED
  BY <1>1 DEF LiveInv, LiveTypes, SocketsOwned, Active, StreamsAddUp, AddsUp, IndicatorHonest

LEMMA OpenInv == ASSUME LiveInv, NEW m \in Mount, Open(m) PROVE LiveInv'
<1>0. sockets \in [Mount -> SocketStates] /\ SocketsOwned /\ StreamsAddUp
  BY DEF LiveInv, LiveTypes
<1>1. /\ sockets[m] = "connecting" /\ sockets' = [sockets EXCEPT ![m] = "open"]
      /\ connected' = TRUE
      /\ UNCHANGED <<table, incidents, conns, mounts, user, devices, reloaded>>
  BY DEF Open, server, shown
<1>2. sockets'[m] = "open" /\ \A k \in Mount : k # m => sockets'[k] = sockets[k]
  BY <1>0, <1>1
<1>3. sockets' \in [Mount -> SocketStates]
  BY <1>0, <1>1 DEF SocketStates
<1>4. SocketsOwned'
  BY <1>0, <1>1, <1>2 DEF SocketsOwned, Active
<1>5. StreamsAddUp'
  <2>1. conns[m] = Idle
    BY <1>0, <1>1 DEF StreamsAddUp
  <2>2. Idle' = Idle
    BY DEF Idle, Nobody
  <2>. QED
    BY <1>0, <1>1, <1>2, <2>1, <2>2, IdleFits DEF StreamsAddUp
<1>6. IndicatorHonest'
  BY <1>1, <1>2 DEF IndicatorHonest
<1>. QED
  BY <1>1, <1>3, <1>4, <1>5, <1>6 DEF LiveInv, LiveTypes

(* Only the newest socket is open: what a message does concerns one stream.  *)
LEMMA OneOpen == ASSUME LiveInv, NEW m \in Mount, sockets[m] = "open", NEW k \in Mount, k # m PROVE sockets[k] # "open" /\ conns[k] = Idle
BY DEF LiveInv, SocketsOwned, Active, StreamsAddUp

LEMMA PushInv == ASSUME LiveInv, NEW m \in Mount, Push(m) PROVE LiveInv'
<1>. DEFINE c == conns[m]
            k == [first |-> FALSE, previous |-> table, mail |-> Append(c.mail, Payload(c))]
<1>0. /\ conns \in [Mount -> Connection] /\ c \in Connection /\ table \in Contents /\ reloaded \in BOOLEAN
      /\ incidents \in [Alerts -> {"none", "open", "resolved"}]
  BY DEF LiveInv, LiveTypes
<1>1. /\ sockets[m] = "open" /\ conns' = [conns EXCEPT ![m] = k]
      /\ UNCHANGED <<table, incidents, mounts, user, devices, connected, sockets, reloaded>>
  BY DEF Push, server, shown
<1>2. AddsUp(c, devices, reloaded)
  BY <1>1 DEF LiveInv, StreamsAddUp
<1>3. c.mail \in Seq(Message) /\ Payload(c) \in Message
  BY <1>0, PayloadAdds DEF Connection
<1>4. Append(c.mail, Payload(c)) \in Seq(Message)
  BY <1>3
<1>5. k \in Connection /\ ~k.first /\ k.previous = table /\ k.mail = Append(c.mail, Payload(c))
  <2>. DEFINE more == Append(c.mail, Payload(c))
  <2>. HIDE DEF more
  <2>. QED
    BY <1>0, <1>4 DEF Connection, more
<1>. HIDE DEF k, c
<1>6. AddsUp(k, devices, reloaded)
  BY <1>0, <1>1, <1>2, <1>5, PushAdds
<1>7. conns' \in [Mount -> Connection] /\ conns'[m] = k /\ \A j \in Mount : j # m => conns'[j] = conns[j]
  BY <1>0, <1>1, <1>5
<1>8. StreamsAddUp'
  <2>1. ASSUME NEW j \in Mount, j # m PROVE sockets'[j] # "open" /\ conns'[j] = Idle
    BY <1>1, <1>7, <2>1, OneOpen
  <2>2. Idle' = Idle
    BY DEF Idle, Nobody
  <2>. QED
    BY <1>1, <1>6, <1>7, <2>1, <2>2 DEF StreamsAddUp
<1>. QED
  BY <1>1, <1>7, <1>8 DEF LiveInv, LiveTypes, SocketsOwned, Active, IndicatorHonest

LEMMA ReceiveInv == ASSUME LiveInv, NEW m \in Mount, Receive(m) PROVE LiveInv'
<1>. DEFINE c == conns[m]
            rest == Tail(c.mail)
            k == [c EXCEPT !.mail = rest]
            p == Head(c.mail)
<1>0. conns \in [Mount -> Connection] /\ c \in Connection /\ reloaded \in BOOLEAN
  BY DEF LiveInv, LiveTypes
<1>1. /\ sockets[m] = "open" /\ conns' = [conns EXCEPT ![m] = k] /\ c.mail # <<>>
      /\ devices' = Merged(devices, p) /\ reloaded' = (reloaded /\ p.type = "patch")
      /\ UNCHANGED <<table, incidents, mounts, user, connected, sockets>>
  BY DEF Receive, server
<1>2. AddsUp(c, devices, reloaded)
  BY <1>1 DEF LiveInv, StreamsAddUp
<1>3. c.mail \in Seq(Message) /\ Len(c.mail) > 0 /\ rest \in Seq(Message)
  <2>1. c.mail \in Seq(Message)
    BY <1>0 DEF Connection
  <2>. QED
    BY <1>1, <2>1
<1>. HIDE DEF rest
<1>4. k \in Connection /\ k.first = c.first /\ k.previous = c.previous /\ k.mail = rest
  BY <1>0, <1>3 DEF Connection
<1>. HIDE DEF k
<1>5. AddsUp(k, Merged(devices, p), reloaded /\ p.type = "patch")
  BY <1>0, <1>1, <1>2, <1>3, <1>4, ReceiveAdds DEF rest
<1>. HIDE DEF c, p
<1>6. conns' \in [Mount -> Connection] /\ conns'[m] = k /\ \A j \in Mount : j # m => conns'[j] = conns[j]
  BY <1>0, <1>1, <1>4
<1>7. StreamsAddUp'
  <2>1. ASSUME NEW j \in Mount, j # m PROVE sockets'[j] # "open" /\ conns'[j] = Idle
    BY <1>1, <1>6, <2>1, OneOpen
  <2>2. Idle' = Idle
    BY DEF Idle, Nobody
  <2>. QED
    BY <1>1, <1>5, <1>6, <2>1, <2>2 DEF StreamsAddUp
<1>8. reloaded' \in BOOLEAN
  BY <1>1
<1>. QED
  BY <1>1, <1>6, <1>7, <1>8 DEF LiveInv, LiveTypes, SocketsOwned, Active, IndicatorHonest

LEMMA CloseInv == ASSUME LiveInv, NEW m \in Mount, Close(m) PROVE LiveInv'
<1>0. /\ sockets \in [Mount -> SocketStates] /\ conns \in [Mount -> Connection]
      /\ SocketsOwned /\ StreamsAddUp
  BY DEF LiveInv, LiveTypes
<1>1. /\ connected' = FALSE /\ sockets[m] # "none"
      /\ sockets' = [sockets EXCEPT ![m] = IF Active(m) THEN "waiting" ELSE "none"]
      /\ conns' = [conns EXCEPT ![m] = Idle]
      /\ UNCHANGED <<table, incidents, mounts, user, devices, reloaded>>
  BY DEF Close, server, shown
<1>2. /\ sockets'[m] = (IF Active(m) THEN "waiting" ELSE "none") /\ conns'[m] = Idle
      /\ \A k \in Mount : k # m => sockets'[k] = sockets[k] /\ conns'[k] = conns[k]
  BY <1>0, <1>1
<1>3. sockets' \in [Mount -> SocketStates] /\ conns' \in [Mount -> Connection]
  BY <1>0, <1>1, IdleFits DEF SocketStates
<1>4. SocketsOwned'
  BY <1>0, <1>1, <1>2 DEF SocketsOwned, Active
<1>5. StreamsAddUp'
  BY <1>0, <1>1, <1>2 DEF StreamsAddUp, AddsUp
<1>6. ASSUME NEW k \in Mount, sockets'[k] = "open" PROVE k > 1
  <2>1. k # m /\ sockets[k] = "open" /\ k = mounts /\ user
    BY <1>0, <1>2, <1>6 DEF SocketsOwned, Active
  <2>2. m <= mounts
    BY <1>0, <1>1, <2>1 DEF SocketsOwned, Mount
  <2>. QED
    BY <2>1, <2>2 DEF Mount
<1>7. IndicatorHonest'
  BY <1>1, <1>6 DEF IndicatorHonest
<1>. QED
  BY <1>1, <1>3, <1>4, <1>5, <1>7 DEF LiveInv, LiveTypes

LEMMA ReconnectInv == ASSUME LiveInv, NEW m \in Mount, Reconnect(m) PROVE LiveInv'
<1>0. /\ sockets \in [Mount -> SocketStates] /\ SocketsOwned /\ StreamsAddUp /\ IndicatorHonest
  BY DEF LiveInv, LiveTypes
<1>1. /\ sockets[m] = "waiting" /\ sockets' = [sockets EXCEPT ![m] = "connecting"]
      /\ UNCHANGED <<table, incidents, conns, mounts, user, devices, connected, reloaded>>
  BY DEF Reconnect, server, shown
<1>2. sockets'[m] = "connecting" /\ \A k \in Mount : k # m => sockets'[k] = sockets[k]
  BY <1>0, <1>1
<1>3. sockets' \in [Mount -> SocketStates]
  BY <1>0, <1>1 DEF SocketStates
<1>4. SocketsOwned'
  BY <1>0, <1>1, <1>2 DEF SocketsOwned, Active
<1>5. StreamsAddUp'
  BY <1>0, <1>1, <1>2 DEF StreamsAddUp, AddsUp
<1>6. IndicatorHonest'
  BY <1>0, <1>1, <1>2 DEF IndicatorHonest
<1>. QED
  BY <1>1, <1>3, <1>4, <1>5, <1>6 DEF LiveInv, LiveTypes

LEMMA LiveStep == ASSUME LiveInv, [Next]_vars PROVE LiveInv'
<1>1. CASE UNCHANGED vars \/ Tick \/ Revoke
  BY <1>1, QuietInv DEF vars, server, shown, Tick, Revoke
<1>2. CASE SignIn
  BY <1>2, SignInInv
<1>3. CASE SignOut
  BY <1>3, LeaveInv DEF SignOut
<1>4. CASE Change
  BY <1>4, ChangeInv
<1>5. ASSUME NEW i, LoadGoesOn(i) \/ LoadFails(i) PROVE LiveInv'
  <2>1. CASE Answered(i) \/ LoadFails(i)
    BY <2>1, QuietInv DEF Answered, LoadFails, server, shown
  <2>2. CASE Refreshed(i)
    BY <2>2, RefreshedInv
  <2>3. CASE Refused(i)
    <3>1. CASE Active(loads[i].mount)
      BY <2>3, <3>1, LeaveInv DEF Refused, Active, server
    <3>2. CASE ~Active(loads[i].mount)
      BY <2>3, <3>2, QuietInv DEF Refused, server, shown
    <3>. QED
      BY <3>1, <3>2
  <2>. QED
    BY <1>5, <2>1, <2>2, <2>3 DEF LoadGoesOn
<1>6. ASSUME NEW m \in Mount, StreamGoesOn(m) \/ Drop(m) PROVE LiveInv'
  BY <1>6, OpenInv, PushInv, ReceiveInv, CloseInv, ReconnectInv DEF StreamGoesOn, Closed, Drop
<1>. QED
  BY <1>1, <1>2, <1>3, <1>4, <1>5, <1>6 DEF Next, Calm, Disturbed

(* While its socket is open and no reload intervened, what the page shows    *)
(* and the messages under way add up to what the server believes it has sent *)
(* on this connection, for any number of messages, sign-ins and drops.       *)
THEOREM PatchesAddUp == Spec => []StreamFaithful
<1>1. Init => LiveInv
  BY LiveBegin
<1>2. LiveInv /\ [Next]_vars => LiveInv'
  BY LiveStep
<1>3. LiveInv => StreamFaithful
  <2>1. ASSUME LiveInv, NEW m \in Mount, sockets[m] = "open", ~conns[m].first, ~reloaded
        PROVE  AddedUp(devices, conns[m].mail) = conns[m].previous
    BY <2>1 DEF LiveInv, StreamsAddUp, AddsUp
  <2>. QED
    BY <2>1 DEF StreamFaithful, AddedUp
<1>. QED
  BY <1>1, <1>2, <1>3, PTL DEF Spec

(* "Live updates" means a socket that is open or being closed, and on the    *)
(* first sign-in of a page "Reconnecting" means that there is none that is   *)
(* open, however often it is lost and in whatever order old sockets report   *)
(* their end.                                                                *)
THEOREM ConnectedIsOpen == Spec => []IndicatorHonest
<1>1. Init => LiveInv
  BY LiveBegin
<1>2. LiveInv /\ [Next]_vars => LiveInv'
  BY LiveStep
<1>3. LiveInv => IndicatorHonest
  BY DEF LiveInv
<1>. QED
  BY <1>1, <1>2, <1>3, PTL DEF Spec

-----------------------------------------------------------------------------
(* The chart: the segments hold the points in order and end at the gaps.    *)

LEMMA DrawnOpens ==
    ASSUME NEW done \in Seq(Seq(Int)), NEW t \in Int, NEW bucket,
           done = <<>> \/ Broken(Last(Last(done)), t, bucket)
    PROVE  LET drawn == Drawn(done, t, bucket)
           IN  /\ drawn \in Seq(Seq(Int)) /\ Len(drawn) = Len(done) + 1 /\ drawn[Len(done) + 1] = <<t>>
               /\ \A s \in 1 .. Len(done) : drawn[s] = done[s]
<1>. DEFINE S == Seq(Int)
            x == <<t>>
<1>1. Drawn(done, t, bucket) = Append(done, x) /\ x \in S /\ done \in Seq(S)
  BY DEF Drawn
<1>. HIDE DEF S, x
<1>2. /\ Append(done, x) \in Seq(S) /\ Len(Append(done, x)) = Len(done) + 1 /\ Append(done, x)[Len(done) + 1] = x
      /\ \A s \in 1 .. Len(done) : Append(done, x)[s] = done[s]
  BY <1>1, AppendProperties
<1>. QED
  BY <1>1, <1>2 DEF S, x

LEMMA DrawnExtends ==
    ASSUME NEW done \in Seq(Seq(Int)), NEW t \in Int, NEW bucket,
           done # <<>>, ~Broken(Last(Last(done)), t, bucket)
    PROVE  LET drawn == Drawn(done, t, bucket)
           IN  /\ drawn \in Seq(Seq(Int)) /\ Len(drawn) = Len(done)
               /\ \A s \in 1 .. Len(done) : drawn[s] = IF s = Len(done) THEN Append(done[s], t) ELSE done[s]
<1>. DEFINE S == Seq(Int)
            x == Append(done[Len(done)], t)
            L == Len(done)
<1>1. Drawn(done, t, bucket) = [done EXCEPT ![L] = x] /\ done \in Seq(S) /\ L \in 1 .. L
  BY DEF Drawn
<1>2. x \in S
  <2>. HIDE DEF S, L
  <2>1. done[L] \in S
    BY <1>1, ElementOfSeq DEF L
  <2>. QED
    BY <2>1 DEF S, L
<1>. HIDE DEF S, x
<1>3. /\ [done EXCEPT ![L] = x] \in Seq(S) /\ Len([done EXCEPT ![L] = x]) = L
      /\ \A s \in 1 .. L : [done EXCEPT ![L] = x][s] = IF s = L THEN x ELSE done[s]
  BY <1>1, <1>2, ExceptSeq
<1>. QED
  BY <1>1, <1>3 DEF S, x

LEMMA DrawnType ==
    ASSUME NEW done \in Seq(Seq(Int)), NEW t \in Int, NEW bucket
    PROVE  Drawn(done, t, bucket) \in Seq(Seq(Int))
  BY DrawnOpens, DrawnExtends

LEMMA SegmentsChain ==
    ASSUME NEW seq \in Seq(Int), NEW bucket
    PROVE  \E g :
             /\ g[0] = <<>>
             /\ \A i \in 1 .. Len(seq) : g[i] = Drawn(g[i - 1], seq[i], bucket)
             /\ Segments(seq, bucket) = g[Len(seq)]
<1>. DEFINE n == Len(seq)
            Is(h) == h = [s \in SUBSET (1 .. n) |-> IF s = {} THEN <<>> ELSE Drawn(h[s \ {Max(s)}], seq[Max(s)], bucket)]
            f == CHOOSE h : Is(h)
            G == [x \in Seq(Seq(Int)) \X (1 .. n) |-> Drawn(x[1], seq[x[2]], bucket)]
<1>0. n \in Nat /\ DOMAIN seq = 1 .. n /\ \A i \in 1 .. n : seq[i] \in Int
  OBVIOUS
<1>1. Segments(seq, bucket) = f[1 .. n]
  <2>1. Segments(seq, bucket) = (CHOOSE h : h = [s \in SUBSET DOMAIN seq |->
            IF s = {} THEN <<>> ELSE Drawn(h[s \ {Max(s)}], seq[Max(s)], bucket)])[DOMAIN seq]
    BY DEF Segments, FoldLeft, MapThenFoldSet
  <2>. QED
    BY <1>0, <2>1
<1>2. ASSUME NEW done \in Seq(Seq(Int)), NEW i \in 1 .. n
      PROVE  Drawn(done, seq[i], bucket) \in Seq(Seq(Int)) /\ G[<<done, i>>] = Drawn(done, seq[i], bucket)
  BY <1>0, DrawnType
<1>3. G \in [Seq(Seq(Int)) \X (1 .. n) -> Seq(Seq(Int))]
  BY <1>0, DrawnType
<1>. HIDE DEF G, n
<1>4. PICK h \in [SUBSET (1 .. n) -> Seq(Seq(Int))] :
        \A s \in SUBSET (1 .. n) : h[s] = IF s = {} THEN <<>> ELSE G[<<h[s \ {Max(s)}], Max(s)>>]
  <2>. DEFINE B == Seq(Seq(Int))
              e == <<>>
  <2>1. e \in B /\ n \in Nat /\ G \in [B \X (1 .. n) -> B]
    BY <1>0, <1>3
  <2>. HIDE DEF B, e
  <2>2. \E h \in [SUBSET (1 .. n) -> B] : Stepped(h, e, n, G)
    BY <2>1, StepsExist
  <2>. QED
    BY <2>2 DEF B, e, Stepped
<1>5. Is(h)
  <2>1. ASSUME NEW s \in SUBSET (1 .. n), s # {} PROVE h[s] = Drawn(h[s \ {Max(s)}], seq[Max(s)], bucket)
    <3>1. Max(s) \in 1 .. n /\ s \ {Max(s)} \in SUBSET (1 .. n)
      BY <1>0, <2>1, Greatest
    <3>2. h[s \ {Max(s)}] \in Seq(Seq(Int))
      BY <3>1
    <3>. QED
      BY <1>2, <1>4, <2>1, <3>1, <3>2
  <2>2. h[{}] = <<>>
    BY <1>4
  <2>3. h = [s \in SUBSET (1 .. n) |-> h[s]]
    OBVIOUS
  <2>. QED
    BY <2>1, <2>2, <2>3
<1>6. Is(f)
  BY <1>5
<1>. DEFINE g == [i \in 0 .. n |-> f[1 .. i]]
<1>. HIDE DEF f
<1>9. ASSUME NEW i \in 1 .. n PROVE g[i] = Drawn(g[i - 1], seq[i], bucket)
  <2>1. 1 .. i \in SUBSET (1 .. n) /\ i - 1 \in 0 .. n /\ i \in 0 .. n
    BY <1>0
  <2>2. Max(1 .. i) = i /\ (1 .. i) \ {i} = 1 .. (i - 1) /\ 1 .. i # {}
    <3>1. i \in Nat /\ i > 0
      BY <1>0
    <3>. QED
      BY <3>1, GreatestUpTo
  <2>3. f[1 .. i] = Drawn(f[1 .. (i - 1)], seq[i], bucket)
    BY <1>6, <2>1, <2>2
  <2>. QED
    BY <2>1, <2>3
<1>10. g[0] = <<>> /\ g[n] = f[1 .. n]
  <2>1. f[{}] = <<>>
    BY <1>6
  <2>2. 1 .. 0 = {} /\ 0 \in 0 .. n /\ n \in 0 .. n
    BY <1>0
  <2>. QED
    BY <2>1, <2>2
<1>. HIDE DEF g
<1>. QED
  BY <1>1, <1>9, <1>10 DEF n

(* A segment draws the points after from up to to, which no gap separates.  *)
SegmentLaid(segment, p, from, to, bucket) ==
    /\ segment \in Seq(Int) /\ from < to /\ Len(segment) = to - from
    /\ \A j \in 1 .. Len(segment) : segment[j] = p[from + j]
    /\ \A i \in from + 1 .. to - 1 : ~Broken(p[i], p[i + 1], bucket)

(* How the segments lie on the points: the s-th ends with point ends[s].    *)
Laid(done, p, n, bucket, ends) ==
    /\ done \in Seq(Seq(Int)) /\ ends \in [0 .. Len(done) -> 0 .. n]
    /\ ends[0] = 0 /\ ends[Len(done)] = n
    /\ \A s \in 1 .. Len(done) :
        /\ SegmentLaid(done[s], p, ends[s - 1], ends[s], bucket)
        /\ s > 1 => Broken(p[ends[s - 1]], p[ends[s - 1] + 1], bucket)

LEMMA LaidOpens ==
    ASSUME NEW p, NEW n \in Nat, NEW bucket, p[n + 1] \in Int
    PROVE  SegmentLaid(<<p[n + 1]>>, p, n, n + 1, bucket)
  BY DEF SegmentLaid

LEMMA LaidExtends ==
    ASSUME NEW p, NEW n \in Nat, NEW bucket, NEW from \in Nat, NEW segment,
           SegmentLaid(segment, p, from, n, bucket), p[n + 1] \in Int, ~Broken(p[n], p[n + 1], bucket)
    PROVE  SegmentLaid(Append(segment, p[n + 1]), p, from, n + 1, bucket)
<1>. DEFINE t == p[n + 1]
            k == Len(segment)
            more == Append(segment, t)
<1>1. segment \in Seq(Int) /\ k \in Nat /\ from < n /\ k = n - from /\ t \in Int
  BY DEF SegmentLaid
<1>2. /\ more \in Seq(Int) /\ Len(more) = k + 1 /\ more[k + 1] = t
      /\ \A j \in 1 .. k : more[j] = segment[j]
  BY <1>1, AppendProperties
<1>. HIDE DEF t, k, more
<1>3. from < n + 1 /\ Len(more) = (n + 1) - from
  BY <1>1, <1>2
<1>4. ASSUME NEW j \in 1 .. Len(more) PROVE more[j] = p[from + j]
  <2>1. CASE j = k + 1
    <3>1. from + j = n + 1
      BY <1>1, <2>1
    <3>. QED
      BY <1>2, <2>1, <3>1 DEF t
  <2>2. CASE j # k + 1
    <3>1. j \in 1 .. k
      BY <1>1, <1>2, <2>2
    <3>. QED
      BY <1>2, <3>1 DEF SegmentLaid, k
  <2>. QED
    BY <2>1, <2>2
<1>5. ASSUME NEW i \in from + 1 .. (n + 1) - 1 PROVE ~Broken(p[i], p[i + 1], bucket)
  <2>1. CASE i = n
    BY <2>1
  <2>2. CASE i # n
    <3>1. i \in from + 1 .. n - 1
      BY <2>2
    <3>. QED
      BY <3>1 DEF SegmentLaid
  <2>. QED
    BY <2>1, <2>2
<1>. QED
  BY <1>2, <1>3, <1>4, <1>5 DEF SegmentLaid, more, t

(* The next point opens a segment after a gap, and is drawn on otherwise.   *)
LEMMA NextLaid ==
    ASSUME NEW p \in Seq(Int), NEW n \in Nat, n < Len(p), NEW bucket,
           NEW done, NEW ends, Laid(done, p, n, bucket, ends)
    PROVE  \E more : Laid(Drawn(done, p[n + 1], bucket), p, n + 1, bucket, more)
<1>. DEFINE t == p[n + 1]
            L == Len(done)
            drawn == Drawn(done, t, bucket)
<1>0. done \in Seq(Seq(Int)) /\ L = Len(done) /\ (L = 0 <=> done = <<>>)
  BY DEF Laid
<1>1. /\ L \in Nat /\ n + 1 \in 1 .. Len(p) /\ t \in Int
      /\ ends \in [0 .. L -> 0 .. n] /\ ends[0] = 0 /\ ends[L] = n
  BY <1>0 DEF Laid
<1>2. \A s \in 1 .. L :
        /\ SegmentLaid(done[s], p, ends[s - 1], ends[s], bucket)
        /\ s > 1 => Broken(p[ends[s - 1]], p[ends[s - 1] + 1], bucket)
  BY DEF Laid
<1>. HIDE DEF L, t
<1>3. done # <<>> =>
        /\ L \in 1 .. L /\ L - 1 \in 0 .. L /\ ends[L - 1] \in Nat
        /\ SegmentLaid(done[L], p, ends[L - 1], n, bucket) /\ Last(Last(done)) = p[n]
  <2>. SUFFICES ASSUME done # <<>>
       PROVE  /\ L \in 1 .. L /\ L - 1 \in 0 .. L /\ ends[L - 1] \in Nat
              /\ SegmentLaid(done[L], p, ends[L - 1], n, bucket) /\ Last(Last(done)) = p[n]
    OBVIOUS
  <2>1. L \in 1 .. L /\ L - 1 \in 0 .. L /\ Last(done) = done[L]
    BY <1>0, <1>1 DEF Last
  <2>2. ends[L - 1] \in 0 .. n /\ SegmentLaid(done[L], p, ends[L - 1], n, bucket)
    BY <1>1, <1>2, <2>1
  <2>3. Len(done[L]) = n - ends[L - 1] /\ ends[L - 1] < n
    BY <2>2 DEF SegmentLaid
  <2>4. Len(done[L]) \in 1 .. Len(done[L]) /\ ends[L - 1] + Len(done[L]) = n
    BY <2>2, <2>3
  <2>5. done[L][Len(done[L])] = p[n]
    BY <2>2, <2>4 DEF SegmentLaid
  <2>. QED
    BY <2>1, <2>2, <2>5 DEF Last
<1>4. CASE done = <<>> \/ Broken(Last(Last(done)), t, bucket)
  <2>. DEFINE more == [s \in 0 .. L + 1 |-> IF s = L + 1 THEN n + 1 ELSE ends[s]]
  <2>1. /\ drawn \in Seq(Seq(Int)) /\ Len(drawn) = L + 1 /\ drawn[L + 1] = <<t>>
        /\ \A s \in 1 .. L : drawn[s] = done[s]
    BY <1>0, <1>1, <1>4, DrawnOpens
  <2>2. more \in [0 .. L + 1 -> 0 .. n + 1] /\ more[0] = 0 /\ more[L] = n /\ more[L + 1] = n + 1
    BY <1>1
  <2>3. \A s \in 1 .. L : more[s] = ends[s] /\ more[s - 1] = ends[s - 1]
    BY <1>1
  <2>. HIDE DEF drawn, more
  <2>4. ASSUME NEW s \in 1 .. L + 1
        PROVE  /\ SegmentLaid(drawn[s], p, more[s - 1], more[s], bucket)
               /\ s > 1 => Broken(p[more[s - 1]], p[more[s - 1] + 1], bucket)
    <3>1. CASE s \in 1 .. L
      BY <1>2, <2>1, <2>3, <3>1
    <3>2. CASE s = L + 1
      <4>1. drawn[s] = <<t>> /\ more[s - 1] = n /\ more[s] = n + 1
        BY <1>1, <2>1, <2>2, <3>2
      <4>2. SegmentLaid(<<t>>, p, n, n + 1, bucket)
        BY <1>1, LaidOpens DEF t
      <4>3. s > 1 => Broken(p[n], t, bucket)
        BY <1>0, <1>1, <1>3, <1>4, <3>2
      <4>. QED
        BY <4>1, <4>2, <4>3 DEF t
    <3>. QED
      BY <1>1, <3>1, <3>2
  <2>5. Laid(drawn, p, n + 1, bucket, more)
    BY <2>1, <2>2, <2>4 DEF Laid
  <2>. QED
    BY <2>5 DEF drawn, t
<1>5. CASE ~(done = <<>> \/ Broken(Last(Last(done)), t, bucket))
  <2>. DEFINE more == [ends EXCEPT ![L] = n + 1]
  <2>1. /\ drawn \in Seq(Seq(Int)) /\ Len(drawn) = L
        /\ \A s \in 1 .. L : drawn[s] = IF s = L THEN Append(done[s], t) ELSE done[s]
    BY <1>0, <1>1, <1>5, DrawnExtends
  <2>2. more \in [0 .. L -> 0 .. n + 1] /\ more[0] = 0 /\ more[L] = n + 1
    BY <1>1, <1>3, <1>5
  <2>3. \A s \in 0 .. L - 1 : more[s] = ends[s]
    BY <1>1
  <2>. HIDE DEF drawn, more
  <2>4. ASSUME NEW s \in 1 .. L
        PROVE  /\ SegmentLaid(drawn[s], p, more[s - 1], more[s], bucket)
               /\ s > 1 => Broken(p[more[s - 1]], p[more[s - 1] + 1], bucket)
    <3>1. s - 1 \in 0 .. L - 1 /\ more[s - 1] = ends[s - 1]
      BY <1>1, <2>3
    <3>2. CASE s # L
      <4>1. s \in 0 .. L - 1
        BY <1>1, <3>2
      <4>2. more[s] = ends[s] /\ drawn[s] = done[s]
        BY <2>1, <2>3, <3>2, <4>1
      <4>. QED
        BY <1>2, <3>1, <4>2
    <3>3. CASE s = L
      <4>1. more[s] = n + 1 /\ drawn[s] = Append(done[L], t)
        BY <2>1, <2>2, <3>3
      <4>2. SegmentLaid(Append(done[L], t), p, ends[L - 1], n + 1, bucket)
        BY <1>1, <1>3, <1>5, LaidExtends DEF t
      <4>. QED
        BY <1>2, <3>1, <3>3, <4>1, <4>2
    <3>. QED
      BY <3>2, <3>3
  <2>5. Laid(drawn, p, n + 1, bucket, more)
    BY <2>1, <2>2, <2>4 DEF Laid
  <2>. QED
    BY <2>5 DEF drawn, t
<1>. QED
  BY <1>4, <1>5

LEMMA SegmentsLaid ==
    ASSUME NEW p \in Seq(Int), NEW bucket
    PROVE  \E ends : Laid(Segments(p, bucket), p, Len(p), bucket, ends)
<1>. DEFINE n == Len(p)
<1>1. PICK g : /\ g[0] = <<>>
               /\ \A i \in 1 .. Len(p) : g[i] = Drawn(g[i - 1], p[i], bucket)
               /\ Segments(p, bucket) = g[Len(p)]
  BY SegmentsChain
<1>. DEFINE Bad == {k \in 0 .. n : ~ \E ends : Laid(g[k], p, k, bucket, ends)}
<1>2. ASSUME Bad # {} PROVE FALSE
  <2>0. Bad \in SUBSET Nat /\ n \in Nat
    OBVIOUS
  <2>1. PICK k \in Bad : \A m \in Bad : k <= m
    BY <1>2, <2>0, LeastNat
  <2>2. CASE k = 0
    <3>. DEFINE ends == [s \in 0 .. 0 |-> 0]
    <3>1. <<>> \in Seq(Seq(Int)) /\ Len(<<>>) = 0 /\ ends \in [0 .. 0 -> 0 .. 0] /\ ends[0] = 0
      OBVIOUS
    <3>. HIDE DEF ends
    <3>2. Laid(<<>>, p, 0, bucket, ends)
      BY <3>1 DEF Laid
    <3>. QED
      BY <1>1, <2>1, <2>2, <3>2
  <2>3. CASE k # 0
    <3>1. k \in 1 .. n /\ k - 1 \in 0 .. n /\ k - 1 \in Nat /\ k - 1 < n /\ k - 1 \notin Bad /\ (k - 1) + 1 = k
      BY <2>0, <2>1, <2>3
    <3>2. PICK ends : Laid(g[k - 1], p, k - 1, bucket, ends)
      BY <3>1
    <3>3. g[k] = Drawn(g[k - 1], p[k], bucket)
      BY <1>1, <3>1
    <3>. DEFINE m == k - 1
                d == g[k - 1]
    <3>4. m \in Nat /\ m < Len(p) /\ Laid(d, p, m, bucket, ends) /\ m + 1 = k
      BY <3>1, <3>2
    <3>. HIDE DEF m, d
    <3>5. \E more : Laid(Drawn(d, p[m + 1], bucket), p, m + 1, bucket, more)
      BY <3>4, NextLaid
    <3>6. \E more : Laid(g[k], p, k, bucket, more)
      BY <3>3, <3>4, <3>5 DEF d
    <3>. QED
      BY <2>1, <3>6
  <2>. QED
    BY <2>2, <2>3
<1>3. n \in 0 .. n
  OBVIOUS
<1>4. \E ends : Laid(g[n], p, n, bucket, ends)
  BY <1>2, <1>3
<1>. QED
  BY <1>1, <1>4

LEMMA SegmentJoins ==
    ASSUME NEW p \in Seq(Int), NEW from \in Nat, NEW to \in Nat, NEW segment, NEW bucket,
           SegmentLaid(segment, p, from, to, bucket), to <= Len(p)
    PROVE  SubSeq(p, 1, from) \o segment = SubSeq(p, 1, to)
<1>. DEFINE before == SubSeq(p, 1, from)
            all == SubSeq(p, 1, to)
<1>1. segment \in Seq(Int) /\ from < to /\ Len(segment) = to - from
  BY DEF SegmentLaid
<1>2. /\ before \in Seq(Int) /\ Len(before) = from /\ \A i \in 1 .. from : before[i] = p[i]
      /\ all \in Seq(Int) /\ Len(all) = to /\ \A i \in 1 .. to : all[i] = p[i]
  <2>1. ASSUME NEW k \in Nat, k <= Len(p)
        PROVE  /\ SubSeq(p, 1, k) \in Seq(Int) /\ Len(SubSeq(p, 1, k)) = k
               /\ \A i \in 1 .. k : SubSeq(p, 1, k)[i] = p[i]
    BY <2>1
  <2>2. from <= Len(p)
    BY <1>1
  <2>. QED
    BY <2>1, <2>2
<1>. HIDE DEF before, all
<1>3. /\ before \o segment \in Seq(Int) /\ Len(before \o segment) = to
      /\ \A i \in 1 .. to : (before \o segment)[i] = IF i <= from THEN before[i] ELSE segment[i - from]
  <2>1. /\ before \o segment \in Seq(Int) /\ Len(before \o segment) = Len(before) + Len(segment)
        /\ \A i \in 1 .. Len(before) + Len(segment) :
              (before \o segment)[i] = IF i <= Len(before) THEN before[i] ELSE segment[i - Len(before)]
    BY <1>1, <1>2, ConcatProperties
  <2>2. Len(before) + Len(segment) = to /\ Len(before) = from
    BY <1>1, <1>2
  <2>. QED
    BY <2>1, <2>2
<1>4. ASSUME NEW i \in 1 .. to PROVE (before \o segment)[i] = all[i]
  <2>1. CASE i <= from
    <3>1. i \in 1 .. from
      BY <2>1
    <3>. QED
      BY <1>2, <1>3, <2>1, <3>1
  <2>2. CASE ~(i <= from)
    <3>1. i - from \in 1 .. Len(segment) /\ from + (i - from) = i
      BY <1>1, <2>2
    <3>2. segment[i - from] = p[i]
      BY <3>1 DEF SegmentLaid
    <3>. QED
      BY <1>2, <1>3, <2>2, <3>2
  <2>. QED
    BY <2>1, <2>2
<1>5. before \o segment = all
  BY <1>2, <1>3, <1>4, SeqEqual
<1>. QED
  BY <1>5 DEF before, all

(* The segments hold every point, once and in order.                        *)
LEMMA NothingLeftOut ==
    ASSUME NEW p \in Seq(Int), NEW d, NEW bucket, NEW ends, Laid(d, p, Len(p), bucket, ends)
    PROVE  FlattenSeq(d) = p
<1>. DEFINE L == Len(d)
            n == Len(p)
            Is(h) == h = [i \in 1 .. L |-> IF i = 1 THEN d[i] ELSE h[i - 1] \o d[i]]
            f == CHOOSE h : Is(h)
            w == [i \in 1 .. L |-> SubSeq(p, 1, ends[i])]
<1>1. /\ L \in Nat /\ n \in Nat /\ ends \in [0 .. L -> 0 .. n] /\ ends[0] = 0 /\ ends[L] = n
      /\ \A i \in 1 .. L : SegmentLaid(d[i], p, ends[i - 1], ends[i], bucket)
  BY DEF Laid
<1>2. SubSeq(p, 1, n) = p /\ SubSeq(p, 1, 0) = <<>>
  <2>1. SubSeq(p, 1, n) = p
    BY <1>1
  <2>. QED
    BY <1>1, <2>1
<1>3. CASE L = 0
  <2>1. d = <<>> /\ n = 0
    BY <1>1, <1>3 DEF Laid
  <2>2. p = <<>>
    BY <1>2, <2>1
  <2>. QED
    BY <2>1, <2>2 DEF FlattenSeq
<1>4. CASE L # 0
  <2>1. FlattenSeq(d) = f[L]
    BY <1>1, <1>4 DEF FlattenSeq
  <2>2. ASSUME NEW i \in 1 .. L PROVE SubSeq(p, 1, ends[i - 1]) \o d[i] = SubSeq(p, 1, ends[i])
    <3>1. i - 1 \in 0 .. L /\ i \in 0 .. L
      BY <1>1
    <3>2. ends[i - 1] \in 0 .. n /\ ends[i] \in 0 .. n /\ SegmentLaid(d[i], p, ends[i - 1], ends[i], bucket)
      BY <1>1, <3>1
    <3>3. ends[i - 1] \in Nat /\ ends[i] \in Nat /\ ends[i] <= Len(p)
      BY <1>1, <3>2
    <3>. QED
      BY <3>2, <3>3, SegmentJoins
  <2>3. Is(w)
    <3>1. ASSUME NEW i \in 1 .. L PROVE SubSeq(p, 1, ends[i]) = IF i = 1 THEN d[i] ELSE w[i - 1] \o d[i]
      <4>1. CASE i = 1
        <5>1. d[1] \in Seq(Int)
          BY <1>1, <4>1 DEF SegmentLaid
        <5>2. <<>> \o d[1] = SubSeq(p, 1, ends[1])
          <6>1. SubSeq(p, 1, ends[i - 1]) \o d[i] = SubSeq(p, 1, ends[i])
            BY <2>2
          <6>2. ends[i - 1] = 0
            BY <1>1, <4>1
          <6>. QED
            BY <1>2, <4>1, <6>1, <6>2
        <5>3. <<>> \o d[1] = d[1]
          BY <5>1, ConcatEmptySeq
        <5>. QED
          BY <4>1, <5>2, <5>3
      <4>2. CASE i # 1
        <5>1. i - 1 \in 1 .. L
          BY <1>1, <4>2
        <5>. QED
          BY <2>2, <4>2, <5>1
      <4>. QED
        BY <4>1, <4>2
    <3>. QED
      BY <3>1
  <2>4. Is(f)
    BY <2>3
  <2>. DEFINE Bad == {i \in 1 .. L : f[i] # w[i]}
  <2>. HIDE DEF f
  <2>5. ASSUME Bad # {} PROVE FALSE
    <3>0. Bad \in SUBSET Nat
      OBVIOUS
    <3>1. PICK i \in Bad : \A m \in Bad : i <= m
      BY <2>5, <3>0, LeastNat
    <3>2. f[i] = IF i = 1 THEN d[i] ELSE f[i - 1] \o d[i]
      BY <2>4, <3>1
    <3>3. w[i] = IF i = 1 THEN d[i] ELSE w[i - 1] \o d[i]
      BY <2>3, <3>1
    <3>4. i # 1 => f[i - 1] = w[i - 1]
      <4>1. i # 1 => i - 1 \in 1 .. L /\ ~(i <= i - 1)
        BY <1>1, <3>1
      <4>. QED
        BY <3>1, <4>1
    <3>. QED
      BY <3>1, <3>2, <3>3, <3>4
  <2>6. L \in 1 .. L /\ w[L] = SubSeq(p, 1, n)
    BY <1>1, <1>4
  <2>7. f[L] = w[L]
    BY <2>5, <2>6
  <2>. QED
    BY <1>2, <2>1, <2>6, <2>7
<1>. QED
  BY <1>3, <1>4

Rising(p) == \A i, j \in 1 .. Len(p) : i < j => p[i] < p[j]

Joined(d) == UNION {{<<d[i][j], d[i][j + 1]>> : j \in 1 .. (Len(d[i]) - 1)} : i \in DOMAIN d}

(* Two neighbours are joined unless a gap lies between them.                *)
LEMMA OnlyGapsSplit ==
    ASSUME NEW p \in Seq(Int), Rising(p), NEW d, NEW bucket, NEW ends, Laid(d, p, Len(p), bucket, ends),
           NEW i \in 1 .. (Len(p) - 1)
    PROVE  <<p[i], p[i + 1]>> \in Joined(d) <=> ~Broken(p[i], p[i + 1], bucket)
<1>. DEFINE L == Len(d)
            n == Len(p)
<1>1. /\ L \in Nat /\ n \in Nat /\ ends \in [0 .. L -> 0 .. n] /\ ends[0] = 0 /\ ends[L] = n /\ DOMAIN d = 1 .. L
      /\ \A s \in 1 .. L : /\ SegmentLaid(d[s], p, ends[s - 1], ends[s], bucket)
                           /\ s > 1 => Broken(p[ends[s - 1]], p[ends[s - 1] + 1], bucket)
  BY DEF Laid
<1>. HIDE DEF L
<1>2. ASSUME <<p[i], p[i + 1]>> \in Joined(d) PROVE ~Broken(p[i], p[i + 1], bucket)
  <2>1. PICK s \in 1 .. L : \E j \in 1 .. (Len(d[s]) - 1) : <<p[i], p[i + 1]>> = <<d[s][j], d[s][j + 1]>>
    BY <1>1, <1>2 DEF Joined
  <2>2. PICK j \in 1 .. (Len(d[s]) - 1) : p[i] = d[s][j]
    BY <2>1
  <2>3. s - 1 \in 0 .. L /\ s \in 0 .. L
    BY <1>1
  <2>. DEFINE from == ends[s - 1]
              to == ends[s]
  <2>4. from \in Nat /\ to \in Nat /\ to <= n /\ SegmentLaid(d[s], p, from, to, bucket)
    BY <1>1, <2>3
  <2>. HIDE DEF from, to
  <2>5. Len(d[s]) = to - from /\ from < to
    BY <2>4 DEF SegmentLaid
  <2>6. j \in 1 .. Len(d[s]) /\ from + j \in from + 1 .. to - 1 /\ from + j \in 1 .. n
    BY <1>1, <2>4, <2>5
  <2>7. d[s][j] = p[from + j] /\ ~Broken(p[from + j], p[from + j + 1], bucket)
    BY <2>4, <2>6 DEF SegmentLaid
  <2>8. from + j = i
    <3>1. i \in 1 .. n /\ p[from + j] = p[i] /\ p[i] \in Int
      BY <1>1, <2>2, <2>7
    <3>2. ~(from + j < i) /\ ~(i < from + j)
      BY <2>6, <3>1 DEF Rising
    <3>. QED
      BY <2>4, <3>1, <3>2
  <2>. QED
    BY <2>7, <2>8
<1>3. ASSUME ~Broken(p[i], p[i + 1], bucket) PROVE <<p[i], p[i + 1]>> \in Joined(d)
  <2>. DEFINE T == {s \in 1 .. L : i <= ends[s]}
  <2>1. L \in T /\ T \in SUBSET Nat
    <3>1. L \in 1 .. L /\ i <= ends[L]
      BY <1>1
    <3>. QED
      BY <3>1
  <2>2. PICK s \in T : \A m \in T : s <= m
    BY <2>1, LeastNat
  <2>3. s \in 1 .. L /\ s - 1 \in 0 .. L /\ s \in 0 .. L /\ i <= ends[s] /\ s - 1 \notin T
    BY <1>1, <2>2
  <2>. DEFINE from == ends[s - 1]
              to == ends[s]
  <2>4. from \in Nat /\ to \in Nat /\ from < i /\ i <= to
    <3>1. CASE s = 1
      BY <1>1, <2>3, <3>1
    <3>2. CASE s # 1
      <4>1. s - 1 \in 1 .. L
        BY <1>1, <2>3, <3>2
      <4>. QED
        BY <1>1, <2>3, <4>1
    <3>. QED
      BY <3>1, <3>2
  <2>5. SegmentLaid(d[s], p, from, to, bucket)
    BY <1>1, <2>3
  <2>6. i # to
    <3>. SUFFICES ASSUME i = to PROVE FALSE
      OBVIOUS
    <3>1. s + 1 \in 1 .. L /\ s + 1 > 1 /\ (s + 1) - 1 = s
      <4>1. s # L
        BY <1>1
      <4>. QED
        BY <1>1, <2>3, <4>1
    <3>2. Broken(p[ends[s]], p[ends[s] + 1], bucket)
      BY <1>1, <3>1
    <3>. QED
      BY <1>3, <3>2
  <2>. HIDE DEF from, to
  <2>. DEFINE j == i - from
  <2>7. Len(d[s]) = to - from /\ j \in 1 .. (Len(d[s]) - 1) /\ j \in 1 .. Len(d[s]) /\ j + 1 \in 1 .. Len(d[s])
    BY <2>4, <2>5, <2>6 DEF SegmentLaid
  <2>8. from + j = i /\ from + (j + 1) = i + 1
    BY <2>4
  <2>. HIDE DEF j
  <2>9. d[s][j] = p[i] /\ d[s][j + 1] = p[i + 1]
    BY <2>5, <2>7, <2>8 DEF SegmentLaid
  <2>10. <<p[i], p[i + 1]>> \in {<<d[s][k], d[s][k + 1]>> : k \in 1 .. (Len(d[s]) - 1)}
    BY <2>7, <2>9
  <2>11. {<<d[s][k], d[s][k + 1]>> : k \in 1 .. (Len(d[s]) - 1)}
         \in {{<<d[r][k], d[r][k + 1]>> : k \in 1 .. (Len(d[r]) - 1)} : r \in DOMAIN d}
    BY <1>1, <2>3
  <2>. QED
    BY <2>10, <2>11 DEF Joined
<1>. QED
  BY <1>2, <1>3

ChartInv ==
    /\ ctPoints \in Answers
    /\ ctBucket \in ChartBuckets
    /\ ctInspect \in Int /\ ctInspect >= -1

LEMMA AnswerType ==
    ASSUME NEW p \in Answers
    PROVE  p \in Seq(Int) /\ Len(p) >= 1 /\ Rising(p) /\ DOMAIN p = 1 .. Len(p)
<1>1. PICK n \in 1 .. Cardinality(ChartTimes) : p \in [1 .. n -> ChartTimes]
  BY DEF Answers
<1>2. n \in Nat /\ n >= 1
  BY FS_CardinalityType, ChartAssumption
<1>3. p \in [1 .. n -> Int]
  BY <1>1, ChartAssumption
<1>4. p \in Seq(Int) /\ Len(p) = n /\ DOMAIN p = 1 .. n
  BY <1>2, <1>3
<1>. QED
  BY <1>2, <1>4 DEF Answers, Rising

(* The point of the pointer is one of the points.                           *)
LEMMA NearestExists ==
    ASSUME ctPoints \in Answers, NEW t \in ChartTimes
    PROVE  Nearest(t) \in 1 .. Len(ctPoints)
<1>. DEFINE n == Len(ctPoints)
            T == {Away(i, t) : i \in 1 .. n}
<1>1. n \in Nat /\ n >= 1 /\ DOMAIN ctPoints = 1 .. n /\ t \in Int /\ \A i \in 1 .. n : ctPoints[i] \in Int
  BY AnswerType, ChartAssumption
<1>2. \A i \in 1 .. n : Away(i, t) \in Nat
  BY <1>1 DEF Away
<1>. HIDE DEF n
<1>3. T \in SUBSET Nat /\ T # {}
  <2>1. 1 \in 1 .. n
    BY <1>1
  <2>. QED
    BY <1>2, <2>1
<1>4. PICK a \in T : \A b \in T : a <= b
  BY <1>3, LeastNat
<1>. DEFINE W == {i \in 1 .. n : Away(i, t) = a}
<1>5. W \in SUBSET Nat /\ W # {}
  BY <1>4
<1>6. PICK i \in W : \A j \in W : i <= j
  BY <1>5, LeastNat
<1>7. i \in 1 .. n /\ \A j \in 1 .. n : Away(i, t) <= Away(j, t)
  BY <1>4, <1>6
<1>8. ASSUME NEW j \in 1 .. (i - 1) PROVE Away(j, t) > Away(i, t)
  <2>1. j \in 1 .. n /\ j \notin W
    BY <1>1, <1>6, <1>7
  <2>2. Away(j, t) # Away(i, t) /\ Away(i, t) <= Away(j, t) /\ Away(i, t) \in Nat /\ Away(j, t) \in Nat
    BY <1>2, <1>6, <1>7, <2>1
  <2>. QED
    BY <2>2
<1>. QED
  BY <1>1, <1>7, <1>8 DEF Nearest, n

LEMMA ChartIsDrawn == ASSUME ChartInv PROVE ChartIsAnswer
<1>1. /\ ctPoints \in Seq(Int) /\ Len(ctPoints) \in Nat /\ Len(ctPoints) >= 1 /\ DOMAIN ctPoints = 1 .. Len(ctPoints)
      /\ Rising(ctPoints) /\ ctInspect \in Int /\ ctInspect >= -1 /\ ctBucket \in Nat /\ Cadence \in Nat \ {0}
  BY AnswerType, ChartAssumption DEF ChartInv
<1>2. InspectedExists
  BY <1>1 DEF InspectedExists, ValueNow, Selected
<1>3. PICK ends : Laid(Segments(ctPoints, ctBucket), ctPoints, Len(ctPoints), ctBucket, ends)
  BY <1>1, SegmentsLaid
<1>4. FlattenSeq(Segments(ctPoints, ctBucket)) = ctPoints
  BY <1>1, <1>3, NothingLeftOut
<1>5. ASSUME NEW i \in 1 .. (Len(ctPoints) - 1)
      PROVE  LET gap == ctPoints[i + 1] - ctPoints[i]
                 interval == IF ctBucket > Cadence THEN ctBucket ELSE Cadence
                 bridged == <<ctPoints[i], ctPoints[i + 1]>> \in Joined(Segments(ctPoints, ctBucket))
             IN  (gap <= interval => bridged) /\ (bridged => gap < 2 * interval)
  <2>1. ctPoints[i] \in Int /\ ctPoints[i + 1] \in Int
    BY <1>1
  <2>2. <<ctPoints[i], ctPoints[i + 1]>> \in Joined(Segments(ctPoints, ctBucket))
        <=> ~Broken(ctPoints[i], ctPoints[i + 1], ctBucket)
    BY <1>1, <1>3, OnlyGapsSplit
  <2>. DEFINE before == ctPoints[i]
              after == ctPoints[i + 1]
              interval == IF ctBucket > Cadence THEN ctBucket ELSE Cadence
  <2>3. before \in Int /\ after \in Int /\ interval \in Nat /\ interval > 0
    BY <1>1, <2>1
  <2>4. ~Broken(before, after, ctBucket) <=> 2 * (after - before) <= 3 * interval
    <3>1. Wider(ctBucket, Cadence) = interval
      BY DEF Wider
    <3>. HIDE DEF before, after, interval
    <3>. QED
      BY <2>3, <3>1 DEF Broken
  <2>5. /\ after - before <= interval => 2 * (after - before) <= 3 * interval
        /\ 2 * (after - before) <= 3 * interval => after - before < 2 * interval
    <3>. HIDE DEF before, after, interval
    <3>. QED
      BY <2>3
  <2>. QED
    BY <2>2, <2>4, <2>5
<1>6. GapsSplit
  BY <1>4, <1>5 DEF GapsSplit, Joined
<1>. QED
  BY <1>2, <1>6 DEF ChartIsAnswer

LEMMA ChartStep == ASSUME ChartInv, [ChartNext]_ctVars PROVE ChartInv'
<1>0. ctPoints \in Answers /\ ctInspect \in Int /\ ctInspect >= -1 /\ Len(ctPoints) \in Nat /\ Len(ctPoints) >= 1
  BY AnswerType DEF ChartInv
<1>1. CASE NextAnswer \/ UNCHANGED ctVars
  BY <1>0, <1>1 DEF ChartInv, NextAnswer, ctVars
<1>2. ASSUME NEW i \in Int, i >= -1, Inspects(i) PROVE ChartInv'
  BY <1>2 DEF Inspects, ChartInv
<1>3. CASE FocusChart
  <2>1. PICK i \in Int : i >= -1 /\ Inspects(i)
    BY <1>0, <1>3 DEF FocusChart
  <2>. QED
    BY <1>2, <2>1
<1>4. ASSUME NEW t \in ChartTimes, PointChart(t) PROVE ChartInv'
  <2>1. Nearest(t) \in 1 .. Len(ctPoints)
    BY <1>0, NearestExists
  <2>2. Nearest(t) - 1 \in Int /\ Nearest(t) - 1 >= -1
    BY <1>0, <2>1
  <2>. QED
    BY <1>2, <1>4, <2>2 DEF PointChart
<1>5. ASSUME NEW key \in {"Home", "End", "Left", "Right"}, PressKey(key) PROVE ChartInv'
  <2>. DEFINE current == ValueNow - 1
              last == Len(ctPoints) - 1
  <2>1. current \in Int /\ last \in Int /\ current >= 0 /\ last >= 0
    BY <1>0 DEF ValueNow, Selected
  <2>. HIDE DEF current, last
  <2>2. \/ Inspects(0) \/ Inspects(last)
        \/ Inspects(IF current = 0 THEN 0 ELSE current - 1)
        \/ Inspects(IF current >= last THEN last ELSE current + 1)
    BY <1>5 DEF PressKey, current, last
  <2>3. (IF current = 0 THEN 0 ELSE current - 1) \in Int /\ (IF current = 0 THEN 0 ELSE current - 1) >= -1
        /\ (IF current >= last THEN last ELSE current + 1) \in Int
        /\ (IF current >= last THEN last ELSE current + 1) >= -1
    BY <2>1
  <2>. QED
    BY <1>2, <2>1, <2>2, <2>3
<1>. QED
  BY <1>1, <1>3, <1>4, <1>5 DEF ChartNext

(* Whatever answers replace one another and whatever is pointed at, the     *)
(* point announced is one of the answer's, the line passes all of them in   *)
(* order, and it is interrupted where an interval went by without a sample. *)
THEOREM ChartAlwaysAnswer == ChartInit /\ [][ChartNext]_ctVars => []ChartIsAnswer
<1>1. ChartInit => ChartInv
  BY DEF ChartInit, ChartInv
<1>2. ChartInv /\ [ChartNext]_ctVars => ChartInv'
  BY ChartStep
<1>3. ChartInv => ChartIsAnswer
  BY ChartIsDrawn
<1>. QED
  BY <1>1, <1>2, <1>3, PTL
=============================================================================
