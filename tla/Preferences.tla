---------------------------- MODULE Preferences -----------------------------
(***************************************************************************)
(* The monitoring rules of the settings page (SettingsPage, Pages.tsx) and *)
(* the requests that store them (api.py).  One draft of all sections is    *)
(* made of what was read, at the first keystroke; a section is saved at a  *)
(* time, after which the draft is dropped and everything is read anew.     *)
(* The value of a section is a version; one of them the server refuses.    *)
(***************************************************************************)
EXTENDS Integers, FiniteSets

CONSTANTS PrVersions, \* bound: the values a section may be given
          PrRefused,  \* the value the server refuses: rules out of order, a blank name
          PrSaves     \* bound: saves

ASSUME PreferencesAssumption == -1 \notin PrVersions \* -1 stands for nothing

VARIABLES prStored, \* the sections at the server
          prRead,   \* what was read (p), or nothing
          prDraft,  \* the draft (edit), or nothing
          prAsks,   \* readings not applied yet
          prSave,   \* the save in flight (busy)
          prFailed, \* a reading has failed: the page is its message
          prCount   \* saves made, for the bound

prVars == <<prStored, prRead, prDraft, prAsks, prSave, prFailed, prCount>>

Sections == {"thresholds", "retention", "groups"}
PrDocs == [Sections -> PrVersions \cup {0}]
PrNothing == [s \in Sections |-> -1]
PrIdle == [phase |-> "idle", section |-> "", value |-> 0]

Prefs == IF prDraft # PrNothing THEN prDraft ELSE prRead

PreferencesInit ==
  /\ prStored = [s \in Sections |-> 0]
  /\ prRead = PrNothing
  /\ prDraft = PrNothing
  /\ prAsks = {[live |-> TRUE, answer |-> PrNothing]}
  /\ prSave = PrIdle
  /\ prFailed = FALSE
  /\ prCount = 0

-----------------------------------------------------------------------------
(* Reading: the query hook without an interval.                            *)

AnswerRead(a) ==
  /\ a \in prAsks /\ a.answer = PrNothing
  /\ prAsks' = (prAsks \ {a}) \cup {[a EXCEPT !.answer = prStored]}
  /\ UNCHANGED <<prStored, prRead, prDraft, prSave, prFailed, prCount>>

ReadArrives(a) ==
  /\ a \in prAsks /\ a.answer # PrNothing
  /\ prAsks' = prAsks \ {a}
  /\ prRead' = IF a.live THEN a.answer ELSE prRead
  /\ prFailed' = (prFailed /\ ~a.live)
  /\ UNCHANGED <<prStored, prDraft, prSave, prCount>>

\* Nothing asks again after a failure.
ReadFails(a) ==
  /\ a \in prAsks
  /\ prAsks' = prAsks \ {a}
  /\ prFailed' = (prFailed \/ a.live)
  /\ UNCHANGED <<prStored, prRead, prDraft, prSave, prCount>>

-----------------------------------------------------------------------------
(* The forms: shown unless a reading has failed or nothing has been read.  *)

PrShown == ~prFailed /\ Prefs # PrNothing

\* Typing is not held back while a save is in flight.
TypeSection(s, v) ==
  /\ PrShown /\ prCount < PrSaves
  /\ prDraft' = [Prefs EXCEPT ![s] = v]
  /\ UNCHANGED <<prStored, prRead, prAsks, prSave, prFailed, prCount>>

SaveSection(s) ==
  /\ PrShown /\ prSave.phase = "idle" /\ prCount < PrSaves
  /\ prSave' = [phase |-> "sent", section |-> s, value |-> Prefs[s]]
  /\ prCount' = prCount + 1
  /\ UNCHANGED <<prStored, prRead, prDraft, prAsks, prFailed>>

StoreSection ==
  /\ prSave.phase = "sent"
  /\ IF prSave.value = PrRefused THEN prStored' = prStored /\ prSave' = [prSave EXCEPT !.phase = "refused"]
     ELSE /\ prStored' = [prStored EXCEPT ![prSave.section] = prSave.value]
          /\ prSave' = [prSave EXCEPT !.phase = "stored"]
  /\ UNCHANGED <<prRead, prDraft, prAsks, prFailed, prCount>>

\* The draft is dropped, the page shows again what it had read before.
SectionSaved_unread ==
  /\ prSave.phase = "stored"
  /\ prDraft' = PrNothing
  /\ prSave' = PrIdle
  /\ UNCHANGED <<prStored, prRead, prAsks, prFailed, prCount>>

\* The draft of all sections is dropped, and everything read anew.
SectionSaved ==
  /\ prSave.phase = "stored"
  /\ prDraft' = PrNothing
  /\ prRead' = PrNothing
  /\ prAsks' = {[a EXCEPT !.live = FALSE] : a \in prAsks} \cup {[live |-> TRUE, answer |-> PrNothing]}
  /\ prSave' = PrIdle
  /\ UNCHANGED <<prStored, prFailed, prCount>>

\* Refused, or the request or its answer lost: a message passes, the draft stays.
SectionNotSaved ==
  /\ prSave.phase # "idle"
  /\ prSave' = PrIdle
  /\ UNCHANGED <<prStored, prRead, prDraft, prAsks, prFailed, prCount>>

PreferencesNext ==
  \/ \E a \in prAsks : AnswerRead(a) \/ ReadArrives(a) \/ ReadFails(a)
  \/ \E s \in Sections : SaveSection(s) \/ \E v \in PrVersions : TypeSection(s, v)
  \/ StoreSection \/ SectionSaved \/ SectionNotSaved

-----------------------------------------------------------------------------

(* A form without unsaved changes shows what the server keeps, whatever    *)
(* was saved, refused, lost or typed during a save before: the next draft  *)
(* never starts from values that have been replaced.                       *)
CleanFormIsStored == PrShown /\ prDraft = PrNothing /\ prSave.phase = "idle" => prRead = prStored
=============================================================================
