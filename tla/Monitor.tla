------------------------------ MODULE Monitor -------------------------------
(***************************************************************************)
(* The live monitor (LiveMonitor.tsx): filters, pages, the wall display    *)
(* (TV mode) that rotates through the pages, cards that expand, and saved  *)
(* views (FleetViews.tsx) that set all of it at once, from the dialog or   *)
(* from a link when the page opens.                                        *)
(* Page sizes are scaled: see the constants.  Search, group and cluster    *)
(* filters act alike and are represented by one of them.                   *)
(***************************************************************************)
EXTENDS Integers, Sequences, FiniteSets, SequencesExt

CONSTANTS MoDevices,  \* the devices, in the order the list has them
          MoGroup,    \* the group of each
          SmallPage,  \* devices of a wall page: 4 in the code
          LargePage,  \* the other size of a wall page: 6
          DeskPage,   \* devices of a page outside TV mode: 12
          MoMoves     \* bound: changes of the list and of the view

VARIABLES moListed,   \* the devices the live view lists
          moView,     \* what a saved view holds: filters, mode, page size, rotation
          moPage,     \* the page chosen, which may lie beyond the last
          moExpanded, \* the cards expanded
          moInitialized, \* the first list has been seen
          moLink,     \* the reading of the view the link names is awaited
          moCount     \* moves made, for the bound

moVars == <<moListed, moView, moPage, moExpanded, moInitialized, moLink, moCount>>

MoGroups == {MoGroup[d] : d \in MoDevices}

MoViews == [group : MoGroups \cup {""}, ids : SUBSET MoDevices, clusters : BOOLEAN, tv : BOOLEAN,
            size : {SmallPage, LargePage}, rotate : BOOLEAN, seconds : {10, 20}]

\* What is stored of a view; rotation and its seconds are one number, 0 for
\* no rotation.  Bound: three stored views.
Configs == {[group |-> "", ids |-> {}, clusters |-> FALSE, tv |-> TRUE, size |-> SmallPage, seconds |-> 10],
            [group |-> "", ids |-> {}, clusters |-> TRUE, tv |-> TRUE, size |-> LargePage, seconds |-> 0],
            [group |-> "", ids |-> {CHOOSE d \in MoDevices : TRUE}, clusters |-> FALSE, tv |-> TRUE, size |-> SmallPage, seconds |-> 20]}

\* applyView: sizes and seconds the page does not offer are replaced.
Applied(c) == [group |-> c.group, ids |-> c.ids, clusters |-> c.clusters, tv |-> c.tv,
               size |-> IF c.size = SmallPage THEN SmallPage ELSE LargePage,
               rotate |-> c.seconds # 0,
               seconds |-> IF c.seconds \in {10, 20} THEN c.seconds ELSE 20]

-----------------------------------------------------------------------------
(* What is displayed.                                                      *)

Filtered == SelectSeq(SetToSortSeq(moListed, <),
                      LAMBDA d : (moView.group \in {"", MoGroup[d]}) /\ (moView.ids = {} \/ d \in moView.ids))

PageSize == IF moView.tv THEN moView.size ELSE DeskPage
Pages == IF Filtered = <<>> THEN 1 ELSE (Len(Filtered) + PageSize - 1) \div PageSize

CurrentPage == IF moPage > Pages - 1 THEN Pages - 1 ELSE moPage

Visible == {Filtered[i] : i \in {j \in DOMAIN Filtered : (j - 1) \div PageSize = CurrentPage}}

-----------------------------------------------------------------------------
DefaultView == [group |-> "", ids |-> {}, clusters |-> FALSE, tv |-> FALSE, size |-> LargePage, rotate |-> TRUE, seconds |-> 20]

MonitorInit ==
  /\ moListed = {}
  /\ \E tv \in BOOLEAN : moView = [DefaultView EXCEPT !.tv = tv] \* "?mode=tv"
  /\ moPage = 0
  /\ moExpanded = {} /\ moInitialized = FALSE
  /\ moLink \in BOOLEAN
  /\ moCount = 0

Move == moCount < MoMoves /\ moCount' = moCount + 1

\* The first list that has devices expands their cards, if they are few.
OpenedCards(S) == IF S # {} /\ ~moInitialized /\ Cardinality(S) <= 2 THEN S ELSE moExpanded

\* The live view lists other devices, or fewer.
DevicesListed(S) ==
  /\ Move /\ S # moListed
  /\ moListed' = S
  /\ moExpanded' = OpenedCards(S)
  /\ moInitialized' = (moInitialized \/ S # {})
  /\ UNCHANGED <<moView, moPage, moLink>>

\* Every change of the view; all but that of the devices chosen, the page
\* size and the rotation return to the first page.
SetView(v) ==
  /\ moView' = v
  /\ moPage' = IF <<v.group, v.clusters, v.tv>> = <<moView.group, moView.clusters, moView.tv>> THEN moPage ELSE 0
  /\ UNCHANGED <<moListed, moExpanded, moInitialized>>

FilterGroup(g) == Move /\ g # moView.group /\ SetView([moView EXCEPT !.group = g]) /\ UNCHANGED moLink
ShowClusters(on) == Move /\ on # moView.clusters /\ SetView([moView EXCEPT !.clusters = on]) /\ UNCHANGED moLink
ToggleTv == Move /\ SetView([moView EXCEPT !.tv = ~@]) /\ UNCHANGED moLink \* the button, or Escape
SetRotate == Move /\ moView.tv /\ SetView([moView EXCEPT !.rotate = ~@]) /\ UNCHANGED moLink

\* A saved view chosen in the dialog, which TV mode does not offer but leaves open.
ApplySaved(c) == Move /\ SetView(Applied(c)) /\ UNCHANGED moLink

\* The link's view arrives, whatever was set meanwhile; or it is gone.
LinkArrives(c) == moLink /\ moLink' = FALSE /\ SetView(Applied(c)) /\ UNCHANGED moCount
LinkFails == moLink /\ moLink' = FALSE /\ UNCHANGED <<moListed, moView, moPage, moExpanded, moInitialized, moCount>>

\* The page after the last is never left.
Rotate_stuck ==
  /\ moView.tv /\ moView.rotate /\ Pages > 1
  /\ moPage' = IF moPage >= Pages - 1 THEN moPage ELSE moPage + 1
  /\ UNCHANGED <<moListed, moView, moExpanded, moInitialized, moLink, moCount>>

Rotate ==
  /\ moView.tv /\ moView.rotate /\ Pages > 1
  /\ moPage' = (moPage + 1) % Pages
  /\ UNCHANGED <<moListed, moView, moExpanded, moInitialized, moLink, moCount>>

Turn(page) == Move /\ moPage' = page /\ UNCHANGED <<moListed, moView, moExpanded, moInitialized, moLink>>
PreviousPage == CurrentPage > 0 /\ Turn(CurrentPage - 1)
NextPage == CurrentPage < Pages - 1 /\ Turn(CurrentPage + 1)

ToggleCard(d) ==
  /\ Move /\ d \in Visible /\ ~moView.tv
  /\ moExpanded' = IF d \in moExpanded THEN moExpanded \ {d} ELSE moExpanded \cup {d}
  /\ UNCHANGED <<moListed, moView, moPage, moInitialized, moLink>>

MonitorNext ==
  \/ \E S \in SUBSET MoDevices : DevicesListed(S)
  \/ \E g \in MoGroups \cup {""} : FilterGroup(g)
  \/ \E on \in BOOLEAN : ShowClusters(on)
  \/ \E c \in Configs : ApplySaved(c) \/ LinkArrives(c)
  \/ \E d \in MoDevices : ToggleCard(d)
  \/ ToggleTv \/ SetRotate \/ LinkFails \/ Rotate \/ PreviousPage \/ NextPage

\* The timer of the rotation is the page's own; nothing obliges a user to act.
MonitorFairness == WF_moVars(Rotate)

-----------------------------------------------------------------------------

(* A wall display that is left alone shows every device that matches,      *)
(* over and over.                                                          *)
WallShowsAll ==
  \A d \in MoDevices :
    <>[](moView.tv /\ moView.rotate /\ \E i \in DOMAIN Filtered : Filtered[i] = d) => []<>(d \in Visible)
=============================================================================
