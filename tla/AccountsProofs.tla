---------------------------- MODULE AccountsProofs ----------------------------
(* Accounts for any number of accounts and browsers.                         *)
EXTENDS Accounts, TLAPS, FiniteSetTheorems

Edits == {"role", "toggle"}

(* Accounts are never deleted: a name once listed stays known.               *)
ListedKnown ==
    /\ \A p \in Pages, u \in Users : listed[p][u] # NoAccount => u \in Known
    /\ \A p \in Pages : req[p].kind \in Edits => req[p].user \in Known

(* setup_lock is held by whoever is between its test and its write.          *)
LockHeld ==
    \A p \in Pages :
        /\ req[p].at = "locked" => lock = p /\ req[p].kind \in Edits \cup {"setup"}
        /\ req[p].at = "waiting" => req[p].kind \in Edits
        /\ req[p].kind \in {"setup", "add"} => req[p].user \in Users

(* The setup under way found no users, and there still are none.             *)
SetupHolds ==
    /\ setups <= 1
    /\ Empty => setups = 0
    /\ \A p \in Pages : req[p].at = "locked" /\ req[p].kind = "setup" => Empty

(* What edit_user found under the lock is still so: without the account it   *)
(* changes there is an administrator, or it becomes one.                     *)
Spared(u, new) ==
    \/ u \notin Administrators
    \/ new.role = "admin" /\ new.active
    \/ \E v \in Administrators : v # u

EditHolds ==
    \A p \in Pages : req[p].at = "locked" /\ req[p].kind \in Edits => Spared(req[p].user, req[p].new)

Held == ListedKnown /\ LockHeld /\ SetupHolds /\ EditHolds /\ LastAdministrator

IInv == TypeOK /\ Held

-----------------------------------------------------------------------------
LEMMA ManyHaveAnother ==
    ASSUME NEW S, IsFiniteSet(S), Cardinality(S) > 1, NEW u
    PROVE  \E v \in S : v # u
<1>1. SUFFICES ASSUME \A v \in S : v = u PROVE FALSE
  OBVIOUS
<1>2. S \in SUBSET {u}
  BY <1>1
<1>3. IsFiniteSet({u}) /\ Cardinality({u}) = 1
  BY FS_Singleton
<1>4. Cardinality(S) <= 1 /\ Cardinality(S) \in Nat
  BY <1>2, <1>3, FS_Subset, FS_CardinalityType
<1>. QED
  BY <1>4

Request == [at : {"idle", "sent", "waiting", "locked", "issue", "ok", "refused"},
            kind : {"none", "setup", "login", "logout", "add", "role", "toggle"},
            user : Users \cup {Nobody}, new : Account]
Gated == [ready : BOOLEAN, failed : BOOLEAN, user : Users \cup {Nobody},
          admin : BOOLEAN, setup : BOOLEAN, wants : {"overview", "settings"}]

LEMMA Values ==
    /\ NoAccount \in Account /\ NoListing \in Listing /\ NoRequest \in Request /\ Blank \in Gated
    /\ [role |-> "admin", active |-> TRUE] \in Account
    /\ \A a \in Account : a # Nobody
  BY AccountsAssumption DEF Account, Roles, NoAccount, Listing, NoListing, NoRequest, Request, Blank, Gated

LEMMA RowsType == ASSUME TypeOK PROVE Rows \in Listing
  BY Values DEF TypeOK, Rows, Known, Listing

-----------------------------------------------------------------------------
(* Types. *)
LEMMA AskType ==
    ASSUME TypeOK, NEW p \in Pages, NEW kind \in {"setup", "login", "logout", "add", "role", "toggle"},
           NEW u \in Users \cup {Nobody}, NEW new \in Account, Ask(p, kind, u, new)
    PROVE  TypeOK'
  BY Values DEF Ask, TypeOK, Request

LEMMA RequestType ==
    ASSUME TypeOK, NEW p \in Pages
    PROVE  /\ req[p] \in Request
           /\ \A r \in Request : req' = [req EXCEPT ![p] = r] => req' \in [Pages -> Request]
  BY DEF TypeOK, Request

LEMMA ServedType ==
    ASSUME TypeOK, NEW p \in Pages, NEW at \in {"sent", "waiting", "locked", "issue", "ok", "refused"},
           Served(p, at)
    PROVE  req' \in [Pages -> Request]
<1>1. [req[p] EXCEPT !.at = at] \in Request
  BY RequestType DEF Request
<1>2. req' = [req EXCEPT ![p] = [req[p] EXCEPT !.at = at]]
  BY DEF Served
<1>. QED
  BY <1>1, <1>2, RequestType

LEMMA PageType ==
    ASSUME TypeOK, NEW p \in Pages
    PROVE  /\ page[p] \in Gated
           /\ \A g \in Gated : page' = [page EXCEPT ![p] = g] => page' \in [Pages -> Gated]
  BY DEF TypeOK, Gated

LEMMA GateType == ASSUME TypeOK, NEW p \in Pages, Gate(p) PROVE TypeOK'
<1>1. CASE BootStatus(p)
  <2>1. [page[p] EXCEPT !.setup = Empty, !.ready = Empty] \in Gated
    BY PageType DEF Gated, Empty
  <2>2. page' = [page EXCEPT ![p] = [page[p] EXCEPT !.setup = Empty, !.ready = Empty]]
    BY <1>1 DEF BootStatus
  <2>3. page' \in [Pages -> Gated]
    BY <2>1, <2>2, PageType
  <2>. QED
    BY <1>1, <2>3 DEF BootStatus, TypeOK, Gated
<1>2. CASE BootMe(p)
  <2>. DEFINE user == IF SignedIn(p) THEN session[p] ELSE Nobody
  <2>1. user \in Users \cup {Nobody} /\ Authorized(p) \in BOOLEAN
    BY DEF TypeOK, Authorized
  <2>2. page' = [page EXCEPT ![p] = [page[p] EXCEPT !.ready = TRUE, !.user = user, !.admin = Authorized(p)]]
    BY <1>2 DEF BootMe
  <2>3. [page[p] EXCEPT !.ready = TRUE, !.user = user, !.admin = Authorized(p)] \in Gated
    <3>. HIDE DEF user
    <3>. QED
      BY <2>1, PageType DEF Gated
  <2>4. page' \in [Pages -> Gated]
    BY <2>2, <2>3, PageType
  <2>. QED
    BY <1>2, <2>4 DEF BootMe, TypeOK, Gated
<1>3. CASE BootFails(p)
  <2>1. [page[p] EXCEPT !.ready = TRUE, !.failed = TRUE] \in Gated
    BY PageType DEF Gated
  <2>2. page' = [page EXCEPT ![p] = [page[p] EXCEPT !.ready = TRUE, !.failed = TRUE]]
    BY <1>3 DEF BootFails
  <2>3. page' \in [Pages -> Gated]
    BY <2>1, <2>2, PageType
  <2>. QED
    BY <1>3, <2>3 DEF BootFails, TypeOK, Gated
<1>4. CASE Retry(p)
  <2>1. [page[p] EXCEPT !.ready = FALSE, !.failed = FALSE] \in Gated
    BY PageType DEF Gated
  <2>2. page' = [page EXCEPT ![p] = [page[p] EXCEPT !.ready = FALSE, !.failed = FALSE]]
    BY <1>4 DEF Retry
  <2>3. page' \in [Pages -> Gated]
    BY <2>1, <2>2, PageType
  <2>. QED
    BY <1>4, <2>3 DEF Retry, TypeOK, Gated
<1>5. CASE Reload(p)
  BY <1>5, Values DEF Reload, TypeOK, Gated
<1>6. CASE Navigate(p)
  <2>1. PICK to \in {"overview", "settings"} : page' = [page EXCEPT ![p] = [page[p] EXCEPT !.wants = to]]
    BY <1>6 DEF Navigate
  <2>2. [page[p] EXCEPT !.wants = to] \in Gated
    BY PageType DEF Gated
  <2>3. page' \in [Pages -> Gated]
    BY <2>1, <2>2, PageType
  <2>. QED
    BY <1>6, <2>3, Values DEF Navigate, TypeOK, Gated
<1>7. CASE Unauthorized(p)
  <2>1. Unseat(p) \in Gated
    BY PageType DEF Unseat, Gated
  <2>2. page' \in [Pages -> Gated]
    BY <1>7, <2>1, PageType DEF Unauthorized
  <2>. QED
    BY <1>7, <2>2, Values DEF Unauthorized, TypeOK, Gated
<1>. QED
  BY <1>1, <1>2, <1>3, <1>4, <1>5, <1>6, <1>7 DEF Gate

LEMMA RequestsType == ASSUME TypeOK, NEW p \in Pages, Requests(p) PROVE TypeOK'
<1>1. CASE Submit(p)
  BY <1>1, AskType, Values DEF Submit
<1>2. CASE SignOut(p)
  BY <1>2, AskType, Values DEF SignOut
<1>3. CASE LoadUsers(p)
  BY <1>3, RowsType DEF LoadUsers, TypeOK
<1>4. CASE ChangeRole(p)
  <2>1. PICK u \in Listed(p), role \in Roles : Ask(p, "role", u, [listed[p][u] EXCEPT !.role = role])
    BY <1>4 DEF ChangeRole
  <2>2. u \in Users /\ listed[p][u] \in Account
    BY DEF Listed, TypeOK, Listing
  <2>3. [listed[p][u] EXCEPT !.role = role] \in Account
    BY <2>2 DEF Account
  <2>. QED
    BY <2>1, <2>2, <2>3, AskType
<1>5. CASE ToggleActive(p)
  <2>1. PICK u \in Listed(p) : Ask(p, "toggle", u, [listed[p][u] EXCEPT !.active = ~@])
    BY <1>5 DEF ToggleActive
  <2>2. u \in Users /\ listed[p][u] \in Account
    BY DEF Listed, TypeOK, Listing
  <2>3. [listed[p][u] EXCEPT !.active = ~@] \in Account
    BY <2>2 DEF Account
  <2>. QED
    BY <2>1, <2>2, <2>3, AskType
<1>6. CASE CreateUser(p)
  BY <1>6, AskType DEF CreateUser, Account
<1>. QED
  BY <1>1, <1>2, <1>3, <1>4, <1>5, <1>6 DEF Requests

LEMMA ServerType == ASSUME IInv, NEW p \in Pages, Server(p) PROVE TypeOK'
<1>. USE DEF IInv, Held
<1>1. CASE LockSetup(p)
  <2>1. req' \in [Pages -> Request]
    BY <1>1, ServedType DEF LockSetup
  <2>. QED
    BY <1>1, <2>1 DEF LockSetup, TypeOK, Request
<1>2. CASE Setup(p)
  <2>1. req' \in [Pages -> Request]
    <3>1. [req[p].new EXCEPT !.role = "admin"] \in Account
      BY RequestType DEF Request, Account, Roles
    <3>2. [req[p] EXCEPT !.at = "issue", !.new = [req[p].new EXCEPT !.role = "admin"]] \in Request
      BY <3>1, RequestType DEF Request
    <3>3. req' = [req EXCEPT ![p] = [req[p] EXCEPT !.at = "issue", !.new = [req[p].new EXCEPT !.role = "admin"]]]
      BY <1>2 DEF Setup
    <3>. QED
      BY <3>2, <3>3, RequestType
  <2>2. setups' \in 0 .. 2
    BY <1>2 DEF Setup, SetupHolds, TypeOK
  <2>3. accounts' \in [Users -> Account \cup {Nobody}]
    BY <1>2, Values DEF Setup, TypeOK
  <2>. QED
    BY <1>2, <2>1, <2>2, <2>3 DEF Setup, TypeOK, Request
<1>3. CASE Login(p)
  <2>1. req' \in [Pages -> Request]
    <3>1. ASSUME Active(req[p].user) PROVE accounts[req[p].user].role \in Roles
      BY <3>1, Values DEF Active, Known, TypeOK, Account
    <3>2. CASE Served(p, "refused")
      BY <3>2, ServedType
    <3>3. CASE Active(req[p].user) /\ req' = [req EXCEPT ![p].at = "issue", ![p].new.role = accounts[req[p].user].role]
      <4>. DEFINE role == accounts[req[p].user].role
                  new == [req[p].new EXCEPT !.role = role]
      <4>1. new \in Account
        BY <3>1, <3>3, RequestType DEF Request, Account
      <4>2. req' = [req EXCEPT ![p] = [req[p] EXCEPT !.at = "issue", !.new = new]]
        BY <3>3
      <4>3. [req[p] EXCEPT !.at = "issue", !.new = new] \in Request
        <5>. HIDE DEF new
        <5>. QED
          BY <4>1, RequestType DEF Request
      <4>. QED
        BY <4>2, <4>3, RequestType
    <3>. QED
      BY <1>3, <3>2, <3>3 DEF Login
  <2>. QED
    BY <1>3, <2>1 DEF Login, TypeOK, Request
<1>4. CASE IssueSession(p)
  <2>1. req' \in [Pages -> Request]
    BY <1>4, ServedType DEF IssueSession
  <2>. QED
    BY <1>4, <2>1 DEF IssueSession, TypeOK, Request
<1>5. CASE Logout(p)
  <2>1. req' \in [Pages -> Request]
    BY <1>5, ServedType DEF Logout
  <2>. QED
    BY <1>5, <2>1 DEF Logout, TypeOK, Request
<1>6. CASE AddUser(p)
  <2>1. req' \in [Pages -> Request]
    BY <1>6, ServedType DEF AddUser
  <2>2. req[p].new \in Account
    BY DEF TypeOK
  <2>3. accounts' \in [Users -> Account \cup {Nobody}]
    BY <1>6, <2>2 DEF AddUser, TypeOK
  <2>. QED
    BY <1>6, <2>1, <2>3 DEF AddUser, TypeOK, Request
<1>7. CASE Authorize(p)
  <2>1. req' \in [Pages -> Request]
    BY <1>7, ServedType DEF Authorize
  <2>. QED
    BY <1>7, <2>1 DEF Authorize, TypeOK, Request
<1>8. CASE LockEdit(p)
  <2>1. req' \in [Pages -> Request]
    BY <1>8, ServedType DEF LockEdit
  <2>. QED
    BY <1>8, <2>1 DEF LockEdit, TypeOK, Request
<1>9. CASE EditUser(p)
  <2>1. req' \in [Pages -> Request]
    BY <1>9, ServedType DEF EditUser
  <2>2. req[p].new \in Account
    BY DEF TypeOK
  <2>3. accounts' \in [Users -> Account \cup {Nobody}]
    BY <1>9, <2>2 DEF EditUser, TypeOK
  <2>4. session' \in [Pages -> Users \cup {Nobody}]
    BY <1>9 DEF EditUser, TypeOK
  <2>. QED
    BY <1>9, <2>1, <2>3, <2>4 DEF EditUser, TypeOK, Request
<1>. QED
  BY <1>1, <1>2, <1>3, <1>4, <1>5, <1>6, <1>7, <1>8, <1>9 DEF Server

LEMMA AnswersType == ASSUME TypeOK, NEW p \in Pages, Answers(p) PROVE TypeOK'
<1>1. ASSUME req' = [req EXCEPT ![p] = NoRequest] PROVE req' \in [Pages -> Request]
  BY <1>1, Values DEF TypeOK, Request
<1>2. CASE SignedInAnswer(p)
  <2>. DEFINE role == req[p].new.role = "admin"
  <2>1. [page[p] EXCEPT !.user = req[p].user, !.admin = role, !.setup = FALSE] \in Gated
    <3>1. role \in BOOLEAN
      OBVIOUS
    <3>2. page[p] \in Gated /\ req[p].user \in Users \cup {Nobody}
      BY PageType, RequestType DEF Request
    <3>. HIDE DEF role
    <3>. QED
      BY <3>1, <3>2 DEF Gated
  <2>2. \/ page' = [page EXCEPT ![p] = [page[p] EXCEPT !.user = req[p].user, !.admin = role, !.setup = FALSE]]
        \/ page' = page
    BY <1>2 DEF SignedInAnswer
  <2>3. page' \in [Pages -> Gated]
    <3>1. CASE page' = page
      BY <3>1 DEF TypeOK, Gated
    <3>2. CASE page' # page
      <4>. DEFINE g == [page[p] EXCEPT !.user = req[p].user, !.admin = role, !.setup = FALSE]
      <4>1. g \in Gated /\ page' = [page EXCEPT ![p] = g]
        BY <2>1, <2>2, <3>2
      <4>. HIDE DEF g
      <4>. QED
        BY <4>1, PageType
    <3>. QED
      BY <3>1, <3>2
  <2>. QED
    BY <1>1, <1>2, <2>3 DEF SignedInAnswer, TypeOK, Request, Gated
<1>3. CASE SignedOutAnswer(p)
  <2>1. Unseat(p) \in Gated
    BY PageType DEF Unseat, Gated
  <2>2. page' \in [Pages -> Gated]
    BY <1>3, <2>1, PageType DEF SignedOutAnswer, TypeOK, Gated
  <2>. QED
    BY <1>1, <1>3, <2>2, Values DEF SignedOutAnswer, TypeOK, Request, Gated
<1>4. CASE EditedAnswer(p)
  BY <1>1, <1>4, Values DEF EditedAnswer, TypeOK, Request
<1>. QED
  BY <1>2, <1>3, <1>4 DEF Answers

LEMMA TypeStep == IInv /\ [Next]_vars => TypeOK'
<1>. SUFFICES ASSUME IInv, [Next]_vars PROVE TypeOK'
  OBVIOUS
<1>1. CASE UNCHANGED vars
  BY <1>1 DEF IInv, vars, TypeOK
<1>2. CASE Next
  <2>1. PICK p \in Pages : Gate(p) \/ Requests(p) \/ Server(p) \/ Answers(p)
    BY <1>2 DEF Next
  <2>. QED
    BY <2>1, GateType, RequestsType, ServerType, AnswersType DEF IInv
<1>. QED
  BY <1>1, <1>2

-----------------------------------------------------------------------------
(* Who holds the lock, and what it protects. *)

(* A request that neither waits for the lock nor holds it.                   *)
Harmless(r) ==
    /\ r.at \notin {"waiting", "locked"}
    /\ r.kind \in Edits => r.user \in Known
    /\ r.kind \in {"setup", "add"} => r.user \in Users

LEMMA KnownFrame ==
    ASSUME UNCHANGED accounts
    PROVE  Known' = Known /\ Administrators' = Administrators /\ Empty' = Empty
  BY DEF Known, Administrators, Empty

LEMMA HeldFrame ==
    ASSUME IInv, NEW p \in Pages, UNCHANGED <<accounts, lock, setups>>,
           \/ UNCHANGED req
           \/ \E r \in Request : Harmless(r) /\ req' = [req EXCEPT ![p] = r],
           \/ UNCHANGED listed
           \/ listed' = [listed EXCEPT ![p] = NoListing]
           \/ listed' = [listed EXCEPT ![p] = Rows]
    PROVE  Held'
<1>. USE KnownFrame DEF IInv, Held
<1>0. \A q \in Pages : req'[q] = req[q] \/ Harmless(req'[q])
  BY DEF TypeOK
<1>1. ListedKnown'
  <2>1. ASSUME NEW q \in Pages, NEW u \in Users, listed'[q][u] # NoAccount PROVE u \in Known
    <3>1. NoListing[u] = NoAccount /\ (Rows[u] # NoAccount => u \in Known)
      BY DEF NoListing, Rows
    <3>2. listed'[q] \in {listed[q], NoListing, Rows}
      BY DEF TypeOK
    <3>3. listed[q][u] # NoAccount => u \in Known
      BY DEF ListedKnown
    <3>. QED
      BY <2>1, <3>1, <3>2, <3>3
  <2>2. ASSUME NEW q \in Pages, req'[q].kind \in Edits PROVE req'[q].user \in Known
    BY <2>2 DEF ListedKnown, TypeOK, Harmless
  <2>. QED
    BY <2>1, <2>2 DEF ListedKnown
<1>2. LockHeld'
  BY DEF LockHeld, TypeOK, Harmless
<1>3. SetupHolds'
  BY <1>0 DEF SetupHolds, Harmless
<1>4. EditHolds'
  <2>1. ASSUME NEW q \in Pages, req'[q].at = "locked", req'[q].kind \in Edits
        PROVE  Spared(req[q].user, req[q].new)'
    <3>1. req'[q] = req[q]
      BY <1>0, <2>1 DEF Harmless
    <3>2. Spared(req[q].user, req[q].new)
      BY <2>1, <3>1 DEF EditHolds
    <3>. QED
      BY <3>1, <3>2 DEF Spared
  <2>. QED
    BY <2>1 DEF EditHolds
<1>5. LastAdministrator'
  BY DEF LastAdministrator
<1>. QED
  BY <1>1, <1>2, <1>3, <1>4, <1>5

LEMMA NoRequestHarmless == NoRequest \in Request /\ Harmless(NoRequest)
  BY Values DEF NoRequest, Harmless, Edits

LEMMA GateHeld == ASSUME IInv, NEW p \in Pages, Gate(p) PROVE Held'
  BY HeldFrame DEF Gate, BootStatus, BootMe, BootFails, Retry, Reload, Navigate, Unauthorized

LEMMA AnswersHeld == ASSUME IInv, NEW p \in Pages, Answers(p) PROVE Held'
<1>1. UNCHANGED <<accounts, lock, setups>> /\ req' = [req EXCEPT ![p] = NoRequest]
  BY DEF Answers, SignedInAnswer, SignedOutAnswer, EditedAnswer
<1>2. UNCHANGED listed \/ listed' = [listed EXCEPT ![p] = NoListing]
  BY DEF Answers, SignedInAnswer, SignedOutAnswer, EditedAnswer
<1>. QED
  BY <1>1, <1>2, HeldFrame, NoRequestHarmless

LEMMA AskHeld ==
    ASSUME IInv, NEW p \in Pages, NEW kind \in {"setup", "login", "logout", "add", "role", "toggle"},
           NEW u \in Users \cup {Nobody}, NEW new \in Account, Ask(p, kind, u, new),
           kind # "logout" => u \in Users,
           kind \in Edits => u \in Known
    PROVE  Held'
<1>. DEFINE r == [at |-> "sent", kind |-> kind, user |-> u, new |-> new]
<1>1. r \in Request /\ Harmless(r)
  BY Values DEF Request, Harmless, Edits
<1>2. req' = [req EXCEPT ![p] = r] /\ UNCHANGED <<accounts, lock, setups, listed>>
  BY DEF Ask
<1>. HIDE DEF r
<1>. QED
  BY <1>1, <1>2, HeldFrame

LEMMA RequestsHeld == ASSUME IInv, NEW p \in Pages, Requests(p) PROVE Held'
<1>1. CASE Submit(p)
  BY <1>1, AskHeld, Values DEF Submit, Edits
<1>2. CASE SignOut(p)
  BY <1>2, AskHeld, Values DEF SignOut, Edits
<1>3. CASE LoadUsers(p)
  BY <1>3, HeldFrame DEF LoadUsers
<1>4. CASE ChangeRole(p)
  <2>1. PICK u \in Listed(p), role \in Roles : Ask(p, "role", u, [listed[p][u] EXCEPT !.role = role])
    BY <1>4 DEF ChangeRole
  <2>2. u \in Users /\ listed[p][u] \in Account
    BY DEF Listed, IInv, TypeOK, Listing
  <2>3. [listed[p][u] EXCEPT !.role = role] \in Account /\ u \in Known
    BY <2>2 DEF Account, Listed, IInv, Held, ListedKnown
  <2>. QED
    BY <2>1, <2>2, <2>3, AskHeld
<1>5. CASE ToggleActive(p)
  <2>1. PICK u \in Listed(p) : Ask(p, "toggle", u, [listed[p][u] EXCEPT !.active = ~@])
    BY <1>5 DEF ToggleActive
  <2>2. u \in Users /\ listed[p][u] \in Account
    BY DEF Listed, IInv, TypeOK, Listing
  <2>3. [listed[p][u] EXCEPT !.active = ~@] \in Account /\ u \in Known
    BY <2>2 DEF Account, Listed, IInv, Held, ListedKnown
  <2>. QED
    BY <2>1, <2>2, <2>3, AskHeld
<1>6. CASE CreateUser(p)
  BY <1>6, AskHeld DEF CreateUser, Account, Edits
<1>. QED
  BY <1>1, <1>2, <1>3, <1>4, <1>5, <1>6 DEF Requests

LEMMA ServedHeld ==
    ASSUME IInv, NEW p \in Pages, NEW at \in {"issue", "ok", "refused"}, Served(p, at),
           UNCHANGED <<accounts, lock, setups, listed>>
    PROVE  Held'
<1>. DEFINE r == [req[p] EXCEPT !.at = at]
<1>1. r \in Request /\ r.at = at /\ r.kind = req[p].kind /\ r.user = req[p].user
      /\ r.new = req[p].new
  BY RequestType DEF IInv, Request
<1>2. req' = [req EXCEPT ![p] = r]
  BY DEF Served
<1>. HIDE DEF r
<1>3. Harmless(r)
  BY <1>1 DEF Harmless, IInv, Held, ListedKnown, LockHeld
<1>. QED
  BY <1>1, <1>2, <1>3, HeldFrame

(* A request that changes its place only.                                    *)
LEMMA ServedRequest ==
    ASSUME TypeOK, NEW p \in Pages, NEW at, Served(p, at)
    PROVE  /\ \A q \in Pages : /\ req'[q].kind = req[q].kind /\ req'[q].user = req[q].user
                               /\ req'[q].new = req[q].new
                               /\ q # p => req'[q].at = req[q].at
           /\ req'[p].at = at
  BY RequestType DEF TypeOK, Served

(* Taking a place under the lock, or in the queue for it.                    *)
LEMMA PlaceHeld ==
    ASSUME IInv, NEW p \in Pages, NEW at \in {"waiting", "locked"}, Served(p, at),
           UNCHANGED <<accounts, setups, listed>>,
           at = "waiting" => UNCHANGED lock /\ req[p].kind \in Edits,
           at = "locked" => /\ Free /\ lock' = p
                            /\ \/ req[p].kind = "setup" /\ Empty
                               \/ req[p].kind \in Edits /\ Spared(req[p].user, req[p].new)
    PROVE  Held'
<1>. USE DEF IInv, Held
<1>1. /\ \A q \in Pages : /\ req'[q].kind = req[q].kind /\ req'[q].user = req[q].user
                          /\ req'[q].new = req[q].new
                          /\ q # p => req'[q].at = req[q].at
      /\ req'[p].at = at
  BY ServedRequest
<1>2. Known' = Known /\ Administrators' = Administrators /\ Empty' = Empty
  BY KnownFrame
<1>3. ListedKnown'
  BY <1>1, <1>2 DEF ListedKnown
<1>4. LockHeld'
  <2>1. \A q \in Pages : q # Nobody
    BY AccountsAssumption
  <2>. QED
    BY <1>1, <2>1 DEF LockHeld, Free
<1>5. SetupHolds'
  BY <1>1, <1>2 DEF SetupHolds, Edits
<1>6. EditHolds'
  BY <1>1, <1>2 DEF EditHolds, Spared, Edits
<1>7. LastAdministrator'
  BY <1>2 DEF LastAdministrator
<1>. QED
  BY <1>3, <1>4, <1>5, <1>6, <1>7

(* Accounts that are added or changed stay known, and so does every other.   *)
LEMMA KnownGrows ==
    ASSUME TypeOK, NEW u, NEW a \in Account, accounts' = [accounts EXCEPT ![u] = a]
    PROVE  /\ Known \subseteq Known'
           /\ u \in Users => u \in Known'
           /\ \A v \in Users \ {u} : v \in Administrators' <=> v \in Administrators
           /\ u \in Users => (u \in Administrators' <=> a.role = "admin" /\ a.active)
  BY Values DEF TypeOK, Known, Administrators

LEMMA SetupHeld == ASSUME IInv, NEW p \in Pages, Setup(p) PROVE Held'
<1>. DEFINE u == req[p].user
            a == [role |-> "admin", active |-> TRUE]
<1>. USE DEF IInv, Held
<1>1. lock = p /\ Empty /\ setups = 0 /\ u \in Users
  BY DEF Setup, LockHeld, SetupHolds
<1>2. Known \subseteq Known' /\ u \in Known' /\ u \in Administrators'
  BY <1>1, KnownGrows, Values DEF Setup
<1>3. /\ \A q \in Pages : /\ req'[q].kind = req[q].kind /\ req'[q].user = req[q].user
                          /\ q # p => req'[q] = req[q]
      /\ req'[p].at = "issue" /\ req'[p].kind = "setup" /\ listed' = listed
      /\ setups' = setups + 1
  BY RequestType DEF Setup, Request, TypeOK
<1>4. ListedKnown'
  BY <1>2, <1>3 DEF ListedKnown
<1>5. LockHeld'
  BY <1>1, <1>3 DEF LockHeld
<1>6. SetupHolds'
  BY <1>1, <1>2, <1>3 DEF SetupHolds, LockHeld, Empty
<1>7. EditHolds'
  BY <1>1, <1>3 DEF EditHolds, LockHeld
<1>8. LastAdministrator'
  BY <1>2 DEF LastAdministrator
<1>. QED
  BY <1>4, <1>5, <1>6, <1>7, <1>8

LEMMA AddHeld == ASSUME IInv, NEW p \in Pages, AddUser(p) PROVE Held'
<1>. DEFINE good == Authorized(p) /\ req[p].user \notin Known
            u == req[p].user
<1>. USE DEF IInv, Held
<1>1. CASE ~good
  BY <1>1, ServedHeld DEF AddUser
<1>2. CASE good
  <2>1. accounts' = [accounts EXCEPT ![u] = req[p].new] /\ Served(p, "ok") /\ UNCHANGED <<lock, setups, listed>>
    BY <1>2 DEF AddUser
  <2>2. u \in Users /\ req[p].new \in Account /\ u \notin Known
    BY <1>2, RequestType DEF AddUser, LockHeld, Request
  <2>3. ~Empty /\ Administrators # {}
    BY <1>2 DEF Authorized, Empty, Administrators
  <2>4. Known \subseteq Known' /\ ~Empty'
    BY <2>1, <2>2, <2>3, KnownGrows DEF Empty
  <2>5. \A v \in Users \ {u} : v \in Administrators' <=> v \in Administrators
    BY <2>1, <2>2, KnownGrows
  <2>6. \A v \in Administrators : v \in Users \ {u}
    BY <2>2 DEF Administrators, Known
  <2>. HIDE DEF u
  <2>7. /\ \A q \in Pages : /\ req'[q].kind = req[q].kind /\ req'[q].user = req[q].user
                            /\ req'[q].new = req[q].new
                            /\ q # p => req'[q].at = req[q].at
        /\ req'[p].at = "ok"
    BY <2>1, ServedRequest
  <2>8. ListedKnown'
    BY <2>1, <2>4, <2>7 DEF ListedKnown
  <2>9. LockHeld'
    BY <2>1, <2>7 DEF LockHeld
  <2>10. SetupHolds'
    BY <2>1, <2>3, <2>4, <2>7 DEF SetupHolds
  <2>11. EditHolds'
    <3>1. ASSUME NEW q \in Pages, req'[q].at = "locked", req'[q].kind \in Edits
          PROVE  Spared(req[q].user, req[q].new)'
      <4>1. Spared(req[q].user, req[q].new) /\ req[q].user \in Known
        BY <2>7, <3>1 DEF EditHolds, ListedKnown
      <4>2. req[q].user \in Users \ {u}
        BY <2>2, <4>1 DEF u, Known
      <4>. QED
        BY <2>5, <2>6, <2>7, <4>1, <4>2 DEF Spared
    <3>. QED
      BY <3>1 DEF EditHolds
  <2>12. LastAdministrator'
    BY <2>3, <2>5, <2>6 DEF LastAdministrator
  <2>. QED
    BY <2>8, <2>9, <2>10, <2>11, <2>12
<1>. QED
  BY <1>1, <1>2

LEMMA EditHeld == ASSUME IInv, NEW p \in Pages, EditUser(p) PROVE Held'
<1>. DEFINE u == req[p].user
            a == req[p].new
<1>. USE DEF IInv, Held
<1>1. /\ lock = p /\ u \in Known /\ u \in Users /\ a \in Account /\ Spared(u, a)
      /\ accounts' = [accounts EXCEPT ![u] = a] /\ Served(p, "ok")
      /\ lock' = Nobody /\ UNCHANGED <<setups, listed>>
  BY RequestType DEF EditUser, LockHeld, ListedKnown, EditHolds, Edits, Known, Request
<1>2. Known \subseteq Known' /\ Empty' = Empty /\ ~Empty
  BY <1>1, KnownGrows DEF Empty
<1>3. /\ \A v \in Users \ {u} : v \in Administrators' <=> v \in Administrators
      /\ u \in Administrators' <=> a.role = "admin" /\ a.active
  BY <1>1, KnownGrows
<1>. HIDE DEF u, a
<1>4. /\ \A q \in Pages : /\ req'[q].kind = req[q].kind /\ req'[q].user = req[q].user
                          /\ req'[q].new = req[q].new
                          /\ q # p => req'[q].at = req[q].at
      /\ req'[p].at = "ok"
  BY <1>1, ServedRequest
<1>5. ListedKnown'
  BY <1>1, <1>2, <1>4 DEF ListedKnown
<1>6. LockHeld'
  BY <1>1, <1>4 DEF LockHeld
<1>7. SetupHolds'
  BY <1>1, <1>2, <1>4 DEF SetupHolds, LockHeld
<1>8. EditHolds'
  BY <1>1, <1>4 DEF EditHolds, LockHeld
<1>9. LastAdministrator'
  <2>1. Administrators # {} /\ Administrators \subseteq Users
    BY <1>2 DEF LastAdministrator, Administrators, Known
  <2>. QED
    BY <1>1, <1>3, <2>1 DEF LastAdministrator, Spared
<1>. QED
  BY <1>5, <1>6, <1>7, <1>8, <1>9

LEMMA ServerHeld == ASSUME IInv, NEW p \in Pages, Server(p) PROVE Held'
<1>1. CASE LockSetup(p)
  <2>1. CASE Served(p, "refused") /\ UNCHANGED lock
    BY <1>1, <2>1, ServedHeld DEF LockSetup
  <2>2. CASE Empty /\ lock' = p /\ Served(p, "locked")
    BY <1>1, <2>2, PlaceHeld DEF LockSetup
  <2>. QED
    BY <1>1, <2>1, <2>2 DEF LockSetup
<1>2. CASE Setup(p)
  BY <1>2, SetupHeld
<1>3. CASE Login(p)
  <2>1. CASE Served(p, "refused")
    BY <1>3, <2>1, ServedHeld DEF Login
  <2>2. CASE Active(req[p].user) /\ req' = [req EXCEPT ![p].at = "issue", ![p].new.role = accounts[req[p].user].role]
    <3>. DEFINE role == accounts[req[p].user].role
                new == [req[p].new EXCEPT !.role = role]
                r == [req[p] EXCEPT !.at = "issue", !.new = new]
    <3>1. role \in Roles
      BY <2>2, Values DEF Active, Known, IInv, TypeOK, Account
    <3>2. new \in Account
      BY <3>1, RequestType DEF IInv, Request, Account
    <3>3. req' = [req EXCEPT ![p] = r]
      BY <2>2
    <3>4. r \in Request /\ r.at = "issue" /\ r.kind = "login"
      <4>. HIDE DEF new
      <4>. QED
        BY <1>3, <3>2, RequestType DEF IInv, Request, Login
    <3>. HIDE DEF r
    <3>5. Harmless(r)
      BY <3>4 DEF Harmless, Edits
    <3>. QED
      BY <1>3, <3>3, <3>4, <3>5, HeldFrame DEF Login
  <2>. QED
    BY <1>3, <2>1, <2>2 DEF Login
<1>4. CASE IssueSession(p)
  BY <1>4, ServedHeld DEF IssueSession
<1>5. CASE Logout(p)
  BY <1>5, ServedHeld DEF Logout
<1>6. CASE AddUser(p)
  BY <1>6, AddHeld
<1>7. CASE Authorize(p)
  BY <1>7, ServedHeld, PlaceHeld DEF Authorize, Edits
<1>8. CASE LockEdit(p)
  <2>1. CASE Served(p, "refused") /\ UNCHANGED lock
    BY <1>8, <2>1, ServedHeld DEF LockEdit
  <2>2. CASE Dispensable(req[p].user, req[p].new) /\ lock' = p /\ Served(p, "locked")
    <3>1. req[p].kind \in Edits
      BY <1>8 DEF LockEdit, IInv, Held, LockHeld
    <3>2. IsFiniteSet(Administrators)
      BY AccountsAssumption, FS_Subset DEF Administrators, Known
    <3>3. Spared(req[p].user, req[p].new)
      BY <2>2, <3>2, ManyHaveAnother DEF Dispensable, Spared, Administrators
    <3>. QED
      BY <1>8, <2>2, <3>1, <3>3, PlaceHeld DEF LockEdit
  <2>. QED
    BY <1>8, <2>1, <2>2 DEF LockEdit
<1>9. CASE EditUser(p)
  BY <1>9, EditHeld
<1>. QED
  BY <1>1, <1>2, <1>3, <1>4, <1>5, <1>6, <1>7, <1>8, <1>9 DEF Server

-----------------------------------------------------------------------------
LEMMA InitInv == Init => IInv
<1>. SUFFICES ASSUME Init PROVE IInv
  OBVIOUS
<1>1. TypeOK
  BY Values DEF Init, TypeOK, Request, Gated
<1>2. Known = {} /\ \A p \in Pages : req[p] = NoRequest /\ listed[p] = NoListing
  BY DEF Init, Known
<1>3. Held
  BY <1>2 DEF Init, Held, ListedKnown, LockHeld, SetupHolds, EditHolds, LastAdministrator,
              Empty, NoRequest, NoListing, Edits
<1>. QED
  BY <1>1, <1>3 DEF IInv

LEMMA StepInv == IInv /\ [Next]_vars => IInv'
<1>. SUFFICES ASSUME IInv, [Next]_vars PROVE Held'
  BY TypeStep DEF IInv
<1>1. CASE UNCHANGED vars
  <2>1. Known' = Known /\ Administrators' = Administrators /\ Empty' = Empty
    BY <1>1, KnownFrame DEF vars
  <2>. QED
    BY <1>1, <2>1 DEF vars, IInv, Held, ListedKnown, LockHeld, SetupHolds, EditHolds, Spared,
                      LastAdministrator
<1>2. CASE Next
  <2>1. PICK p \in Pages : Gate(p) \/ Requests(p) \/ Server(p) \/ Answers(p)
    BY <1>2 DEF Next
  <2>. QED
    BY <2>1, GateHeld, RequestsHeld, ServerHeld, AnswersHeld
<1>. QED
  BY <1>1, <1>2

(* Every variable of server and pages stays in its type.                     *)
THEOREM TypeCorrect == Spec => []TypeOK
<1>1. IInv => TypeOK
  BY DEF IInv
<1>. QED
  BY <1>1, InitInv, StepInv, PTL DEF Spec

(* However many browsers submit the setup and edit each other's accounts,    *)
(* one administrator is made by the setup and one remains ever after.        *)
THEOREM AlwaysAdministered == Spec => []Administered
<1>1. IInv => Administered
  BY DEF IInv, Held, SetupHolds, Administered, SetupOnce
<1>. QED
  BY <1>1, InitInv, StepInv, PTL DEF Spec
=============================================================================
