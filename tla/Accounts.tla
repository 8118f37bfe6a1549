------------------------------- MODULE Accounts -------------------------------
(***************************************************************************)
(* Accounts and the gate of the page: the boot of App.tsx, what it shows   *)
(* to whom, the sign-in form, the Users tab of the settings, and the       *)
(* endpoints of api.py behind them.  Several browsers sign in, edit the    *)
(* accounts from lists that grow old, and sign out; the setup and the      *)
(* edits of accounts run one at a time under setup_lock.                   *)
(*                                                                         *)
(* An operator is like a viewer here.  Passwords, the setup code and the   *)
(* rate limit decide whether a request is refused, which any request of a  *)
(* stranger may be.  What a signed-in page loads is in LiveView.           *)
(***************************************************************************)
EXTENDS Naturals, FiniteSets

CONSTANTS
    Users,      \* names of accounts
    Pages,      \* browsers
    Nobody      \* no user, no browser

VARIABLES
    accounts,   \* the user rows
    lock,       \* the holder of setup_lock
    setups,     \* first administrators created (for Administered)
    session,    \* the user of the session each browser's cookie names
    boot,       \* the boot effect of each page
    page,       \* what App keeps of each page
    listed,     \* the rows of the Users tab
    req         \* the request under way of each page

vars == <<accounts, lock, setups, session, boot, page, listed, req>>

Roles == {"viewer", "admin"}
Account == [role : Roles, active : BOOLEAN]

ASSUME AccountsAssumption == IsFiniteSet(Users) /\ Nobody \notin Users \cup Pages \cup Account

NoAccount == [role |-> "viewer", active |-> FALSE]      \* never listed, never active
Listing == [Users -> Account]
NoListing == [u \in Users |-> NoAccount]
NoRequest == [at |-> "idle", kind |-> "none", user |-> Nobody, new |-> NoAccount]
Blank == [ready |-> FALSE, failed |-> FALSE, user |-> Nobody, admin |-> FALSE,
          setup |-> FALSE, wants |-> "overview"]

TypeOK ==
    /\ accounts \in [Users -> Account \cup {Nobody}]
    /\ lock \in Pages \cup {Nobody}
    /\ setups \in 0 .. 2
    /\ session \in [Pages -> Users \cup {Nobody}]
    /\ boot \in [Pages -> {"status", "me", "done"}]
    /\ page \in [Pages -> [ready : BOOLEAN, failed : BOOLEAN, user : Users \cup {Nobody},
                           admin : BOOLEAN, setup : BOOLEAN, wants : {"overview", "settings"}]]
    /\ listed \in [Pages -> Listing]
    /\ req \in [Pages -> [at : {"idle", "sent", "waiting", "locked", "issue", "ok", "refused"},
                          kind : {"none", "setup", "login", "logout", "add", "role", "toggle"},
                          user : Users \cup {Nobody}, new : Account]]

Init ==
    /\ accounts = [u \in Users |-> Nobody]
    /\ lock = Nobody
    /\ setups = 0
    /\ session = [p \in Pages |-> Nobody]
    /\ boot = [p \in Pages |-> "status"]
    /\ page = [p \in Pages |-> Blank]
    /\ listed = [p \in Pages |-> NoListing]
    /\ req = [p \in Pages |-> NoRequest]

-----------------------------------------------------------------------------
(* Reading the rows.                                                       *)

Known == {u \in Users : accounts[u] # Nobody}
Active(u) == u \in Known /\ accounts[u].active
Administrators == {u \in Known : accounts[u].active /\ accounts[u].role = "admin"}
Empty == Known = {}
Rows == [u \in Users |-> IF u \in Known THEN accounts[u] ELSE NoAccount]

\* current_user: the row is read on every request.
SignedIn(p) == session[p] # Nobody /\ Active(session[p])
Authorized(p) == session[p] \in Administrators

-----------------------------------------------------------------------------
(* The gate.                                                               *)

Shown(p) ==
    IF ~page[p].ready THEN "connecting"
    ELSE IF page[p].failed THEN "unavailable"
    ELSE IF page[p].user = Nobody THEN (IF page[p].setup THEN "setup" ELSE "login")
    ELSE IF page[p].wants = "settings" /\ page[p].admin THEN "settings" ELSE "overview"

\* GET /auth/status; a workspace without users is to be set up.
BootStatus(p) ==
    /\ boot[p] = "status"
    /\ boot' = [boot EXCEPT ![p] = IF Empty THEN "done" ELSE "me"]
    /\ page' = [page EXCEPT ![p].setup = Empty, ![p].ready = Empty]
    /\ UNCHANGED <<accounts, lock, setups, session, listed, req>>

\* GET /auth/me; without a session the page asks for one.
BootMe(p) ==
    /\ boot[p] = "me"
    /\ boot' = [boot EXCEPT ![p] = "done"]
    /\ page' = [page EXCEPT ![p].ready = TRUE,
                            ![p].user = IF SignedIn(p) THEN session[p] ELSE Nobody,
                            ![p].admin = Authorized(p)]
    /\ UNCHANGED <<accounts, lock, setups, session, listed, req>>

\* Either request fails.
BootFails(p) ==
    /\ boot[p] # "done"
    /\ boot' = [boot EXCEPT ![p] = "done"]
    /\ page' = [page EXCEPT ![p].ready = TRUE, ![p].failed = TRUE]
    /\ UNCHANGED <<accounts, lock, setups, session, listed, req>>

\* Retry connection; what the page knew of users it keeps.
Retry(p) ==
    /\ Shown(p) = "unavailable"
    /\ boot' = [boot EXCEPT ![p] = "status"]
    /\ page' = [page EXCEPT ![p].ready = FALSE, ![p].failed = FALSE]
    /\ UNCHANGED <<accounts, lock, setups, session, listed, req>>

\* The tab is reloaded: everything but the cookie starts again.
Reload(p) ==
    /\ req[p] = NoRequest
    /\ boot' = [boot EXCEPT ![p] = "status"]
    /\ page' = [page EXCEPT ![p] = Blank]
    /\ listed' = [listed EXCEPT ![p] = NoListing]
    /\ UNCHANGED <<accounts, lock, setups, session, req>>

\* The navigation offers Settings to administrators; leaving unmounts the tab.
Navigate(p) ==
    /\ Shown(p) \in {"overview", "settings"}
    /\ \E to \in {"overview", "settings"} :
          /\ to = "settings" => page[p].admin
          /\ to # page[p].wants
          /\ page' = [page EXCEPT ![p].wants = to]
    /\ listed' = [listed EXCEPT ![p] = NoListing]
    /\ UNCHANGED <<accounts, lock, setups, session, boot, req>>

Unseat(p) == [page[p] EXCEPT !.user = Nobody, !.admin = FALSE]

\* A load of the live view answers 401: the page returns to the sign-in form.
Unauthorized(p) ==
    /\ page[p].user # Nobody /\ ~SignedIn(p)
    /\ page' = [page EXCEPT ![p] = Unseat(p)]
    /\ listed' = [listed EXCEPT ![p] = NoListing]
    /\ UNCHANGED <<accounts, lock, setups, session, boot, req>>

-----------------------------------------------------------------------------
(* Requests of a page.                                                     *)

Ask(p, kind, user, new) ==
    /\ req[p] = NoRequest
    /\ req' = [req EXCEPT ![p] = [at |-> "sent", kind |-> kind, user |-> user, new |-> new]]
    /\ UNCHANGED <<accounts, lock, setups, session, boot, page, listed>>

\* The form of Login, which is the setup form as long as the page thinks so.
Submit(p) ==
    /\ Shown(p) \in {"setup", "login"}
    /\ \E u \in Users : Ask(p, Shown(p), u, NoAccount)

SignOut(p) ==
    /\ Shown(p) \in {"overview", "settings"}
    /\ Ask(p, "logout", Nobody, NoAccount)

\* useQuery("/users") of the settings page; refused, it stays empty.
LoadUsers(p) ==
    /\ Shown(p) = "settings" /\ listed[p] = NoListing
    /\ Authorized(p)
    /\ listed' = [listed EXCEPT ![p] = Rows]
    /\ UNCHANGED <<accounts, lock, setups, session, boot, page, req>>

\* The users of the list.
Listed(p) == {u \in Users : listed[p][u] # NoAccount}

\* The role selector sends the new role and active as listed.
ChangeRole(p) ==
    /\ Shown(p) = "settings"
    /\ \E u \in Listed(p), role \in Roles :
          /\ role # listed[p][u].role
          /\ Ask(p, "role", u, [listed[p][u] EXCEPT !.role = role])

\* Disable and Enable send the role as listed.
ToggleActive(p) ==
    /\ Shown(p) = "settings"
    /\ \E u \in Listed(p) :
          Ask(p, "toggle", u, [listed[p][u] EXCEPT !.active = ~@])

\* NewUser: any name, any role.
CreateUser(p) ==
    /\ Shown(p) = "settings"
    /\ \E u \in Users, role \in Roles :
          Ask(p, "add", u, [role |-> role, active |-> TRUE])

-----------------------------------------------------------------------------
(* The server.                                                             *)

Served(p, at) == req' = [req EXCEPT ![p].at = at]

\* Nobody waits for the lock.
Free_ignored == TRUE

\* setup_lock can be had.
Free == lock = Nobody

\* setup: under the lock, only a workspace without users ...
LockSetup(p) ==
    /\ req[p].at = "sent" /\ req[p].kind = "setup" /\ Free
    /\ \/ Empty /\ lock' = p /\ Served(p, "locked")
       \/ UNCHANGED lock /\ Served(p, "refused")
    /\ UNCHANGED <<accounts, setups, session, boot, page, listed>>

\* ... gets its first administrator, once the password is hashed.
Setup(p) ==
    /\ req[p].at = "locked" /\ req[p].kind = "setup"
    /\ accounts' = [accounts EXCEPT ![req[p].user] = [role |-> "admin", active |-> TRUE]]
    /\ setups' = setups + 1
    /\ lock' = Nobody
    /\ req' = [req EXCEPT ![p].at = "issue", ![p].new.role = "admin"]
    /\ UNCHANGED <<session, boot, page, listed>>

\* login: the row is read, then the password is verified in a thread.
Login(p) ==
    /\ req[p].at = "sent" /\ req[p].kind = "login"
    /\ \/ /\ Active(req[p].user)
          /\ req' = [req EXCEPT ![p].at = "issue", ![p].new.role = accounts[req[p].user].role]
       \/ Served(p, "refused")
    /\ UNCHANGED <<accounts, lock, setups, session, boot, page, listed>>

\* issue_session, with the user as read before.
IssueSession(p) ==
    /\ req[p].at = "issue"
    /\ session' = [session EXCEPT ![p] = req[p].user]
    /\ Served(p, "ok")
    /\ UNCHANGED <<accounts, lock, setups, boot, page, listed>>

Logout(p) ==
    /\ req[p].at = "sent" /\ req[p].kind = "logout"
    /\ session' = [session EXCEPT ![p] = Nobody]
    /\ Served(p, IF SignedIn(p) THEN "ok" ELSE "refused")
    /\ UNCHANGED <<accounts, lock, setups, boot, page, listed>>

AddUser(p) ==
    /\ req[p].at = "sent" /\ req[p].kind = "add"
    /\ LET good == Authorized(p) /\ req[p].user \notin Known IN
       /\ accounts' = IF good THEN [accounts EXCEPT ![req[p].user] = req[p].new] ELSE accounts
       /\ Served(p, IF good THEN "ok" ELSE "refused")
    /\ UNCHANGED <<lock, setups, session, boot, page, listed>>

\* The role is checked before the lock is waited for.
Authorize(p) ==
    /\ req[p].at = "sent" /\ req[p].kind \in {"role", "toggle"}
    /\ Served(p, IF Authorized(p) THEN "waiting" ELSE "refused")
    /\ UNCHANGED <<accounts, lock, setups, session, boot, page, listed>>

\* edit_user's test of the last administrator.
Dispensable(u, new) ==
    \/ accounts[u].role # "admin"
    \/ new.role = "admin" /\ new.active
    \/ Cardinality(Administrators) > 1

LockEdit(p) ==
    /\ req[p].at = "waiting" /\ Free
    /\ IF Dispensable(req[p].user, req[p].new)
       THEN lock' = p /\ Served(p, "locked")
       ELSE UNCHANGED lock /\ Served(p, "refused")
    /\ UNCHANGED <<accounts, setups, session, boot, page, listed>>

\* The row is written and every session of the user deleted.
EditUser(p) ==
    /\ req[p].at = "locked" /\ req[p].kind \in {"role", "toggle"}
    /\ accounts' = [accounts EXCEPT ![req[p].user] = req[p].new]
    /\ session' = [q \in Pages |-> IF session[q] = req[p].user THEN Nobody ELSE session[q]]
    /\ lock' = Nobody
    /\ Served(p, "ok")
    /\ UNCHANGED <<setups, boot, page, listed>>

-----------------------------------------------------------------------------
(* Answers.                                                                *)

\* The form: onLogin, or a message.
SignedInAnswer(p) ==
    /\ req[p].at \in {"ok", "refused"} /\ req[p].kind \in {"setup", "login"}
    /\ page' = IF req[p].at = "ok"
               THEN [page EXCEPT ![p].user = req[p].user, ![p].admin = req[p].new.role = "admin",
                                 ![p].setup = FALSE]
               ELSE page
    /\ req' = [req EXCEPT ![p] = NoRequest]
    /\ UNCHANGED <<accounts, lock, setups, session, boot, listed>>

\* Sign out: the page forgets the user; refused, it only says so.
SignedOutAnswer(p) ==
    /\ req[p].at \in {"ok", "refused"} /\ req[p].kind = "logout"
    /\ page' = IF req[p].at = "ok" THEN [page EXCEPT ![p] = Unseat(p)] ELSE page
    /\ listed' = IF req[p].at = "ok" THEN [listed EXCEPT ![p] = NoListing] ELSE listed
    /\ req' = [req EXCEPT ![p] = NoRequest]
    /\ UNCHANGED <<accounts, lock, setups, session, boot>>

\* The Users tab reloads its list after a change (closing NewUser does, too).
EditedAnswer(p) ==
    /\ req[p].at \in {"ok", "refused"} /\ req[p].kind \in {"add", "role", "toggle"}
    /\ listed' = IF req[p].at = "ok" THEN [listed EXCEPT ![p] = NoListing] ELSE listed
    /\ req' = [req EXCEPT ![p] = NoRequest]
    /\ UNCHANGED <<accounts, lock, setups, session, boot, page>>

-----------------------------------------------------------------------------

Gate(p) == BootStatus(p) \/ BootMe(p) \/ BootFails(p) \/ Retry(p) \/ Reload(p)
           \/ Navigate(p) \/ Unauthorized(p)
Requests(p) == Submit(p) \/ SignOut(p) \/ LoadUsers(p) \/ ChangeRole(p) \/ ToggleActive(p)
               \/ CreateUser(p)
Server(p) == LockSetup(p) \/ Setup(p) \/ Login(p) \/ IssueSession(p) \/ Logout(p)
             \/ AddUser(p) \/ Authorize(p) \/ LockEdit(p) \/ EditUser(p)
Answers(p) == SignedInAnswer(p) \/ SignedOutAnswer(p) \/ EditedAnswer(p)

Next == \E p \in Pages : Gate(p) \/ Requests(p) \/ Server(p) \/ Answers(p)

Spec == Init /\ [][Next]_vars

-----------------------------------------------------------------------------
(* Properties.                                                             *)

LastAdministrator == Empty \/ Administrators # {}

SetupOnce == setups <= 1

\* Two browsers that submit the setup form together make one administrator, and
\* from then on somebody can always administer the workspace, whatever
\* administrators do to each other at the same time.
Administered == SetupOnce /\ LastAdministrator
=============================================================================
