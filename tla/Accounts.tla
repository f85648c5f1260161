------------------------------ MODULE Accounts ------------------------------
(***************************************************************************)
(* Accounts and sessions: registration, e-mail verification, login,        *)
(* passwords (app.py) and the Users & Roles console (routes/users.py).     *)
(*                                                                         *)
(* A request loads a row, changes the object in memory and commits the     *)
(* columns whose value differs from the loaded one; the last-administrator *)
(* check counts in a statement of its own in between.  Passwords and the   *)
(* tokens of links are numbers, a fresh one for each; 0 is none.  A link   *)
(* stays in its column when its time is over, and nobody accepts it then.  *)
(* A request that is refused (wrong password, expired link) changes        *)
(* nothing and is left out.                                                *)
(***************************************************************************)
EXTENDS Naturals, Sequences, FiniteSets

CONSTANTS
    Username, Email,  \* what people register with
    Seeded,           \* the seeded accounts: their <<username, role>>
    Client,           \* browsers, each with one request at a time
    MaxRequests       \* how many requests there are, a bound of the model

NoEmail == "no email"
Role    == {"user", "admin"}

ASSUME AccountsAssumption ==
    /\ MaxRequests \in Nat
    /\ Seeded \in Seq(Username \X Role)
    /\ NoEmail \notin Email

VARIABLES
    rows,       \* users, by id
    session,    \* the cookie of each client
    at,         \* where its request is
    row_id,     \* the row the request has loaded
    was, now,   \* the row as loaded and as changed
    issued,     \* secrets (passwords and tokens) so far
    expired,    \* tokens of links whose time is over
    retired,    \* secrets that a row held and holds no more (history)
    outdated,   \* clients whose account the console has changed (history)
    contested,  \* console decisions have overlapped (history)
    requests_left

request == <<at, row_id, was, now>>
history == <<outdated, contested>>
vars == <<rows, session, request, issued, expired, retired, history, requests_left>>

-----------------------------------------------------------------------------
User == [username: Username, email: Email \cup {NoEmail}, role: Role,
         is_active: {"yes", "no"}, email_verified: {"yes", "no"},
         password: Nat, verification_token: Nat, reset_token: Nat]

\* What create_user adds.
NewUser(username, email, role, password) ==
    [username |-> username, email |-> email, role |-> role,
     is_active |-> "yes", email_verified |-> "no",
     password |-> password, verification_token |-> 0, reset_token |-> 0]

LoggedOut == [id |-> 0, role |-> "none"]

Deciding == {"count", "rights"}
Place    == {"idle", "enter", "insert", "arm", "own"} \cup Deciding

TypeOK ==
    /\ rows \in Seq(User)
    /\ session \in [Client -> [id: DOMAIN rows, role: Role] \cup {LoggedOut}]
    /\ at \in [Client -> Place]
    /\ row_id \in [Client -> 0..Len(rows)]
    /\ \A c \in Client : at[c] # "idle" => was[c] \in User /\ now[c] \in User
    /\ issued \in Nat
    /\ expired \subseteq 1..issued /\ retired \subseteq 1..issued
    /\ outdated \subseteq Client /\ contested \in BOOLEAN
    /\ requests_left \in 0..MaxRequests

Init ==
    /\ rows = [i \in DOMAIN Seeded |->
                 NewUser(Seeded[i][1], NoEmail, Seeded[i][2], i)]
    /\ session = [c \in Client |-> LoggedOut]
    /\ at = [c \in Client |-> "idle"] /\ row_id = [c \in Client |-> 0]
    /\ was = [c \in Client |-> "none"] /\ now = [c \in Client |-> "none"]
    /\ issued = Len(Seeded) /\ expired = {} /\ retired = {}
    /\ outdated = {} /\ contested = FALSE
    /\ requests_left = MaxRequests

-----------------------------------------------------------------------------
\* Mutant of Updated: the whole row is written.
UpdatedWhole(row, old, new) == new

\* The UPDATE: the columns that differ from the loaded row.
Updated(row, old, new) ==
    [column \in DOMAIN row |->
        IF new[column] # old[column] THEN new[column] ELSE row[column]]

Secrets(row) == {row.password, row.verification_token, row.reset_token} \ {0}

\* The row of c is written.
Write(c) ==
    LET id == row_id[c]
        new == Updated(rows[id], was[c], now[c])
    IN  /\ rows' = [rows EXCEPT ![id] = new]
        /\ retired' = retired \cup (Secrets(rows[id]) \ Secrets(new))

Goes(c, place) == at' = [at EXCEPT ![c] = place]

Hold(c, id, old, new) ==
    /\ row_id' = [row_id EXCEPT ![c] = id]
    /\ was' = [was EXCEPT ![c] = old]
    /\ now' = [now EXCEPT ![c] = new]

Starts(c) ==
    /\ at[c] = "idle" /\ requests_left > 0
    /\ requests_left' = requests_left - 1

\* A request loads row i and is about to make it `new`.
Loads(c, i, place, new) ==
    /\ Starts(c)
    /\ Goes(c, place) /\ Hold(c, i, rows[i], new)
    /\ UNCHANGED <<rows, session, expired, retired>>

Ends(c) == Goes(c, "idle") /\ Hold(c, 0, "none", "none")

NoDecision == UNCHANGED <<outdated, contested>>

-----------------------------------------------------------------------------
\* Mutant of MayLogIn: suspension is not looked at.
MayLogInSuspended(row) == row.email # NoEmail => row.email_verified = "yes"

\* Seeded accounts have no e-mail to verify.
MayLogIn(row) ==
    /\ row.email # NoEmail => row.email_verified = "yes"
    /\ row.is_active = "yes"

\* The right password; a client that is logged in logs out first (or stands
\* for two clients).
Login(c, i) ==
    /\ session[c] = LoggedOut
    /\ MayLogIn(rows[i])
    /\ Loads(c, i, "enter", rows[i])
    /\ outdated' = outdated \ {c}
    /\ UNCHANGED <<issued, contested>>

\* The cookie holds the role as it was loaded.
Enter(c) ==
    /\ at[c] = "enter"
    /\ session' = [session EXCEPT ![c] = [id |-> row_id[c], role |-> was[c].role]]
    /\ Ends(c)
    /\ UNCHANGED <<rows, issued, expired, retired, history, requests_left>>

Logout(c) ==
    /\ at[c] = "idle" /\ session[c] # LoggedOut
    /\ session' = [session EXCEPT ![c] = LoggedOut]
    /\ UNCHANGED <<rows, request, issued, expired, retired, history, requests_left>>

-----------------------------------------------------------------------------
\* Neither the name nor the address is taken.
Register(c, username, email) ==
    /\ \A i \in DOMAIN rows :
          rows[i].username # username /\ rows[i].email # email
    /\ Starts(c)
    /\ LET new == NewUser(username, email, "user", issued + 1)
       IN  Goes(c, "insert") /\ Hold(c, 0, new, new)
    /\ issued' = issued + 1
    /\ NoDecision
    /\ UNCHANGED <<rows, session, expired, retired>>

\* The unique columns.
Clashes(new) == \E i \in DOMAIN rows :
    rows[i].username = new.username \/ rows[i].email = new.email

\* create_user commits the row by itself,
Insert(c) ==
    /\ at[c] = "insert" /\ ~Clashes(now[c])
    /\ rows' = Append(rows, now[c])
    /\ row_id' = [row_id EXCEPT ![c] = Len(rows) + 1]
    /\ now' = [now EXCEPT ![c].verification_token = issued + 1]
    /\ issued' = issued + 1
    /\ Goes(c, "arm")
    /\ UNCHANGED <<session, was, expired, retired, history, requests_left>>

InsertClashes(c) ==
    /\ at[c] = "insert" /\ Clashes(now[c])
    /\ Ends(c)
    /\ UNCHANGED <<rows, session, issued, expired, retired, history, requests_left>>

\* and register its verification link by a second commit; then the mail goes.
Arm(c) ==
    /\ at[c] = "arm"
    /\ Write(c)
    /\ Ends(c)
    /\ UNCHANGED <<session, issued, expired, history, requests_left>>

-----------------------------------------------------------------------------
\* A person about their own account.

\* 24 hours after registration, an hour after "forgot password".
LinkExpires(i) ==
    /\ \E token \in {rows[i].verification_token, rows[i].reset_token} \ ({0} \cup expired) :
          expired' = expired \cup {token}
    /\ UNCHANGED <<rows, session, request, issued, retired, history, requests_left>>

VerifyEmail(c, i) ==
    /\ rows[i].verification_token \notin {0} \cup expired
    /\ Loads(c, i, "own",
             [rows[i] EXCEPT !.email_verified = "yes", !.verification_token = 0])
    /\ NoDecision /\ UNCHANGED issued

ForgotPassword(c, i) ==
    /\ rows[i].email # NoEmail
    /\ Loads(c, i, "own", [rows[i] EXCEPT !.reset_token = issued + 1])
    /\ issued' = issued + 1
    /\ NoDecision

ResetPassword(c, i) ==
    /\ rows[i].reset_token \notin {0} \cup expired
    /\ Loads(c, i, "own",
             [rows[i] EXCEPT !.password = issued + 1, !.reset_token = 0])
    /\ issued' = issued + 1
    /\ NoDecision

\* With the current password.
ChangePassword(c, i) ==
    /\ session[c].id = i
    /\ Loads(c, i, "own", [rows[i] EXCEPT !.password = issued + 1])
    /\ issued' = issued + 1
    /\ NoDecision

-----------------------------------------------------------------------------
\* The console: admin_required reads the role in the cookie.
Decides(c, i, place, new) ==
    /\ session[c].role = "admin"
    /\ Loads(c, i, place, new)
    /\ contested' = (contested \/ \E d \in Client : at[d] \in Deciding)
    /\ UNCHANGED <<issued, outdated>>

ChangeRole(c, i, role) ==
    Decides(c, i,
            IF rows[i].role = "admin" /\ role = "user" THEN "count" ELSE "rights",
            [rows[i] EXCEPT !.role = role])

Suspended(row) == [row EXCEPT !.is_active = "no"]

SuspendUser(c, i) ==
    Decides(c, i, IF rows[i].role = "admin" THEN "count" ELSE "rights",
            Suspended(rows[i]))

ActivateUser(c, i) ==
    Decides(c, i, "rights", [rows[i] EXCEPT !.is_active = "yes"])

ActiveAdmins ==
    {i \in DOMAIN rows : rows[i].role = "admin" /\ rows[i].is_active = "yes"}

\* Mutant of OtherAdmins: suspended administrators count.
OtherAdminsOfAnyKind(id) == {i \in DOMAIN rows : rows[i].role = "admin"} \ {id}

\* _active_admin_count without the account in question.
OtherAdmins(id) == ActiveAdmins \ {id}

CountAdmins(c) ==
    /\ at[c] = "count"
    /\ IF OtherAdmins(row_id[c]) = {}
       THEN Ends(c)
       ELSE Goes(c, "rights") /\ UNCHANGED <<row_id, was, now>>
    /\ UNCHANGED <<rows, session, issued, expired, retired, history, requests_left>>

\* Clients logged in to account i or about to be.
ClientsOf(i) ==
    {c \in Client : \/ session[c].id = i
                    \/ at[c] = "enter" /\ row_id[c] = i}

Commit(c) ==
    /\ at[c] \in {"own", "rights"}
    /\ Write(c)
    /\ Ends(c)
    /\ outdated' = IF at[c] = "rights" THEN outdated \cup ClientsOf(row_id[c])
                   ELSE outdated
    /\ UNCHANGED <<session, issued, expired, contested, requests_left>>

\* A web worker is killed in the middle of a request.
RequestDies(c) ==
    /\ at[c] # "idle"
    /\ Ends(c)
    /\ UNCHANGED <<rows, session, issued, expired, retired, history, requests_left>>

Request(c) ==
    \/ Enter(c) \/ Logout(c)
    \/ \E n \in Username, e \in Email : Register(c, n, e)
    \/ Insert(c) \/ InsertClashes(c) \/ Arm(c)
    \/ \E i \in DOMAIN rows :
         \/ Login(c, i) \/ VerifyEmail(c, i) \/ ForgotPassword(c, i)
         \/ ResetPassword(c, i) \/ ChangePassword(c, i)
         \/ SuspendUser(c, i) \/ ActivateUser(c, i)
         \/ \E role \in Role : ChangeRole(c, i, role)
    \/ CountAdmins(c) \/ Commit(c) \/ RequestDies(c)

Next ==
    \/ \E c \in Client : Request(c)
    \/ \E i \in DOMAIN rows : LinkExpires(i)

Spec == Init /\ [][Next]_vars

-----------------------------------------------------------------------------
\* "The last remaining admin can never be demoted or suspended (would lock the
\* whole console out with no way back in)": for any sequence of decisions,
SomeAdminRemains == ActiveAdmins # {}

\* as long as no two decisions overlap.
AdminRemains == contested \/ SomeAdminRemains

\* A session is for an account that may log in, with the account's role, until
\* the console changes the account: "suspended accounts must not be able to
\* authenticate at all", whatever else runs while they log in.
SessionsAreCurrent ==
    \A c \in Client \ outdated : session[c] # LoggedOut =>
        LET row == rows[session[c].id]
        IN  /\ row.is_active = "yes" /\ row.role = session[c].role
            /\ row.email = NoEmail \/ row.email_verified = "yes"

\* A password that was replaced and a link that was used or replaced never
\* work again: no request that loaded the row earlier brings them back.
RetiredSecretsStayOut ==
    \A i \in DOMAIN rows : Secrets(rows[i]) \cap retired = {}

\* The role and the suspension of an account change by a decision of the
\* console on that account only: a password reset or a verification that
\* loaded the row earlier does not undo a suspension.
RightsChangeByConsole ==
    [][\A i \in DOMAIN rows :
          rows'[i].role # rows[i].role \/ rows'[i].is_active # rows[i].is_active =>
              \E c \in Client : at[c] = "rights" /\ row_id[c] = i /\ Commit(c)]_vars
=============================================================================
