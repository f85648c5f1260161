-------------------------- MODULE GmailConnections --------------------------
(***************************************************************************)
(* The GmailConnection rows: connecting, replacing, pausing and            *)
(* disconnecting a mailbox (routes/gmail.py, models.py) while other        *)
(* requests and workers use and refresh its tokens                         *)
(* (integrations/gmail/client.py), and the push watch on the mailbox       *)
(* (integrations/gmail/watch.py), which Gmail drops unless it is renewed.  *)
(*                                                                         *)
(* A request loads a row, changes the object in memory and commits the     *)
(* columns whose value differs from the loaded one.  Load and commit are   *)
(* separate steps, and the OAuth callback has two such pairs: the retired  *)
(* mailbox is committed by its audit entry before the new one is looked    *)
(* up.  Refresh tokens are numbers, a fresh one for each that is stored    *)
(* (Fernet never gives the same ciphertext twice); 0 is no token.  Access  *)
(* tokens, good for an hour, are left out.  Time passes in ticks, several  *)
(* to a day; Beat sends the renewal once a day.                            *)
(***************************************************************************)
EXTENDS Naturals, Sequences, FiniteSets

CONSTANTS
    Mailbox,      \* Google accounts
    Req,          \* requests and workers that run at the same time
    Ops,          \* what they do, a subset of OpNames
    Connected,    \* mailboxes connected at the start
    Day,          \* ticks from one renewal to the next
    Jitter,       \* ticks a renewal may be late, or may take
    RenewWithin,  \* WATCH_RENEW_WITHIN, in ticks
    WatchFor,     \* how long Gmail keeps a watch, in ticks
    MaxTicks,     \* ticks that pass, a bound of the model
    MaxRequests   \* how many requests there are, a bound of the model

OpNames == {"callback", "disconnect", "pause", "resume", "poll", "scan_now",
            "test", "review", "watch_start", "watch_stop", "renew"}
WatchOps == {"watch_start", "watch_stop", "renew"}

ASSUME GmailConnectionsAssumption ==
    /\ MaxRequests \in Nat
    /\ Ops \subseteq OpNames
    /\ Connected \in Seq(Mailbox)
    /\ Day \in Nat \ {0} /\ Jitter \in 0..(Day - 1)
    /\ RenewWithin \in Nat /\ WatchFor \in Nat /\ MaxTicks \in Nat

VARIABLES
    rows,       \* gmail_connections, by id
    issued,     \* refresh tokens handed out so far
    at,         \* where a request is
    op,         \* what it does
    row_id,     \* the row it has loaded; 0 for a row not inserted yet
    was, now,   \* the row as loaded and as changed
    account,    \* callback: the account Google names, and
    granted,    \* callback: whether a refresh token came with it
    requests_left,
    tick,       \* the time
    renewal,    \* whether Beat's renewal of the day is still to come
    armed,      \* Gmail: until when it pushes, for each mailbox
    crossed,    \* rows on which two watch requests overlapped (history)
    lapsed,     \* rows left without renewal: it failed, or they were
                \* disconnected meanwhile (history)
    raced,      \* whether two callbacks overlapped, or a stale copy made a
                \* disconnected row active again (history)
    outdated    \* rows last connected or disconnected from a copy whose status
                \* or refresh token another request had changed (history)

session == <<at, op, row_id, was, now, account, granted>>
watch   == <<tick, renewal, armed, crossed, lapsed>>
races   == <<raced, outdated>>
vars == <<rows, issued, session, requests_left, watch, races>>

-----------------------------------------------------------------------------
Status == {"connected", "paused", "revoked", "disconnected"}
Place  == {"idle", "retire", "lookup", "attach", "using", "refreshed", "watching",
           "commit"}
Mode   == {"polling", "push"}

Connection == [mailbox_email: Mailbox, connection_status: Status,
               protection_enabled: {"on", "off"},
               refresh_token: Nat, monitoring_mode: Mode, last_watch_expiration: Nat]

\* The column defaults of a row that is added to the session.
NewConnection(mailbox) ==
    [mailbox_email |-> mailbox, connection_status |-> "connected",
     protection_enabled |-> "on", refresh_token |-> 0,
     monitoring_mode |-> "polling", last_watch_expiration |-> 0]

TypeOK ==
    /\ rows \in Seq(Connection)
    /\ issued \in Nat
    /\ at \in [Req -> Place]
    /\ op \in [Req -> OpNames \cup {"none"}]
    /\ row_id \in [Req -> Nat]
    /\ \A r \in Req : at[r] \notin {"idle", "lookup"} =>
          /\ was[r] \in Connection /\ now[r] \in Connection
          /\ row_id[r] \in 0..Len(rows)
    /\ account \in [Req -> Mailbox \cup {"none"}]
    /\ granted \in [Req -> BOOLEAN]
    /\ requests_left \in 0..MaxRequests
    /\ tick \in 0..MaxTicks /\ renewal \in {"to come", "done"}
    /\ armed \in [Mailbox -> 0..MaxTicks + WatchFor]
    /\ crossed \cup lapsed \cup outdated \subseteq DOMAIN rows
    /\ raced \in BOOLEAN

Init ==
    /\ rows = [i \in DOMAIN Connected |->
                 [NewConnection(Connected[i]) EXCEPT !.refresh_token = i]]
    /\ issued = Len(Connected)
    /\ at = [r \in Req |-> "idle"]
    /\ op = [r \in Req |-> "none"]
    /\ row_id = [r \in Req |-> 0]
    /\ was = [r \in Req |-> "none"] /\ now = [r \in Req |-> "none"]
    /\ account = [r \in Req |-> "none"]
    /\ granted = [r \in Req |-> FALSE]
    /\ requests_left = MaxRequests
    /\ tick = 0 /\ renewal = "to come"
    /\ armed = [mailbox \in Mailbox |-> 0]
    /\ crossed = {} /\ lapsed = {}
    /\ raced = FALSE /\ outdated = {}

-----------------------------------------------------------------------------
\* GmailConnection.active() is the first of these, in no stated order.
ActiveIds == {i \in DOMAIN rows : rows[i].connection_status # "disconnected"}

MarkDisconnected(row) ==
    [row EXCEPT !.connection_status = "disconnected",
                !.protection_enabled = "off",
                !.refresh_token = 0]

\* The UPDATE: the columns that differ from the loaded row.
Updated(row, old, new) ==
    [column \in DOMAIN row |->
        IF new[column] # old[column] THEN new[column] ELSE row[column]]

\* The row of r is written, or inserted.
Write(r) ==
    rows' = IF row_id[r] = 0
            THEN Append(rows, now[r])
            ELSE [rows EXCEPT ![row_id[r]] = Updated(@, was[r], now[r])]

Hold(r, id, old, new) ==
    /\ row_id' = [row_id EXCEPT ![r] = id]
    /\ was' = [was EXCEPT ![r] = old]
    /\ now' = [now EXCEPT ![r] = new]

Goes(r, place) == at' = [at EXCEPT ![r] = place]

\* What r connects or disconnects is not as r has loaded it.
Stale(r) ==
    \/ was[r].connection_status # rows[row_id[r]].connection_status
    \/ was[r].refresh_token # rows[row_id[r]].refresh_token

NoteStale(r) ==
    outdated' = IF row_id[r] = 0 THEN outdated
                ELSE IF Stale(r) THEN outdated \cup {row_id[r]}
                ELSE outdated \ {row_id[r]}

\* Beat sends a renewal a day; the rest are requests people make, or passes.
Starts(r, what) ==
    /\ at[r] = "idle"
    /\ what \in Ops
    /\ IF what = "renew"
       THEN renewal = "to come" /\ renewal' = "done" /\ UNCHANGED requests_left
       ELSE /\ requests_left > 0
            /\ requests_left' = requests_left - 1
            /\ UNCHANGED renewal
    /\ op' = [op EXCEPT ![r] = what]

Ends(r) ==
    /\ Goes(r, "idle")
    /\ op' = [op EXCEPT ![r] = "none"]
    /\ Hold(r, 0, "none", "none")
    /\ account' = [account EXCEPT ![r] = "none"]
    /\ granted' = [granted EXCEPT ![r] = FALSE]

-----------------------------------------------------------------------------
\* Mutant of Replaces: nothing is ever retired.
ReplacesNothing(i, mailbox) == FALSE

\* The active row is another mailbox's.
Replaces(i, mailbox) == rows[i].mailbox_email # mailbox

\* The callback, once Google has named the account and sent the tokens, loads
\* the active row and, if it is another mailbox's, marks it disconnected.
Callback(r, mailbox) ==
    /\ Starts(r, "callback")
    /\ account' = [account EXCEPT ![r] = mailbox]
    /\ \E token_came \in BOOLEAN : granted' = [granted EXCEPT ![r] = token_came]
    /\ \/ \E i \in ActiveIds :
            IF Replaces(i, mailbox)
            THEN Goes(r, "retire") /\ Hold(r, i, rows[i], MarkDisconnected(rows[i]))
            ELSE Goes(r, "lookup") /\ UNCHANGED <<row_id, was, now>>
       \/ /\ ActiveIds = {}
          /\ Goes(r, "lookup") /\ UNCHANGED <<row_id, was, now>>
    /\ raced' = (raced \/ \E q \in Req : op[q] = "callback")
    /\ UNCHANGED <<rows, issued, tick, armed, crossed, lapsed, outdated>>

\* The audit entry commits the retired row.
Retire(r) ==
    /\ at[r] = "retire"
    /\ Write(r)
    /\ lapsed' = lapsed \cup {row_id[r]}
    /\ NoteStale(r)
    /\ Goes(r, "lookup")
    /\ UNCHANGED <<issued, op, row_id, was, now, account, granted, requests_left,
                   tick, renewal, armed, crossed, raced>>

\* Rows of the mailbox; the latest is reused, 0 stands for one that is added.
RowsOf(mailbox) == {i \in DOMAIN rows : rows[i].mailbox_email = mailbox}

IsLatest(id, mailbox) ==
    \/ id \in RowsOf(mailbox) /\ \A j \in RowsOf(mailbox) : j <= id
    \/ id = 0 /\ RowsOf(mailbox) = {}

\* With a refresh token, from Google or stored, the row becomes connected.
\* Without one the request gives up, but its audit entry commits the row that
\* was added to the session, with the column defaults.  The mode is one of
\* them: the query for the owner flushes the new row, so "or the configured
\* mode" never applies.
Lookup(r) ==
    /\ at[r] = "lookup"
    /\ \E id \in {0} \cup DOMAIN rows :
         LET row == IF id = 0 THEN NewConnection(account[r]) ELSE rows[id]
         IN /\ IsLatest(id, account[r])
            /\ IF granted[r] \/ row.refresh_token # 0
               THEN /\ Hold(r, id, row,
                         [row EXCEPT !.refresh_token =
                                         IF granted[r] THEN issued + 1 ELSE @,
                                     !.connection_status = "connected",
                                     !.protection_enabled = "on"])
                    /\ issued' = issued + 1
               ELSE Hold(r, id, row, row) /\ UNCHANGED issued
    /\ Goes(r, "attach")
    /\ UNCHANGED <<rows, op, account, granted, requests_left, watch, races>>

Attach(r) ==
    /\ at[r] = "attach"
    /\ Write(r)
    /\ NoteStale(r)
    /\ Ends(r)
    /\ UNCHANGED <<issued, requests_left, watch, raced>>

-----------------------------------------------------------------------------
\* disconnect, pause and resume of the active row.
Command(what, row) ==
    CASE what = "disconnect" -> MarkDisconnected(row)
      [] what = "pause"  -> [row EXCEPT !.protection_enabled = "off",
                                        !.connection_status = "paused"]
      [] what = "resume" -> [row EXCEPT !.protection_enabled = "on",
                                        !.connection_status = "connected"]

Order(r, what) ==
    /\ what \in {"disconnect", "pause", "resume"}
    /\ Starts(r, what)
    /\ \E i \in ActiveIds : Hold(r, i, rows[i], Command(what, rows[i]))
    /\ Goes(r, "commit")
    /\ UNCHANGED <<rows, issued, account, granted, tick, armed, crossed, lapsed, races>>

\* run_active_sync's test.
MayPoll(i) ==
    /\ i \in ActiveIds
    /\ rows[i].protection_enabled = "on"
    /\ rows[i].connection_status = "connected"

\* Mutant of Due: nothing is due before it has expired.
DueOnceExpired(row) ==
    row.monitoring_mode = "push" /\ row.last_watch_expiration <= tick

\* needs_renewal; a row without expiration is due as well.
Due(row) ==
    row.monitoring_mode = "push" /\ row.last_watch_expiration <= tick + RenewWithin

\* Whoever needs a Gmail service: the poller's pass, Scan now, Test
\* connection, the watch calls, an administrator's action on a scan.  Only the
\* last may name a row that is not active.  A row without refresh token fails
\* before any of the columns below is touched.
Use(r, what) ==
    /\ what \in {"poll", "scan_now", "test", "review"} \cup WatchOps
    /\ Starts(r, what)
    /\ \E i \in DOMAIN rows :
         /\ \/ what = "poll" /\ MayPoll(i)
            \/ what \in {"scan_now", "test", "watch_start", "watch_stop"} /\ i \in ActiveIds
            \/ what = "renew" /\ i \in ActiveIds /\ Due(rows[i])
            \/ what = "review"
         /\ rows[i].refresh_token # 0
         /\ Hold(r, i, rows[i], rows[i])
         /\ crossed' = IF what \in WatchOps /\ \E q \in Req \ {r} :
                                op[q] \in WatchOps /\ row_id[q] = i
                       THEN crossed \cup {i} ELSE crossed
    /\ Goes(r, "using")
    /\ UNCHANGED <<rows, issued, account, granted, tick, armed, lapsed, races>>

\* renew_active_watch with nothing to renew or a row without refresh token, or
\* the day's run is lost with its worker.
RenewNothing ==
    /\ renewal = "to come" /\ "renew" \in Ops
    /\ renewal' = "done"
    /\ lapsed' = lapsed \cup {i \in ActiveIds : Due(rows[i])}
    /\ UNCHANGED <<rows, issued, session, requests_left, tick, armed, crossed, races>>

\* Mutant of Refreshed: a rotated refresh token is stored as well.
RefreshedWithRotation(r) ==
    /\ at[r] = "using"
    /\ now' = [now EXCEPT ![r].refresh_token = issued + 1]
    /\ issued' = issued + 1
    /\ Goes(r, IF op[r] \in WatchOps THEN "refreshed" ELSE "commit")
    /\ UNCHANGED <<rows, op, row_id, was, account, granted, requests_left, watch, races>>

\* The access token has expired and Google gives a new one, which is all the
\* row will have changed.
Refreshed(r) ==
    /\ at[r] = "using"
    /\ Goes(r, IF op[r] \in WatchOps THEN "refreshed" ELSE "commit")
    /\ UNCHANGED <<rows, issued, op, row_id, was, now, account, granted,
                   requests_left, watch, races>>

\* The access token has expired and Google refuses: invalid_grant.
Refused(r) ==
    /\ at[r] = "using"
    /\ now' = [now EXCEPT ![r].connection_status = "revoked",
                          ![r].protection_enabled = "off"]
    /\ Goes(r, "commit")
    /\ lapsed' = IF op[r] = "renew" THEN lapsed \cup {row_id[r]} ELSE lapsed
    /\ UNCHANGED <<rows, issued, op, row_id, was, account, granted,
                   requests_left, tick, renewal, armed, crossed, races>>

-----------------------------------------------------------------------------
\* build_service is done: the token was good, or the new one is committed,
\* after which the row is read again.
ServiceBuilt(r) ==
    /\ op[r] \in WatchOps
    /\ \/ /\ at[r] = "using"
          /\ UNCHANGED <<rows, was, now>>
       \/ /\ at[r] = "refreshed"
          /\ Write(r)
          /\ was' = [was EXCEPT ![r] = rows'[row_id[r]]]
          /\ now' = [now EXCEPT ![r] = rows'[row_id[r]]]
    /\ Goes(r, "watching")
    /\ UNCHANGED <<issued, op, row_id, account, granted, requests_left, watch, races>>

\* start_watch: Gmail pushes from now on, and the row will say so.
Arm(r) ==
    /\ at[r] = "watching" /\ op[r] \in {"watch_start", "renew"}
    /\ armed' = [armed EXCEPT ![now[r].mailbox_email] = tick + WatchFor]
    /\ now' = [now EXCEPT ![r].monitoring_mode = "push",
                          ![r].last_watch_expiration = tick + WatchFor]
    /\ Goes(r, "commit")
    /\ UNCHANGED <<rows, issued, op, row_id, was, account, granted, requests_left,
                   tick, renewal, crossed, lapsed, races>>

\* stop_watch: Gmail stops, or refuses; the row goes back to polling anyway.
Disarm(r) ==
    /\ at[r] = "watching" /\ op[r] = "watch_stop"
    /\ \/ armed' = [armed EXCEPT ![now[r].mailbox_email] = 0]
       \/ UNCHANGED armed
    /\ now' = [now EXCEPT ![r].monitoring_mode = "polling",
                          ![r].last_watch_expiration = 0]
    /\ Goes(r, "commit")
    /\ UNCHANGED <<rows, issued, op, row_id, was, account, granted, requests_left,
                   tick, renewal, crossed, lapsed, races>>

-----------------------------------------------------------------------------
\* A row is active again that was disconnected when r loaded it, or since.
Revives(r) ==
    /\ rows[row_id[r]].connection_status = "disconnected"
    /\ rows'[row_id[r]].connection_status # "disconnected"

\* The commit; a row just armed has nothing to make up for, unless it was
\* disconnected or revoked before.
Commit(r) ==
    /\ at[r] = "commit"
    /\ Write(r)
    /\ raced' = (raced \/ Revives(r))
    /\ IF op[r] = "disconnect" THEN NoteStale(r) ELSE UNCHANGED outdated
    /\ lapsed' = IF now[r].connection_status = "disconnected"
                 THEN lapsed \cup {row_id[r]}
                 ELSE IF /\ op[r] \in {"watch_start", "renew"}
                         /\ now[r].connection_status # "revoked"
                         /\ row_id[r] \in ActiveIds
                      THEN lapsed \ {row_id[r]} ELSE lapsed
    /\ Ends(r)
    /\ UNCHANGED <<issued, requests_left, tick, renewal, armed, crossed>>

\* The token was still good and no more is to be done, Gmail fails the watch
\* call, or the request dies: nothing is written.
Leave(r) ==
    /\ at[r] # "idle"
    /\ lapsed' = IF op[r] \in {"renew", "watch_stop"} THEN lapsed \cup {row_id[r]} ELSE lapsed
    /\ Ends(r)
    /\ UNCHANGED <<rows, issued, requests_left, tick, renewal, armed, crossed, races>>

\* Time passes.  A request is over within a tick; Beat's renewal, queued, run
\* and answered, is over Jitter ticks after its time at the latest.
Tick ==
    /\ tick < MaxTicks
    /\ \A r \in Req : at[r] = "idle" \/ op[r] = "renew"
    /\ (renewal = "to come" \/ \E r \in Req : op[r] = "renew") => tick % Day < Jitter
    /\ tick' = tick + 1
    /\ renewal' = IF tick' % Day = 0 THEN "to come" ELSE renewal
    /\ UNCHANGED <<rows, issued, session, requests_left, armed, crossed, lapsed, races>>

Request(r) ==
    \/ \E mailbox \in Mailbox : Callback(r, mailbox)
    \/ Retire(r) \/ Lookup(r) \/ Attach(r)
    \/ \E what \in OpNames : Order(r, what) \/ Use(r, what)
    \/ Refreshed(r) \/ Refused(r) \/ Commit(r) \/ Leave(r)
    \/ ServiceBuilt(r) \/ Arm(r) \/ Disarm(r)

Next == (\E r \in Req : Request(r)) \/ RenewNothing \/ Tick

Spec == Init /\ [][Next]_vars

-----------------------------------------------------------------------------
\* active() has one row to find: "There is at most one at a time by
\* construction".  So it is whatever refreshes, refusals, pauses and
\* disconnections overlap with a callback, unless two callbacks overlapped or a
\* copy loaded before a disconnection made the row active again.
AtMostOneActive == ~raced => Cardinality(ActiveIds) <= 1

\* Disconnecting clears the row's tokens for good: a refresh or a command that
\* loaded the row before the disconnect brings no refresh token back.  Exempt
\* are rows on which a callback and a disconnection overlapped.
DisconnectedHoldsNoRefreshToken ==
    \A i \in DOMAIN rows \ outdated :
        rows[i].connection_status = "disconnected" => rows[i].refresh_token = 0

\* A mailbox shown as pushing until some day is one Gmail pushes for, but for
\* Jitter ticks at most: an expiration counted from a late renewal is not yet
\* due a day before it ends, and the run after that comes just as it ends
\* ("re-arms it before expiry", or so).  Exempt are rows on which two watch
\* requests overlapped, rows being stopped, and those a failed or lost renewal
\* or a disconnection left behind, until they are armed again.
PushLapsesBriefly ==
    LET stopping == {row_id[r] : r \in {q \in Req : op[q] = "watch_stop"}}
    IN ~raced => \A i \in ActiveIds \ (crossed \cup lapsed \cup stopping) :
           rows[i].monitoring_mode = "push" /\ rows[i].last_watch_expiration # 0 =>
               armed[rows[i].mailbox_email] + Jitter > tick
=============================================================================
