----------------------- MODULE GmailConnectionsProofs -----------------------
(***************************************************************************)
(* What GmailConnections guarantees for any number of mailboxes, requests  *)
(* and days.                                                               *)
(*                                                                         *)
(* A request commits what it made of a row loaded earlier, so the          *)
(* inductive invariant says what is still true of that copy when it is     *)
(* written: what it does to the status and the refresh token (CopyKept),   *)
(* and, until callbacks race, whose mailbox it is (MailboxInv), which row  *)
(* may be active then (OneActive) and what Gmail pushes for it (WatchInv). *)
(***************************************************************************)
EXTENDS GmailConnections, FiniteSetTheorems, SequenceTheorems, TLAPS

-----------------------------------------------------------------------------
\* The inductive invariant.

CallbackPlaces == {"retire", "lookup", "attach"}
OnARow  == {"retire", "using", "refreshed", "watching", "commit"}
Holding == OnARow \cup {"attach"}
Callers == {"poll", "scan_now", "test", "review"} \cup WatchOps

\* What a request does and has in its hands at each place.
Shape(r) ==
    /\ at[r] = "idle" <=> op[r] = "none"
    /\ at[r] = "idle" => row_id[r] = 0
    /\ at[r] \in CallbackPlaces <=> op[r] = "callback"
    /\ op[r] = "callback" => account[r] \in Mailbox
    /\ at[r] = "using" => op[r] \in Callers
    /\ at[r] \in {"refreshed", "watching"} => op[r] \in WatchOps
    /\ at[r] \in Holding => was[r] \in Connection /\ now[r] \in Connection
    /\ at[r] \in OnARow => row_id[r] \in DOMAIN rows
    /\ at[r] = "attach" => row_id[r] \in {0} \cup DOMAIN rows

TypeInv ==
    /\ TypeOK
    /\ DOMAIN was = Req /\ DOMAIN now = Req
    /\ \A r \in Req : Shape(r)

\* Callbacks do not overlap.
Apart == \A r, q \in Req : op[r] = "callback" /\ op[q] = "callback" => r = q

\* A mailbox has one row, and nobody changes whose row it is; ...
MailboxesDiffer ==
    \A i, j \in DOMAIN rows : rows[i].mailbox_email = rows[j].mailbox_email => i = j

SameMailbox(r) ==
    at[r] \in Holding =>
        /\ was[r].mailbox_email = now[r].mailbox_email
        /\ row_id[r] # 0 => was[r].mailbox_email = rows[row_id[r]].mailbox_email
        /\ row_id[r] = 0 => \A i \in DOMAIN rows :
                                rows[i].mailbox_email # now[r].mailbox_email

MailboxInv == MailboxesDiffer /\ \A r \in Req : SameMailbox(r)

\* An active row is the only one, and the one a callback goes about.
OneActive ==
    /\ \A i, j \in ActiveIds : i = j
    /\ \A i \in ActiveIds, r \in Req :
          /\ at[r] \in {"retire", "attach"} => i = row_id[r]
          /\ at[r] = "lookup" => rows[i].mailbox_email = account[r]

\* A disconnected row has no refresh token, but where callbacks and
\* disconnections overlap.
NoToken(row) == row.connection_status = "disconnected" => row.refresh_token = 0

TokenInv == \A i \in DOMAIN rows : i \notin outdated => NoToken(rows[i])

\* What a request has done to its copy: it disconnects it, or leaves the
\* refresh token and at most changes from one active status to another.
Disconnects(r) ==
    now[r].connection_status = "disconnected" /\ now[r].refresh_token = 0

CopyKept(r) ==
    /\ at[r] = "retire" => /\ Disconnects(r)
                           /\ was[r].connection_status # "disconnected"
    /\ at[r] \in {"using", "refreshed", "watching"} =>
           /\ now[r].connection_status = was[r].connection_status
           /\ now[r].refresh_token = was[r].refresh_token
    /\ at[r] = "commit" /\ op[r] = "disconnect" => Disconnects(r)
    /\ at[r] = "commit" /\ op[r] # "disconnect" =>
           /\ now[r].refresh_token = was[r].refresh_token
           /\ now[r].connection_status \in
                  {was[r].connection_status, "connected", "paused", "revoked"}
    /\ at[r] = "attach" =>
           /\ now[r].connection_status \in {was[r].connection_status, "connected"}
           /\ NoToken(now[r])
           /\ row_id[r] = 0 => /\ was[r].connection_status = "connected"
                               /\ was[r].monitoring_mode = "polling"

RowsInv ==
    /\ TypeInv
    /\ \A r \in Req : CopyKept(r)
    /\ TokenInv
    /\ ~raced => Apart /\ MailboxInv /\ OneActive

-----------------------------------------------------------------------------
\* Rows and what a commit makes of them.

\* What Updated does to a row, column by column.
LEMMA UpdatedColumns ==
  ASSUME NEW row \in Connection, NEW old \in Connection, NEW new \in Connection,
         NEW u, u = Updated(row, old, new)
  PROVE  /\ u \in Connection
         /\ u.mailbox_email = IF new.mailbox_email # old.mailbox_email
                              THEN new.mailbox_email ELSE row.mailbox_email
         /\ u.connection_status = IF new.connection_status # old.connection_status
                                  THEN new.connection_status ELSE row.connection_status
         /\ u.refresh_token = IF new.refresh_token # old.refresh_token
                              THEN new.refresh_token ELSE row.refresh_token
         /\ u.monitoring_mode = IF new.monitoring_mode # old.monitoring_mode
                                THEN new.monitoring_mode ELSE row.monitoring_mode
         /\ u.last_watch_expiration =
                IF new.last_watch_expiration # old.last_watch_expiration
                THEN new.last_watch_expiration ELSE row.last_watch_expiration
BY DEF Updated, Connection, Status, Mode

LEMMA MarkedColumns ==
  ASSUME NEW row \in Connection, NEW u, u = MarkDisconnected(row)
  PROVE  /\ u \in Connection
         /\ u.mailbox_email = row.mailbox_email
         /\ u.connection_status = "disconnected"
         /\ u.refresh_token = 0
         /\ u.monitoring_mode = row.monitoring_mode
         /\ u.last_watch_expiration = row.last_watch_expiration
BY DEF MarkDisconnected, Connection, Status

LEMMA NewColumns ==
  ASSUME NEW mailbox \in Mailbox, NEW u, u = NewConnection(mailbox)
  PROVE  /\ u \in Connection
         /\ u.mailbox_email = mailbox
         /\ u.connection_status = "connected"
         /\ u.refresh_token = 0
         /\ u.monitoring_mode = "polling"
         /\ u.last_watch_expiration = 0
BY DEF NewConnection, Connection, Status, Mode

\* A command leaves the mailbox and its watch alone, and the refresh token
\* unless it disconnects.
LEMMA CommandColumns ==
  ASSUME NEW row \in Connection, NEW what \in {"disconnect", "pause", "resume"},
         NEW u, u = Command(what, row)
  PROVE  /\ u \in Connection
         /\ u.mailbox_email = row.mailbox_email
         /\ what = "disconnect" => /\ u.connection_status = "disconnected"
                                   /\ u.refresh_token = 0
         /\ what # "disconnect" => /\ u.connection_status \in {"connected", "paused"}
                                   /\ u.refresh_token = row.refresh_token
         /\ u.monitoring_mode = row.monitoring_mode
         /\ u.last_watch_expiration = row.last_watch_expiration
<1>1. CASE what = "disconnect"
  BY <1>1, MarkedColumns DEF Command
<1>2. CASE what = "pause"
  BY <1>2 DEF Command, Connection, Status
<1>3. CASE what = "resume"
  BY <1>3 DEF Command, Connection, Status
<1> QED
  BY <1>1, <1>2, <1>3

LEMMA RowsType ==
  ASSUME TypeInv
  PROVE  /\ Len(rows) \in Nat /\ DOMAIN rows = 1..Len(rows)
         /\ \A i \in DOMAIN rows : rows[i] \in Connection
BY LenProperties DEF TypeInv, TypeOK

\* What a write of r makes of the table: row_id[r] is updated or a row is
\* added after the last.
Added(r) == IF row_id[r] = 0 THEN Len(rows) + 1 ELSE row_id[r]

LEMMA RowsWritten ==
  ASSUME TypeInv, NEW r \in Req, at[r] \in Holding, Write(r)
  PROVE  /\ rows' \in Seq(Connection)
         /\ DOMAIN rows' = DOMAIN rows \cup {Added(r)}
         /\ \A i \in DOMAIN rows \ {Added(r)} : rows'[i] = rows[i]
         /\ row_id[r] # 0 =>
                /\ row_id[r] \in DOMAIN rows
                /\ rows'[row_id[r]] = Updated(rows[row_id[r]], was[r], now[r])
         /\ row_id[r] = 0 => rows'[Len(rows) + 1] = now[r]
<1>1. /\ now[r] \in Connection /\ was[r] \in Connection
      /\ row_id[r] \in {0} \cup DOMAIN rows
      /\ rows \in Seq(Connection)
  BY DEF TypeInv, TypeOK, Shape, Holding
<1>2. /\ Len(rows) \in Nat /\ DOMAIN rows = 1..Len(rows)
      /\ \A i \in DOMAIN rows : rows[i] \in Connection
  BY RowsType
<1>3. CASE row_id[r] = 0
  BY <1>1, <1>2, <1>3, AppendProperties DEF Write, Added
<1>4. CASE row_id[r] # 0
  <2> DEFINE u == Updated(rows[row_id[r]], was[r], now[r])
  <2>1. u \in Connection
    BY <1>1, <1>2, <1>4, UpdatedColumns
  <2>2. rows' = [rows EXCEPT ![row_id[r]] = u]
    BY <1>1, <1>4 DEF Write
  <2> QED
    BY <1>1, <1>2, <1>4, <2>1, <2>2, ExceptSeq DEF Added
<1> QED
  BY <1>3, <1>4

-----------------------------------------------------------------------------
\* Types and places.

LEMMA Basics ==
  ASSUME TypeInv
  PROVE  /\ rows \in Seq(Connection) /\ issued \in Nat
         /\ at \in [Req -> Place] /\ op \in [Req -> OpNames \cup {"none"}]
         /\ row_id \in [Req -> Nat] /\ DOMAIN was = Req /\ DOMAIN now = Req
         /\ account \in [Req -> Mailbox \cup {"none"}]
         /\ granted \in [Req -> BOOLEAN]
         /\ requests_left \in 0..MaxRequests
         /\ tick \in 0..MaxTicks /\ renewal \in {"to come", "done"}
         /\ armed \in [Mailbox -> 0..MaxTicks + WatchFor]
         /\ crossed \cup lapsed \cup outdated \subseteq DOMAIN rows
         /\ raced \in BOOLEAN
BY DEF TypeInv, TypeOK

LEMMA Numbers ==
  /\ MaxTicks \in Nat /\ WatchFor \in Nat /\ RenewWithin \in Nat /\ Day \in Nat \ {0}
  /\ Jitter \in Nat /\ Jitter < Day
  /\ TypeInv => issued \in Nat /\ tick \in Nat /\ tick <= MaxTicks
<1>1. /\ MaxTicks \in Nat /\ WatchFor \in Nat /\ RenewWithin \in Nat
      /\ Day \in Nat \ {0} /\ Jitter \in Nat /\ Jitter < Day
  BY GmailConnectionsAssumption
<1>2. TypeInv => issued \in Nat /\ tick \in 0..MaxTicks
  BY DEF TypeInv, TypeOK
<1> QED
  BY <1>1, <1>2

LEMMA OthersKeep ==
  ASSUME TypeInv, NEW r \in Req, Request(r), NEW q \in Req, q # r
  PROVE  /\ at'[q] = at[q] /\ op'[q] = op[q] /\ row_id'[q] = row_id[q]
         /\ was'[q] = was[q] /\ now'[q] = now[q]
         /\ account'[q] = account[q] /\ granted'[q] = granted[q]
<1> USE DEF TypeInv, TypeOK, Goes, Hold, Ends
<1>1. ASSUME NEW mailbox \in Mailbox, Callback(r, mailbox)
      PROVE  /\ at'[q] = at[q] /\ op'[q] = op[q] /\ row_id'[q] = row_id[q]
             /\ was'[q] = was[q] /\ now'[q] = now[q]
             /\ account'[q] = account[q] /\ granted'[q] = granted[q]
  BY <1>1 DEF Callback, Starts
<1>2. ASSUME NEW what \in OpNames, Order(r, what) \/ Use(r, what)
      PROVE  /\ at'[q] = at[q] /\ op'[q] = op[q] /\ row_id'[q] = row_id[q]
             /\ was'[q] = was[q] /\ now'[q] = now[q]
             /\ account'[q] = account[q] /\ granted'[q] = granted[q]
  BY ZenonT(40), <1>2 DEF Order, Use, Starts
<1>3. CASE Retire(r) \/ Lookup(r) \/ Attach(r)
  BY ZenonT(40), <1>3 DEF Retire, Lookup, Attach
<1>4. CASE Refreshed(r) \/ Refused(r) \/ Commit(r) \/ Leave(r)
  BY <1>4 DEF Refreshed, Refused, Commit, Leave
<1>5. CASE ServiceBuilt(r) \/ Arm(r) \/ Disarm(r)
  BY <1>5 DEF ServiceBuilt, Arm, Disarm
<1> QED
  BY <1>1, <1>2, <1>3, <1>4, <1>5 DEF Request

\* What a request's step leaves well typed, besides the other requests.
Typed(r) ==
    /\ rows' \in Seq(Connection) /\ DOMAIN rows \subseteq DOMAIN rows'
    /\ issued' \in Nat
    /\ at' \in [Req -> Place] /\ op' \in [Req -> OpNames \cup {"none"}]
    /\ row_id' \in [Req -> Nat]
    /\ DOMAIN was' = Req /\ DOMAIN now' = Req
    /\ account' \in [Req -> Mailbox \cup {"none"}]
    /\ granted' \in [Req -> BOOLEAN]
    /\ requests_left' \in 0..MaxRequests
    /\ tick' = tick /\ renewal' \in {"to come", "done"}
    /\ armed' \in [Mailbox -> 0..MaxTicks + WatchFor]
    /\ crossed' \cup lapsed' \cup outdated' \subseteq DOMAIN rows'
    /\ raced' \in BOOLEAN
    /\ Shape(r)'

LEMMA TypedSuffices ==
  ASSUME TypeInv, NEW r \in Req, Request(r), Typed(r)
  PROVE  TypeInv'
<1>1. ASSUME NEW q \in Req PROVE Shape(q)'
  <2>1. CASE q = r
    BY <2>1 DEF Typed
  <2>2. CASE q # r
    <3>1. /\ at'[q] = at[q] /\ op'[q] = op[q] /\ row_id'[q] = row_id[q]
          /\ was'[q] = was[q] /\ now'[q] = now[q] /\ account'[q] = account[q]
      BY <2>2, OthersKeep
    <3>2. Shape(q) /\ DOMAIN rows \subseteq DOMAIN rows'
      BY DEF TypeInv, Typed
    <3> QED
      BY <3>1, <3>2 DEF Shape
  <2> QED
    BY <2>1, <2>2
<1>2. Len(rows)' \in Nat /\ DOMAIN rows' = 1..Len(rows')
  BY LenProperties DEF Typed
<1>3. ASSUME NEW q \in Req, at'[q] \notin {"idle", "lookup"}
      PROVE  /\ was'[q] \in Connection /\ now'[q] \in Connection
             /\ row_id'[q] \in 0..Len(rows')
  <2>1. at'[q] \in Holding
    BY <1>3 DEF Typed, Place, Holding, OnARow
  <2> QED
    BY <1>1, <1>2, <2>1 DEF Shape, Holding
<1> QED
  BY <1>1, <1>3 DEF Typed, TypeInv, TypeOK

LEMMA StartsTyped ==
  ASSUME TypeInv, NEW r \in Req, NEW what, Starts(r, what)
  PROVE  /\ at[r] = "idle" /\ what \in OpNames
         /\ op' = [op EXCEPT ![r] = what]
         /\ requests_left' \in 0..MaxRequests /\ renewal' \in {"to come", "done"}
<1>1. /\ requests_left \in 0..MaxRequests /\ renewal \in {"to come", "done"}
      /\ MaxRequests \in Nat /\ Ops \subseteq OpNames
  BY GmailConnectionsAssumption DEF TypeInv, TypeOK
<1>2. at[r] = "idle" /\ what \in OpNames /\ op' = [op EXCEPT ![r] = what]
  BY <1>1 DEF Starts
<1>3. CASE what = "renew"
  BY <1>1, <1>2, <1>3 DEF Starts
<1>4. CASE what # "renew"
  <2>1. requests_left > 0 /\ requests_left' = requests_left - 1 /\ renewal' = renewal
    BY <1>4 DEF Starts
  <2>2. requests_left - 1 \in 0..MaxRequests
    <3>1. MaxRequests \in Nat /\ requests_left \in 0..MaxRequests
      BY <1>1
    <3> QED
      BY <2>1, <3>1
  <2> QED
    BY <1>1, <1>2, <2>1, <2>2
<1> QED
  BY <1>3, <1>4

\* A request that starts with a row in its hands.
LEMMA TypedStart ==
  ASSUME TypeInv, NEW r \in Req, NEW what, NEW place \in {"retire", "using", "commit"},
         NEW i \in DOMAIN rows, NEW new \in Connection,
         Starts(r, what), Hold(r, i, rows[i], new), Goes(r, place),
         account' \in [Req -> Mailbox \cup {"none"}], granted' \in [Req -> BOOLEAN],
         UNCHANGED <<rows, issued, tick, armed, lapsed, outdated>>,
         crossed' \subseteq DOMAIN rows, raced' \in BOOLEAN,
         place = "retire" <=> what = "callback",
         what = "callback" => account'[r] \in Mailbox,
         place = "using" => what \in Callers
  PROVE  Typed(r)
<1>1. /\ at[r] = "idle" /\ what \in OpNames
      /\ op' = [op EXCEPT ![r] = what]
      /\ requests_left' \in 0..MaxRequests /\ renewal' \in {"to come", "done"}
  BY StartsTyped
<1>2. rows[i] \in Connection /\ i \in Nat
  BY RowsType
<1>3. /\ at' \in [Req -> Place] /\ op' \in [Req -> OpNames \cup {"none"}]
      /\ row_id' \in [Req -> Nat] /\ DOMAIN was' = Req /\ DOMAIN now' = Req
  BY <1>1, <1>2, Basics DEF Goes, Hold, Place
<1>4. /\ at'[r] = place /\ op'[r] = what /\ row_id'[r] = i
      /\ was'[r] = rows[i] /\ now'[r] = new
  BY <1>1, Basics DEF Goes, Hold
<1>5. Shape(r)'
  BY <1>1, <1>2, <1>4 DEF Shape, OpNames, CallbackPlaces, OnARow, Holding
<1> QED
  BY <1>1, <1>3, <1>5, Basics DEF Typed

LEMMA TypedCallback ==
  ASSUME TypeInv, NEW r \in Req, NEW mailbox \in Mailbox, Callback(r, mailbox)
  PROVE  Typed(r)
<1>1. Starts(r, "callback")
  BY DEF Callback
<1>2. /\ account' \in [Req -> Mailbox \cup {"none"}] /\ granted' \in [Req -> BOOLEAN]
      /\ account'[r] = mailbox
      /\ UNCHANGED <<rows, issued, tick, armed, crossed, lapsed, outdated>>
      /\ raced' \in BOOLEAN
  BY Basics DEF Callback
<1>3. CASE \E i \in ActiveIds : /\ Goes(r, "retire")
                                /\ Hold(r, i, rows[i], MarkDisconnected(rows[i]))
  <2>1. PICK i \in DOMAIN rows : /\ Goes(r, "retire")
                                 /\ Hold(r, i, rows[i], MarkDisconnected(rows[i]))
    BY <1>3 DEF ActiveIds
  <2>2. MarkDisconnected(rows[i]) \in Connection
    BY RowsType, MarkedColumns
  <2> QED
    BY <1>1, <1>2, <2>1, <2>2, TypedStart, Basics
<1>4. CASE Goes(r, "lookup") /\ UNCHANGED <<row_id, was, now>>
  <2>1. /\ op' = [op EXCEPT ![r] = "callback"]
        /\ requests_left' \in 0..MaxRequests /\ renewal' \in {"to come", "done"}
    BY <1>1, StartsTyped
  <2>2. at'[r] = "lookup" /\ op'[r] = "callback"
    BY <1>4, <2>1, Basics DEF Goes
  <2>3. Shape(r)'
    BY <1>2, <2>2 DEF Shape, CallbackPlaces, OnARow, Holding
  <2>4. at' \in [Req -> Place] /\ op' \in [Req -> OpNames \cup {"none"}]
    BY <1>4, <2>1, Basics DEF Goes, Place, OpNames
  <2> QED
    BY <1>2, <1>4, <2>1, <2>3, <2>4, Basics DEF Typed
<1> QED
  BY <1>3, <1>4 DEF Callback

LEMMA TypedOrder ==
  ASSUME TypeInv, NEW r \in Req, NEW what \in OpNames, Order(r, what)
  PROVE  Typed(r)
<1>1. Starts(r, what) /\ what \in {"disconnect", "pause", "resume"}
  BY DEF Order
<1>2. PICK i \in DOMAIN rows : Hold(r, i, rows[i], Command(what, rows[i]))
  BY DEF Order, ActiveIds
<1>3. Command(what, rows[i]) \in Connection
  BY <1>1, RowsType, CommandColumns
<1> QED
  BY <1>1, <1>2, <1>3, TypedStart, Basics DEF Order, races

LEMMA TypedUse ==
  ASSUME TypeInv, NEW r \in Req, NEW what \in OpNames, Use(r, what)
  PROVE  Typed(r)
<1>1. Starts(r, what) /\ what \in Callers /\ what # "callback"
  BY DEF Use, Callers, WatchOps
<1>2. PICK i \in DOMAIN rows : /\ Hold(r, i, rows[i], rows[i])
                               /\ crossed' \in {crossed, crossed \cup {i}}
  BY DEF Use
<1>3. rows[i] \in Connection /\ crossed' \subseteq DOMAIN rows
  BY <1>2, RowsType, Basics
<1> QED
  BY <1>1, <1>2, <1>3, TypedStart, Basics DEF Use, races

\* A request that goes on, with its row and its work, to a later place.
LEMMA TypedOn ==
  ASSUME TypeInv, NEW r \in Req, NEW place \in Place \ {"idle"}, Goes(r, place),
         rows' \in Seq(Connection), DOMAIN rows \subseteq DOMAIN rows', issued' \in Nat,
         row_id' \in [Req -> Nat], DOMAIN was' = Req, DOMAIN now' = Req,
         UNCHANGED <<op, account, granted, requests_left, tick, renewal, crossed>>,
         armed' \in [Mailbox -> 0..MaxTicks + WatchFor],
         lapsed' \cup outdated' \subseteq DOMAIN rows', raced' \in BOOLEAN,
         Shape(r)'
  PROVE  Typed(r)
<1>1. at' \in [Req -> Place]
  BY Basics DEF Goes
<1> QED
  BY <1>1, Basics DEF Typed

LEMMA TypedEnd ==
  ASSUME TypeInv, NEW r \in Req, Ends(r),
         rows' \in Seq(Connection), DOMAIN rows \subseteq DOMAIN rows',
         UNCHANGED <<issued, requests_left, tick, renewal, armed, crossed>>,
         lapsed' \cup outdated' \subseteq DOMAIN rows', raced' \in BOOLEAN
  PROVE  Typed(r)
<1>1. /\ at' \in [Req -> Place] /\ op' \in [Req -> OpNames \cup {"none"}]
      /\ row_id' \in [Req -> Nat] /\ DOMAIN was' = Req /\ DOMAIN now' = Req
      /\ account' \in [Req -> Mailbox \cup {"none"}] /\ granted' \in [Req -> BOOLEAN]
  BY Basics DEF Ends, Goes, Hold, Place
<1>2. at'[r] = "idle" /\ op'[r] = "none" /\ row_id'[r] = 0
  BY Basics DEF Ends, Goes, Hold
<1>3. Shape(r)'
  BY <1>2 DEF Shape, CallbackPlaces, OnARow, Holding
<1> QED
  BY <1>1, <1>3, Basics DEF Typed

\* The note of a stale copy: the row of r is out of it only if r has seen its
\* status and its refresh token as they are.
LEMMA StaleNoted ==
  ASSUME TypeInv, NEW r \in Req, at[r] \in Holding, NoteStale(r)
  PROVE  /\ outdated' \subseteq DOMAIN rows
         /\ \A i \in DOMAIN rows : i # row_id[r] => (i \in outdated' <=> i \in outdated)
         /\ row_id[r] # 0 /\ row_id[r] \notin outdated' =>
                /\ was[r].connection_status = rows[row_id[r]].connection_status
                /\ was[r].refresh_token = rows[row_id[r]].refresh_token
<1>1. row_id[r] \in {0} \cup DOMAIN rows /\ outdated \subseteq DOMAIN rows
  BY Basics DEF TypeInv, Shape, Holding
<1>2. 0 \notin DOMAIN rows
  BY RowsType
<1> QED
  BY <1>1, <1>2 DEF NoteStale, Stale

LEMMA TypedRetire ==
  ASSUME TypeInv, NEW r \in Req, Retire(r)
  PROVE  Typed(r)
<1>1. /\ at[r] = "retire" /\ Write(r) /\ Goes(r, "lookup")
      /\ lapsed' = lapsed \cup {row_id[r]} /\ NoteStale(r)
      /\ UNCHANGED <<tick, renewal, armed, crossed, issued, op, row_id, was, now,
                     account, granted, requests_left, raced>>
  BY DEF Retire
<1>2. Shape(r) /\ row_id[r] \in DOMAIN rows /\ op[r] = "callback"
  BY <1>1 DEF TypeInv, Shape, OnARow, CallbackPlaces
<1>3. rows' \in Seq(Connection) /\ DOMAIN rows \subseteq DOMAIN rows'
  BY <1>1, RowsWritten DEF Holding, OnARow
<1>4. at'[r] = "lookup" /\ op'[r] = op[r] /\ account'[r] = account[r]
  BY <1>1, Basics DEF Goes
<1>5. Shape(r)'
  BY <1>2, <1>4 DEF Shape, OnARow, Holding, CallbackPlaces
<1>6. outdated' \subseteq DOMAIN rows
  BY <1>1, StaleNoted DEF Holding, OnARow
<1> QED
  BY <1>1, <1>2, <1>3, <1>5, <1>6, TypedOn, Basics DEF Place

\* What the callback makes of the mailbox's latest row, or of a new one.
LEMMA LookupRow ==
  ASSUME TypeInv, NEW r \in Req, Lookup(r)
  PROVE  \E id \in {0} \cup DOMAIN rows, row \in Connection, new \in Connection :
            /\ id = 0 => row = NewConnection(account[r]) /\ RowsOf(account[r]) = {}
            /\ id # 0 => row = rows[id]
            /\ row.mailbox_email = account[r]
            /\ Hold(r, id, row, new)
            /\ issued' \in {issued, issued + 1}
            /\ new.mailbox_email = row.mailbox_email
            /\ new.monitoring_mode = row.monitoring_mode
            /\ new.last_watch_expiration = row.last_watch_expiration
            /\ \/ new = row /\ row.refresh_token = 0
               \/ new.connection_status = "connected"
<1>1. account[r] \in Mailbox
  BY DEF TypeInv, Shape, Lookup, CallbackPlaces
<1>2. PICK id \in {0} \cup DOMAIN rows :
         LET row == IF id = 0 THEN NewConnection(account[r]) ELSE rows[id]
         IN /\ IsLatest(id, account[r])
            /\ IF granted[r] \/ row.refresh_token # 0
               THEN /\ Hold(r, id, row,
                         [row EXCEPT !.refresh_token =
                                         IF granted[r] THEN issued + 1 ELSE @,
                                     !.connection_status = "connected",
                                     !.protection_enabled = "on"])
                    /\ issued' = issued + 1
               ELSE Hold(r, id, row, row) /\ UNCHANGED issued
  BY DEF Lookup
<1> DEFINE row   == IF id = 0 THEN NewConnection(account[r]) ELSE rows[id]
           token == IF granted[r] THEN issued + 1 ELSE row.refresh_token
           new   == [row EXCEPT !.refresh_token = token,
                                !.connection_status = "connected",
                                !.protection_enabled = "on"]
<1>3. \/ Hold(r, id, row, new) /\ issued' = issued + 1
      \/ Hold(r, id, row, row) /\ issued' = issued /\ row.refresh_token = 0
  BY <1>2
<1>4. /\ row \in Connection /\ row.mailbox_email = account[r]
      /\ id = 0 => row = NewConnection(account[r]) /\ RowsOf(account[r]) = {}
      /\ id # 0 => row = rows[id]
  <2>0. 0 \notin DOMAIN rows
    BY RowsType
  <2>1. CASE id = 0
    BY <1>1, <1>2, <2>0, <2>1, NewColumns DEF IsLatest, RowsOf
  <2>2. CASE id # 0
    BY <1>2, <2>2, RowsType DEF IsLatest, RowsOf
  <2> QED
    BY <2>1, <2>2
<1> HIDE DEF row
<1>5. token \in Nat
  <2>1. issued \in Nat /\ row.refresh_token \in Nat
    BY <1>4, Basics DEF Connection
  <2> QED
    BY <2>1
<1> HIDE DEF token
<1>6. /\ new \in Connection
      /\ new.mailbox_email = row.mailbox_email
      /\ new.monitoring_mode = row.monitoring_mode
      /\ new.last_watch_expiration = row.last_watch_expiration
      /\ new.connection_status = "connected"
  BY <1>4, <1>5 DEF Connection, Status
<1> HIDE DEF new
<1>7. CASE Hold(r, id, row, new) /\ issued' = issued + 1
  BY <1>4, <1>6, <1>7
<1>8. CASE Hold(r, id, row, row) /\ issued' = issued /\ row.refresh_token = 0
  BY <1>4, <1>8
<1> QED
  BY <1>3, <1>7, <1>8

LEMMA TypedLookup ==
  ASSUME TypeInv, NEW r \in Req, Lookup(r)
  PROVE  Typed(r)
<1>1. PICK id \in {0} \cup DOMAIN rows, row \in Connection, new \in Connection :
         Hold(r, id, row, new) /\ issued' \in {issued, issued + 1}
  BY LookupRow
<1>2. /\ at[r] = "lookup" /\ Goes(r, "attach")
      /\ UNCHANGED <<rows, op, account, granted, requests_left, watch, races>>
  BY DEF Lookup
<1>3. op[r] = "callback" /\ account[r] \in Mailbox
  BY <1>2 DEF TypeInv, Shape, CallbackPlaces
<1>4. /\ at'[r] = "attach" /\ op'[r] = op[r] /\ account'[r] = account[r]
      /\ row_id'[r] = id /\ was'[r] = row /\ now'[r] = new /\ rows' = rows
  BY <1>1, <1>2, Basics DEF Goes, Hold
<1>5. Shape(r)'
  BY <1>3, <1>4 DEF Shape, OnARow, Holding, CallbackPlaces
<1>6. id \in Nat /\ issued' \in Nat
  <2>1. id \in Nat
    BY <1>1, RowsType
  <2>2. issued \in Nat
    BY Basics
  <2> QED
    BY <1>1, <2>1, <2>2
<1>7. row_id' \in [Req -> Nat] /\ DOMAIN was' = Req /\ DOMAIN now' = Req
  BY <1>1, <1>6, Basics DEF Hold
<1>8. /\ UNCHANGED <<rows, op, account, granted, requests_left, tick, renewal, crossed>>
      /\ armed' = armed /\ lapsed' = lapsed /\ raced' = raced /\ outdated' = outdated
  BY <1>2 DEF watch, races
<1>9. armed' \in [Mailbox -> 0..MaxTicks + WatchFor]
      /\ lapsed' \cup outdated' \subseteq DOMAIN rows' /\ raced' \in BOOLEAN
      /\ rows' \in Seq(Connection) /\ DOMAIN rows \subseteq DOMAIN rows'
  BY <1>8, Basics
<1> QED
  BY <1>2, <1>5, <1>6, <1>7, <1>8, <1>9, TypedOn DEF Place

LEMMA TypedAttach ==
  ASSUME TypeInv, NEW r \in Req, Attach(r)
  PROVE  Typed(r)
<1>1. rows' \in Seq(Connection) /\ DOMAIN rows \subseteq DOMAIN rows'
  BY RowsWritten DEF Attach, Holding
<1>2. /\ Ends(r)
      /\ UNCHANGED <<issued, requests_left, tick, renewal, armed, crossed, lapsed, raced>>
  BY DEF Attach, watch
<1>3. outdated' \subseteq DOMAIN rows
  BY StaleNoted DEF Attach, Holding
<1> QED
  BY <1>1, <1>2, <1>3, TypedEnd, Basics

LEMMA TypedCommit ==
  ASSUME TypeInv, NEW r \in Req, Commit(r)
  PROVE  Typed(r)
<1>1. rows' \in Seq(Connection) /\ DOMAIN rows \subseteq DOMAIN rows'
  BY RowsWritten DEF Commit, Holding, OnARow
<1>2. Ends(r) /\ UNCHANGED <<issued, requests_left, tick, renewal, armed, crossed>>
  BY DEF Commit
<1>3. row_id[r] \in DOMAIN rows
  BY DEF TypeInv, Shape, Commit, OnARow
<1>4. lapsed' \subseteq lapsed \cup {row_id[r]} /\ raced' \in BOOLEAN
  BY DEF Commit
<1>5. outdated' \subseteq DOMAIN rows
  BY StaleNoted, Basics DEF Commit, Holding, OnARow
<1> QED
  BY <1>1, <1>2, <1>3, <1>4, <1>5, TypedEnd, Basics

LEMMA TypedLeave ==
  ASSUME TypeInv, NEW r \in Req, Leave(r)
  PROVE  Typed(r)
<1>1. /\ Ends(r)
      /\ UNCHANGED <<rows, issued, requests_left, tick, renewal, armed, crossed>>
      /\ raced' = raced /\ outdated' = outdated
  BY DEF Leave, races
<1>2. lapsed' # lapsed => row_id[r] \in DOMAIN rows /\ lapsed' = lapsed \cup {row_id[r]}
  <2>1. lapsed' # lapsed => op[r] \in {"renew", "watch_stop"} /\ lapsed' = lapsed \cup {row_id[r]}
    BY DEF Leave
  <2>2. op[r] \in {"renew", "watch_stop"} => at[r] \in OnARow
    BY Basics DEF TypeInv, Shape, CallbackPlaces, OnARow, Place
  <2> QED
    BY <2>1, <2>2 DEF TypeInv, Shape
<1>3. lapsed' \subseteq DOMAIN rows
  BY <1>2, Basics
<1> QED
  BY <1>1, <1>3, TypedEnd, Basics

\* A new access token, refused or given, leaves the mailbox and its watch.
LEMMA RefreshedColumns ==
  ASSUME TypeInv, NEW r \in Req, Refreshed(r)
  PROVE  /\ now[r] \in Connection /\ now'[r] \in Connection
         /\ now'[r].mailbox_email = now[r].mailbox_email
         /\ now'[r].connection_status = now[r].connection_status
         /\ now'[r].refresh_token = now[r].refresh_token
         /\ now'[r].monitoring_mode = now[r].monitoring_mode
         /\ now'[r].last_watch_expiration = now[r].last_watch_expiration
<1>1. now[r] \in Connection
  BY DEF TypeInv, Shape, Refreshed, Holding, OnARow
<1> QED
  BY <1>1 DEF Refreshed

LEMMA RefusedColumns ==
  ASSUME TypeInv, NEW r \in Req, Refused(r)
  PROVE  /\ now[r] \in Connection /\ now'[r] \in Connection
         /\ now'[r].mailbox_email = now[r].mailbox_email
         /\ now'[r].connection_status = "revoked"
         /\ now'[r].refresh_token = now[r].refresh_token
         /\ now'[r].monitoring_mode = now[r].monitoring_mode
         /\ now'[r].last_watch_expiration = now[r].last_watch_expiration
<1>1. now[r] \in Connection
  BY DEF TypeInv, Shape, Refused, Holding, OnARow
<1>2. now'[r] = [now[r] EXCEPT !.connection_status = "revoked", !.protection_enabled = "off"]
  BY Basics DEF Refused
<1> QED
  BY <1>1, <1>2 DEF Connection, Status

LEMMA ArmColumns ==
  ASSUME TypeInv, NEW r \in Req, Arm(r)
  PROVE  /\ now[r] \in Connection /\ now'[r] \in Connection
         /\ now'[r].mailbox_email = now[r].mailbox_email
         /\ now'[r].connection_status = now[r].connection_status
         /\ now'[r].refresh_token = now[r].refresh_token
         /\ now'[r].monitoring_mode = "push"
         /\ now'[r].last_watch_expiration = tick + WatchFor
<1>1. now[r] \in Connection
  BY DEF TypeInv, Shape, Arm, Holding, OnARow
<1>2. tick + WatchFor \in Nat
  BY Numbers
<1>3. now'[r] = [now[r] EXCEPT !.monitoring_mode = "push",
                               !.last_watch_expiration = tick + WatchFor]
  BY Basics DEF Arm
<1> QED
  BY <1>1, <1>2, <1>3 DEF Connection, Mode

LEMMA DisarmColumns ==
  ASSUME TypeInv, NEW r \in Req, Disarm(r)
  PROVE  /\ now[r] \in Connection /\ now'[r] \in Connection
         /\ now'[r].mailbox_email = now[r].mailbox_email
         /\ now'[r].connection_status = now[r].connection_status
         /\ now'[r].refresh_token = now[r].refresh_token
         /\ now'[r].monitoring_mode = "polling"
         /\ now'[r].last_watch_expiration = 0
<1>1. now[r] \in Connection
  BY DEF TypeInv, Shape, Disarm, Holding, OnARow
<1>2. now'[r] = [now[r] EXCEPT !.monitoring_mode = "polling", !.last_watch_expiration = 0]
  BY Basics DEF Disarm
<1>3. 0 \in Nat /\ "polling" \in Mode
  BY DEF Mode
<1> QED
  BY <1>1, <1>2, <1>3 DEF Connection

LEMMA TypedInHand ==
  ASSUME TypeInv, NEW r \in Req, Refreshed(r) \/ Refused(r) \/ Arm(r) \/ Disarm(r)
  PROVE  Typed(r)
<1>1. now'[r] \in Connection
  BY RefreshedColumns, RefusedColumns, ArmColumns, DisarmColumns
<1>2. /\ at[r] \in {"using", "watching"} /\ op[r] \in Callers
      /\ Goes(r, "commit") \/ (Goes(r, "refreshed") /\ op[r] \in WatchOps)
      /\ UNCHANGED <<rows, op, row_id, was, account, granted, requests_left,
                     tick, renewal, crossed, raced, outdated>>
      /\ DOMAIN now' = Req
  BY Basics DEF Refreshed, Refused, Arm, Disarm, watch, races, TypeInv, Shape, Callers, WatchOps
<1>3. was[r] \in Connection /\ row_id[r] \in DOMAIN rows
  BY <1>2 DEF TypeInv, Shape, Holding, OnARow
<1>4. /\ at'[r] \in {"commit", "refreshed"} /\ (at'[r] = "refreshed" => op[r] \in WatchOps)
      /\ op'[r] = op[r] /\ was'[r] = was[r] /\ row_id'[r] = row_id[r]
  BY <1>2, Basics DEF Goes
<1>5. Shape(r)'
  BY <1>1, <1>2, <1>3, <1>4 DEF Shape, Holding, OnARow, CallbackPlaces, Callers, WatchOps
<1>6. armed' \in [Mailbox -> 0..MaxTicks + WatchFor]
  <2>1. tick + WatchFor \in 0..MaxTicks + WatchFor /\ 0 \in 0..MaxTicks + WatchFor
    BY Numbers
  <2>2. \/ armed' = armed
        \/ \E t \in {0, tick + WatchFor} :
              armed' = [armed EXCEPT ![now[r].mailbox_email] = t]
    BY DEF Refreshed, Refused, Arm, Disarm, watch
  <2> QED
    BY <2>1, <2>2, Basics
<1>7. issued' \in Nat
  <2>1. issued' = issued
    BY DEF Refreshed, Refused, Arm, Disarm
  <2> QED
    BY <2>1, Numbers
<1>8. lapsed' \subseteq DOMAIN rows
  <2>1. lapsed' \subseteq lapsed \cup {row_id[r]}
    BY DEF Refreshed, Refused, Arm, Disarm, watch
  <2> QED
    BY <1>3, <2>1, Basics
<1> QED
  BY <1>2, <1>5, <1>6, <1>7, <1>8, TypedOn, Basics DEF Place

LEMMA TypedServiceBuilt ==
  ASSUME TypeInv, NEW r \in Req, ServiceBuilt(r)
  PROVE  Typed(r)
<1>1. /\ op[r] \in WatchOps /\ Goes(r, "watching") /\ at[r] \in {"using", "refreshed"}
      /\ UNCHANGED <<issued, op, row_id, account, granted, requests_left, watch, races>>
  BY DEF ServiceBuilt
<1>2. was[r] \in Connection /\ now[r] \in Connection /\ row_id[r] \in DOMAIN rows
  BY <1>1 DEF TypeInv, Shape, Holding, OnARow
<1>3. /\ rows' \in Seq(Connection) /\ DOMAIN rows \subseteq DOMAIN rows'
      /\ DOMAIN was' = Req /\ DOMAIN now' = Req
      /\ was'[r] \in Connection /\ now'[r] \in Connection
  <2>1. CASE UNCHANGED <<rows, was, now>>
    BY <1>2, <2>1, Basics
  <2>2. CASE /\ Write(r)
             /\ was' = [was EXCEPT ![r] = rows'[row_id[r]]]
             /\ now' = [now EXCEPT ![r] = rows'[row_id[r]]]
    <3>1. rows' \in Seq(Connection) /\ DOMAIN rows \subseteq DOMAIN rows'
      BY <1>1, <2>2, RowsWritten DEF Holding, OnARow
    <3>2. rows'[row_id[r]] \in Connection
      BY <1>2, <3>1
    <3> QED
      BY <2>2, <3>1, <3>2, Basics
  <2> QED
    BY <2>1, <2>2 DEF ServiceBuilt
<1>4. at'[r] = "watching" /\ op'[r] = op[r] /\ row_id'[r] = row_id[r]
  BY <1>1, Basics DEF Goes
<1>5. Shape(r)'
  BY <1>1, <1>2, <1>3, <1>4 DEF Shape, Holding, OnARow, CallbackPlaces, WatchOps
<1>6. /\ armed' = armed /\ lapsed' = lapsed /\ UNCHANGED <<tick, renewal, crossed>>
      /\ raced' = raced /\ outdated' = outdated
  BY <1>1 DEF watch, races
<1> QED
  BY <1>1, <1>3, <1>5, <1>6, TypedOn, Basics DEF Place

LEMMA TypeNext == TypeInv /\ [Next]_vars => TypeInv'
<1> SUFFICES ASSUME TypeInv, [Next]_vars
             PROVE  TypeInv'
  OBVIOUS
<1>1. ASSUME NEW r \in Req, Request(r) PROVE TypeInv'
  <2>1. Typed(r)
    BY <1>1, TypedCallback, TypedRetire, TypedLookup, TypedAttach, TypedOrder, TypedUse,
       TypedInHand, TypedCommit, TypedLeave, TypedServiceBuilt DEF Request
  <2> QED
    BY <1>1, <2>1, TypedSuffices
<1>2. CASE RenewNothing
  <2>1. UNCHANGED <<rows, issued, session, requests_left, tick, armed, crossed, races>>
        /\ renewal' = "done" /\ lapsed' \subseteq lapsed \cup DOMAIN rows
    BY <1>2 DEF RenewNothing, ActiveIds
  <2> QED
    BY <2>1 DEF TypeInv, TypeOK, session, races, Shape
<1>3. CASE Tick
  <2>1. UNCHANGED <<rows, issued, session, requests_left, armed, crossed, lapsed, races>>
        /\ renewal' \in {"to come", "done"}
    BY <1>3, Basics DEF Tick
  <2>2. tick' \in 0..MaxTicks
    <3>1. tick < MaxTicks /\ tick' = tick + 1
      BY <1>3 DEF Tick
    <3> QED
      BY <3>1, Numbers
  <2> QED
    BY <2>1, <2>2 DEF TypeInv, TypeOK, session, races, Shape
<1>4. CASE UNCHANGED vars
  BY <1>4 DEF TypeInv, TypeOK, vars, session, watch, races, Shape
<1> QED
  BY <1>1, <1>2, <1>3, <1>4 DEF Next

LEMMA TypeInit == Init => TypeInv
<1> SUFFICES ASSUME Init PROVE TypeInv
  OBVIOUS
<1>1. Len(Connected) \in Nat /\ DOMAIN Connected = 1..Len(Connected)
      /\ \A i \in DOMAIN Connected : Connected[i] \in Mailbox
  BY GmailConnectionsAssumption, LenProperties
<1>2. \A i \in DOMAIN Connected : rows[i] \in Connection
  <2> SUFFICES ASSUME NEW i \in DOMAIN Connected PROVE rows[i] \in Connection
    OBVIOUS
  <2>1. i \in Nat
    BY <1>1
  <2>2. NewConnection(Connected[i]) \in Connection
    BY <1>1, NewColumns
  <2>3. rows[i] = [NewConnection(Connected[i]) EXCEPT !.refresh_token = i]
    BY DEF Init
  <2> QED
    BY <2>1, <2>2, <2>3 DEF Connection
<1>3. rows \in Seq(Connection) /\ DOMAIN rows = 1..Len(Connected)
  <2>1. DOMAIN rows = 1..Len(Connected) /\ rows = [i \in 1..Len(Connected) |-> rows[i]]
    BY <1>1 DEF Init
  <2>2. rows \in [1..Len(Connected) -> Connection]
    BY <1>1, <1>2, <2>1
  <2> QED
    BY <1>1, <2>1, <2>2, SeqDef
<1>4. /\ issued \in Nat /\ tick \in 0..MaxTicks /\ requests_left \in 0..MaxRequests
      /\ armed \in [Mailbox -> 0..MaxTicks + WatchFor]
  <2>1. issued \in Nat
    <3>1. issued = Len(Connected)
      BY DEF Init
    <3> QED
      BY <1>1, <3>1
  <2>2. tick = 0 /\ requests_left = MaxRequests /\ armed = [mailbox \in Mailbox |-> 0]
    BY DEF Init
  <2>3. 0 \in 0..MaxTicks /\ 0 \in 0..MaxTicks + WatchFor
    BY Numbers
  <2>4. MaxRequests \in 0..MaxRequests
    BY GmailConnectionsAssumption
  <2> QED
    BY <2>1, <2>2, <2>3, <2>4
<1>5. \A r \in Req : Shape(r)
  BY DEF Init, Shape, CallbackPlaces, Holding, OnARow
<1> QED
  BY <1>3, <1>4, <1>5 DEF Init, TypeInv, TypeOK, Place

-----------------------------------------------------------------------------
\* The kinds of step a request takes, as far as the rows go.

SameWatch(a, b) ==
    /\ a.monitoring_mode = b.monitoring_mode
    /\ a.last_watch_expiration = b.last_watch_expiration

\* It loads a row, ...
Takes(r) ==
    /\ rows' = rows /\ at[r] = "idle" /\ at'[r] \in {"retire", "using", "commit"}
    /\ row_id'[r] \in DOMAIN rows /\ was'[r] = rows[row_id'[r]]
    /\ now'[r].mailbox_email = was'[r].mailbox_email
    /\ SameWatch(now'[r], was'[r])
    /\ at'[r] = "retire" => row_id'[r] \in ActiveIds

\* ... changes its copy, ...
Alters(r) ==
    /\ rows' = rows /\ at[r] \in OnARow \ {"retire"} /\ at'[r] \in OnARow \ {"retire"}
    /\ row_id'[r] = row_id[r] /\ was'[r] = was[r]
    /\ now'[r].mailbox_email = now[r].mailbox_email

\* ... commits it and reads it again, or is through with it, ...
Rereads(r) ==
    /\ Write(r) /\ at[r] = "refreshed" /\ at'[r] = "watching" /\ row_id'[r] = row_id[r]
    /\ was'[r] = rows'[row_id[r]] /\ now'[r] = rows'[row_id[r]]

Commits(r) ==
    /\ Write(r)
    /\ \/ at[r] = "retire" /\ at'[r] = "lookup"
       \/ at[r] \in {"attach", "commit"} /\ at'[r] = "idle"

\* ... gives up, ...
GivesUp(r) == rows' = rows /\ at'[r] = "idle"

\* ... or, the callback, finds nothing to retire, and looks up the mailbox.
Asks(r) ==
    /\ rows' = rows /\ at[r] = "idle" /\ at'[r] = "lookup"
    /\ \/ ActiveIds = {}
       \/ \E i \in ActiveIds : rows[i].mailbox_email = account'[r]

Looks(r) ==
    /\ rows' = rows /\ at[r] = "lookup" /\ at'[r] = "attach"
    /\ row_id'[r] = 0 => /\ was'[r] = NewConnection(account[r])
                         /\ RowsOf(account[r]) = {}
    /\ row_id'[r] # 0 => row_id'[r] \in DOMAIN rows /\ was'[r] = rows[row_id'[r]]
    /\ was'[r].mailbox_email = account[r]
    /\ now'[r].mailbox_email = was'[r].mailbox_email
    /\ SameWatch(now'[r], was'[r])
    /\ \/ now'[r] = was'[r] /\ was'[r].refresh_token = 0
       \/ now'[r].connection_status = "connected"

LEMMA StartTakes ==
  ASSUME TypeInv, NEW r \in Req, NEW place \in {"retire", "using", "commit"},
         NEW i \in DOMAIN rows, NEW new \in Connection,
         at[r] = "idle", rows' = rows, Hold(r, i, rows[i], new), Goes(r, place),
         new.mailbox_email = rows[i].mailbox_email, SameWatch(new, rows[i]),
         place = "retire" => i \in ActiveIds
  PROVE  Takes(r)
<1>1. /\ at'[r] = place /\ row_id'[r] = i /\ was'[r] = rows[i] /\ now'[r] = new
  BY Basics DEF Goes, Hold
<1> QED
  BY <1>1 DEF Takes

LEMMA CallbackKinds ==
  ASSUME TypeInv, NEW r \in Req, NEW mailbox \in Mailbox, Callback(r, mailbox)
  PROVE  Takes(r) \/ Asks(r)
<1>1. /\ rows' = rows /\ at[r] = "idle" /\ account'[r] = mailbox
  BY Basics DEF Callback, Starts
<1>2. ASSUME NEW i \in ActiveIds,
             Goes(r, "retire") /\ Hold(r, i, rows[i], MarkDisconnected(rows[i]))
      PROVE  Takes(r)
  <2>1. i \in DOMAIN rows /\ rows[i] \in Connection
    BY RowsType DEF ActiveIds
  <2> QED
    BY <1>1, <1>2, <2>1, StartTakes, MarkedColumns DEF SameWatch
<1>3. ASSUME NEW i \in ActiveIds, ~Replaces(i, mailbox), Goes(r, "lookup")
      PROVE  Asks(r)
  BY <1>1, <1>3, Basics DEF Asks, Goes, Replaces
<1>4. ASSUME ActiveIds = {}, Goes(r, "lookup")
      PROVE  Asks(r)
  BY <1>1, <1>4, Basics DEF Asks, Goes
<1> QED
  BY <1>2, <1>3, <1>4 DEF Callback

LEMMA OrderKinds ==
  ASSUME TypeInv, NEW r \in Req, NEW what \in OpNames, Order(r, what)
  PROVE  Takes(r)
<1>1. PICK i \in ActiveIds : Hold(r, i, rows[i], Command(what, rows[i]))
  BY DEF Order
<1>2. i \in DOMAIN rows /\ rows[i] \in Connection
  BY RowsType DEF ActiveIds
<1>3. at[r] = "idle" /\ what \in {"disconnect", "pause", "resume"} /\ Goes(r, "commit")
      /\ rows' = rows
  BY DEF Order, Starts
<1> QED
  BY <1>1, <1>2, <1>3, StartTakes, CommandColumns DEF SameWatch

LEMMA UseKinds ==
  ASSUME TypeInv, NEW r \in Req, NEW what \in OpNames, Use(r, what)
  PROVE  Takes(r)
<1>1. PICK i \in DOMAIN rows : Hold(r, i, rows[i], rows[i])
  BY DEF Use
<1>2. rows[i] \in Connection
  BY RowsType
<1>3. at[r] = "idle" /\ Goes(r, "using") /\ rows' = rows
  BY DEF Use, Starts
<1> QED
  BY <1>1, <1>2, <1>3, StartTakes DEF SameWatch

LEMMA InHandKinds ==
  ASSUME TypeInv, NEW r \in Req, Refreshed(r) \/ Refused(r) \/ Arm(r) \/ Disarm(r)
  PROVE  Alters(r)
<1>1. now'[r].mailbox_email = now[r].mailbox_email
  BY RefreshedColumns, RefusedColumns, ArmColumns, DisarmColumns
<1>2. /\ rows' = rows /\ at[r] \in {"using", "watching"}
      /\ Goes(r, "commit") \/ Goes(r, "refreshed")
      /\ row_id' = row_id /\ was' = was
  BY DEF Refreshed, Refused, Arm, Disarm
<1>3. at'[r] \in {"commit", "refreshed"}
  BY <1>2, Basics DEF Goes
<1> QED
  BY <1>1, <1>2, <1>3 DEF Alters, OnARow

LEMMA ServiceBuiltKinds ==
  ASSUME TypeInv, NEW r \in Req, ServiceBuilt(r)
  PROVE  Alters(r) \/ Rereads(r)
<1>1. at'[r] = "watching" /\ row_id' = row_id
  BY Basics DEF ServiceBuilt, Goes
<1>2. CASE at[r] = "using" /\ UNCHANGED <<rows, was, now>>
  BY <1>1, <1>2 DEF Alters, OnARow
<1>3. CASE /\ at[r] = "refreshed" /\ Write(r)
           /\ was' = [was EXCEPT ![r] = rows'[row_id[r]]]
           /\ now' = [now EXCEPT ![r] = rows'[row_id[r]]]
  BY <1>1, <1>3, Basics DEF Rereads
<1> QED
  BY <1>2, <1>3 DEF ServiceBuilt

LEMMA LookupKinds ==
  ASSUME TypeInv, NEW r \in Req, Lookup(r)
  PROVE  Looks(r)
<1>1. PICK id \in {0} \cup DOMAIN rows, row \in Connection, new \in Connection :
            /\ id = 0 => row = NewConnection(account[r]) /\ RowsOf(account[r]) = {}
            /\ id # 0 => row = rows[id]
            /\ row.mailbox_email = account[r]
            /\ Hold(r, id, row, new)
            /\ new.mailbox_email = row.mailbox_email
            /\ SameWatch(new, row)
            /\ \/ new = row /\ row.refresh_token = 0
               \/ new.connection_status = "connected"
  BY LookupRow DEF SameWatch
<1>2. rows' = rows /\ at[r] = "lookup" /\ at'[r] = "attach"
  BY Basics DEF Lookup, Goes
<1>3. row_id'[r] = id /\ was'[r] = row /\ now'[r] = new
  BY <1>1, Basics DEF Hold
<1> QED
  BY <1>1, <1>2, <1>3 DEF Looks

LEMMA Kinds ==
  ASSUME TypeInv, NEW r \in Req, Request(r)
  PROVE  \/ Takes(r) \/ Alters(r) \/ Rereads(r) \/ Commits(r)
         \/ GivesUp(r) \/ Asks(r) \/ Looks(r)
<1>1. CASE Retire(r) \/ Attach(r) \/ Commit(r)
  BY <1>1, Basics DEF Retire, Attach, Commit, Ends, Goes, Commits
<1>2. CASE Leave(r)
  BY <1>2, Basics DEF Leave, Ends, Goes, GivesUp
<1> QED
  BY <1>1, <1>2, CallbackKinds, OrderKinds, UseKinds, InHandKinds, ServiceBuiltKinds,
     LookupKinds DEF Request

-----------------------------------------------------------------------------
\* What a request does to the status and the refresh token of its copy.

LEMMA CopyKeptByOne ==
  ASSUME TypeInv, NEW r \in Req, Request(r), CopyKept(r)
  PROVE  CopyKept(r)'
<1>1. ASSUME NEW mailbox \in Mailbox, Callback(r, mailbox)
      PROVE  CopyKept(r)'
  <2>1. CASE at'[r] = "lookup"
    BY <2>1 DEF CopyKept
  <2>2. CASE at'[r] # "lookup"
    <3>1. PICK i \in ActiveIds : /\ Goes(r, "retire")
                                 /\ Hold(r, i, rows[i], MarkDisconnected(rows[i]))
      BY <1>1, <2>2, Basics DEF Callback, Goes
    <3>2. /\ at'[r] = "retire" /\ was'[r] = rows[i] /\ now'[r] = MarkDisconnected(rows[i])
          /\ rows[i] \in Connection /\ rows[i].connection_status # "disconnected"
      BY <3>1, Basics, RowsType DEF Goes, Hold, ActiveIds
    <3> QED
      BY <3>2, MarkedColumns DEF CopyKept, Disconnects
  <2> QED
    BY <2>1, <2>2
<1>2. ASSUME NEW what \in OpNames, Order(r, what)
      PROVE  CopyKept(r)'
  <2>1. PICK i \in ActiveIds : Hold(r, i, rows[i], Command(what, rows[i]))
    BY <1>2 DEF Order
  <2>2. /\ at'[r] = "commit" /\ op'[r] = what /\ what \in {"disconnect", "pause", "resume"}
        /\ was'[r] = rows[i] /\ now'[r] = Command(what, rows[i]) /\ rows[i] \in Connection
    BY <1>2, <2>1, Basics, RowsType DEF Order, Starts, Goes, Hold, ActiveIds
  <2> QED
    BY <2>2, CommandColumns DEF CopyKept, Disconnects
<1>3. ASSUME NEW what \in OpNames, Use(r, what)
      PROVE  CopyKept(r)'
  <2>1. at'[r] = "using" /\ was'[r] = now'[r]
    BY <1>3, Basics DEF Use, Goes, Hold
  <2> QED
    BY <2>1 DEF CopyKept
<1>4. CASE Retire(r) \/ Attach(r) \/ Commit(r) \/ Leave(r)
  <2>1. at'[r] \in {"idle", "lookup"}
    BY <1>4, Basics DEF Retire, Attach, Commit, Leave, Ends, Goes
  <2> QED
    BY <2>1 DEF CopyKept
<1>5. CASE Lookup(r)
  <2>1. Looks(r) /\ at'[r] = "attach"
    BY <1>5, LookupKinds DEF Looks
  <2>2. account[r] \in Mailbox
    BY <1>5 DEF TypeInv, Shape, Lookup, CallbackPlaces
  <2>3. /\ now'[r].connection_status \in {was'[r].connection_status, "connected"}
        /\ NoToken(now'[r])
        /\ row_id'[r] = 0 => was'[r] = NewConnection(account[r])
    BY <2>1 DEF Looks, NoToken
  <2> QED
    BY <2>1, <2>2, <2>3, NewColumns DEF CopyKept, NoToken
<1>6. CASE Refreshed(r)
  <2>1. /\ was' = was /\ now' = now /\ at[r] = "using" /\ op' = op
        /\ at'[r] = IF op[r] \in WatchOps THEN "refreshed" ELSE "commit"
        /\ op[r] # "disconnect"
    BY <1>6, Basics DEF Refreshed, Goes, TypeInv, Shape, Callers, WatchOps
  <2> QED
    BY <2>1 DEF CopyKept
<1>7. CASE Refused(r) \/ Arm(r) \/ Disarm(r)
  <2>1. /\ was' = was /\ at[r] \in {"using", "watching"} /\ op' = op /\ at'[r] = "commit"
        /\ op[r] # "disconnect"
    BY <1>7, Basics DEF Refused, Arm, Disarm, Goes, TypeInv, Shape, Callers, WatchOps
  <2>2. /\ now'[r].refresh_token = now[r].refresh_token
        /\ now'[r].connection_status \in {now[r].connection_status, "revoked"}
    BY <1>7, RefusedColumns, ArmColumns, DisarmColumns
  <2> QED
    BY <2>1, <2>2 DEF CopyKept
<1>8. CASE ServiceBuilt(r)
  <2>1. at'[r] = "watching"
    BY <1>8, Basics DEF ServiceBuilt, Goes
  <2>2. CASE at[r] = "using" /\ UNCHANGED <<rows, was, now>>
    BY <2>1, <2>2 DEF CopyKept
  <2>3. CASE /\ was' = [was EXCEPT ![r] = rows'[row_id[r]]]
             /\ now' = [now EXCEPT ![r] = rows'[row_id[r]]]
    <3>1. was'[r] = now'[r]
      BY <2>3, Basics
    <3> QED
      BY <2>1, <3>1 DEF CopyKept
  <2> QED
    BY <1>8, <2>2, <2>3 DEF ServiceBuilt
<1> QED
  BY <1>1, <1>2, <1>3, <1>4, <1>5, <1>6, <1>7, <1>8 DEF Request

LEMMA CopyKeptNext ==
  ASSUME TypeInv, NEW r \in Req, Request(r), \A p \in Req : CopyKept(p)
  PROVE  \A q \in Req : CopyKept(q)'
<1> SUFFICES ASSUME NEW q \in Req PROVE CopyKept(q)'
  OBVIOUS
<1>1. CASE q = r
  BY <1>1, CopyKeptByOne
<1>2. CASE q # r
  <2>1. /\ at'[q] = at[q] /\ op'[q] = op[q] /\ row_id'[q] = row_id[q]
        /\ was'[q] = was[q] /\ now'[q] = now[q]
    BY <1>2, OthersKeep
  <2>2. CopyKept(q)
    OBVIOUS
  <2> QED
    BY <2>1, <2>2 DEF CopyKept, Disconnects
<1> QED
  BY <1>1, <1>2

-----------------------------------------------------------------------------
\* A disconnected row has no refresh token.

\* A row that is written from a copy that shows its status and its refresh
\* token gets those of the copy.
LEMMA TokenAsLoaded ==
  ASSUME NEW row \in Connection, NEW old \in Connection, NEW new \in Connection,
         old.connection_status = row.connection_status,
         old.refresh_token = row.refresh_token, NoToken(new)
  PROVE  NoToken(Updated(row, old, new))
BY UpdatedColumns DEF NoToken

\* A row keeps its refresh token, and is not disconnected.
LEMMA TokenLeft ==
  ASSUME NEW row \in Connection, NEW old \in Connection, NEW new \in Connection,
         NoToken(row), new.refresh_token = old.refresh_token,
         new.connection_status \in {old.connection_status, "connected", "paused", "revoked"}
  PROVE  NoToken(Updated(row, old, new))
BY UpdatedColumns DEF NoToken

LEMMA TokenNext ==
  ASSUME TypeInv, TokenInv, NEW r \in Req, CopyKept(r), Request(r)
  PROVE  TokenInv'
<1>0. /\ Len(rows) \in Nat /\ 0 \notin DOMAIN rows
      /\ \A i \in DOMAIN rows : rows[i] \in Connection
  BY RowsType
<1>1. ASSUME rows' = rows, outdated' = outdated
      PROVE  TokenInv'
  BY <1>1 DEF TokenInv
<1>2. ASSUME at[r] \in Holding, Write(r), NoteStale(r), NoToken(now[r])
      PROVE  TokenInv'
  <2> SUFFICES ASSUME NEW i \in DOMAIN rows', i \notin outdated' PROVE NoToken(rows'[i])
    BY DEF TokenInv
  <2>1. was[r] \in Connection /\ now[r] \in Connection
    BY <1>2 DEF TypeInv, Shape
  <2>2. CASE i # Added(r)
    <3>1. i \in DOMAIN rows /\ rows'[i] = rows[i]
      BY <1>2, <2>2, RowsWritten
    <3>2. i # row_id[r]
      BY <1>0, <2>2, <3>1 DEF Added
    <3>3. i \notin outdated
      BY <1>2, <3>1, <3>2, StaleNoted
    <3> QED
      BY <3>1, <3>3 DEF TokenInv
  <2>3. CASE i = Added(r) /\ row_id[r] = 0
    BY <1>2, <2>3, RowsWritten DEF Added
  <2>4. CASE i = Added(r) /\ row_id[r] # 0
    <3>1. i = row_id[r] /\ i \in DOMAIN rows /\ rows'[i] = Updated(rows[i], was[r], now[r])
      BY <1>2, <2>4, RowsWritten DEF Added
    <3>2. /\ was[r].connection_status = rows[i].connection_status
          /\ was[r].refresh_token = rows[i].refresh_token
      BY <1>2, <2>4, <3>1, StaleNoted
    <3> QED
      BY <1>0, <1>2, <2>1, <3>1, <3>2, TokenAsLoaded
  <2> QED
    BY <2>2, <2>3, <2>4
<1>3. ASSUME at[r] \in OnARow, Write(r), outdated' = outdated,
             now[r].refresh_token = was[r].refresh_token,
             now[r].connection_status \in
                 {was[r].connection_status, "connected", "paused", "revoked"}
      PROVE  TokenInv'
  <2>1. row_id[r] \in DOMAIN rows /\ row_id[r] # 0 /\ at[r] \in Holding
        /\ was[r] \in Connection /\ now[r] \in Connection
    BY <1>0, <1>3 DEF TypeInv, Shape, Holding
  <2>2. /\ DOMAIN rows' = DOMAIN rows
        /\ \A i \in DOMAIN rows : i # row_id[r] => rows'[i] = rows[i]
        /\ rows'[row_id[r]] = Updated(rows[row_id[r]], was[r], now[r])
    BY <1>3, <2>1, RowsWritten DEF Added
  <2>3. row_id[r] \notin outdated => NoToken(rows'[row_id[r]])
    BY <1>0, <1>3, <2>1, <2>2, TokenLeft DEF TokenInv
  <2> QED
    BY <1>3, <2>2, <2>3 DEF TokenInv
<1>4. CASE Retire(r)
  BY <1>2, <1>4 DEF Retire, Holding, OnARow, CopyKept, Disconnects, NoToken
<1>5. CASE Attach(r)
  BY <1>2, <1>5 DEF Attach, Holding, CopyKept
<1>6. CASE Commit(r) /\ op[r] = "disconnect"
  BY <1>2, <1>6 DEF Commit, Holding, OnARow, CopyKept, Disconnects, NoToken
<1>7. CASE Commit(r) /\ op[r] # "disconnect"
  BY <1>3, <1>7 DEF Commit, OnARow, CopyKept
<1>8. CASE ServiceBuilt(r)
  <2>1. outdated' = outdated
    BY <1>8 DEF ServiceBuilt, races
  <2>2. CASE rows' = rows
    BY <1>1, <2>1, <2>2
  <2>3. CASE at[r] = "refreshed" /\ Write(r)
    BY <1>3, <2>1, <2>3 DEF OnARow, CopyKept
  <2> QED
    BY <1>8, <2>2, <2>3 DEF ServiceBuilt
<1>9. CASE \/ Lookup(r) \/ Refreshed(r) \/ Refused(r) \/ Leave(r) \/ Arm(r) \/ Disarm(r)
           \/ (\E mailbox \in Mailbox : Callback(r, mailbox))
           \/ (\E what \in OpNames : Order(r, what) \/ Use(r, what))
  <2>1. rows' = rows /\ outdated' = outdated
    BY <1>9 DEF Lookup, Refreshed, Refused, Leave, Arm, Disarm, Callback, Order, Use, races
  <2> QED
    BY <1>1, <2>1
<1> QED
  BY <1>4, <1>5, <1>6, <1>7, <1>8, <1>9 DEF Request

-----------------------------------------------------------------------------
\* Until callbacks race: they keep apart, a mailbox's row is its only one, and
\* one row is active.

LEMMA RacedKept ==
  ASSUME TypeInv, [Next]_vars, ~raced'
  PROVE  ~raced
<1>1. ASSUME NEW r \in Req, Request(r) PROVE raced => raced'
  BY <1>1 DEF Request, Callback, Retire, Lookup, Attach, Order, Use, Refreshed, Refused,
              Commit, Leave, ServiceBuilt, Arm, Disarm, races
<1> QED
  BY <1>1 DEF Next, RenewNothing, Tick, vars, races

LEMMA ApartNext ==
  ASSUME TypeInv, Apart, NEW r \in Req, Request(r), ~raced'
  PROVE  Apart'
<1>1. \A q \in Req : q # r => op'[q] = op[q]
  BY OthersKeep
<1>2. ASSUME op'[r] = "callback", op[r] # "callback"
      PROVE  \A q \in Req : op[q] # "callback"
  <2>1. ~ \E what \in OpNames : Order(r, what) \/ Use(r, what)
    BY <1>2, Basics DEF Order, Use, Starts, WatchOps
  <2>2. ~(Retire(r) \/ Lookup(r) \/ Refreshed(r) \/ Refused(r) \/ ServiceBuilt(r)
          \/ Arm(r) \/ Disarm(r))
    BY <1>2 DEF Retire, Lookup, Refreshed, Refused, ServiceBuilt, Arm, Disarm
  <2>3. ~(Attach(r) \/ Commit(r) \/ Leave(r))
    BY <1>2, Basics DEF Attach, Commit, Leave, Ends
  <2> QED
    BY <2>1, <2>2, <2>3 DEF Request, Callback
<1> QED
  BY <1>1, <1>2 DEF Apart

LEMMA OneCallback ==
  ASSUME TypeInv, Apart, NEW r \in Req, NEW q \in Req, q # r, at[r] \in CallbackPlaces
  PROVE  at[q] \notin CallbackPlaces
BY DEF TypeInv, Shape, Apart

\* A write to a row leaves its mailbox, and the other rows.
LEMMA RowRewritten ==
  ASSUME TypeInv, MailboxInv, NEW r \in Req, at[r] \in Holding, Write(r), row_id[r] # 0
  PROVE  /\ row_id[r] \in DOMAIN rows /\ DOMAIN rows' = DOMAIN rows
         /\ \A i \in DOMAIN rows : i # row_id[r] => rows'[i] = rows[i]
         /\ \A i \in DOMAIN rows : rows'[i].mailbox_email = rows[i].mailbox_email
         /\ rows'[row_id[r]] = Updated(rows[row_id[r]], was[r], now[r])
         /\ was[r] \in Connection /\ now[r] \in Connection /\ rows[row_id[r]] \in Connection
<1>1. /\ row_id[r] \in DOMAIN rows /\ DOMAIN rows' = DOMAIN rows
      /\ \A i \in DOMAIN rows : i # row_id[r] => rows'[i] = rows[i]
      /\ rows'[row_id[r]] = Updated(rows[row_id[r]], was[r], now[r])
  BY RowsWritten DEF Added
<1>2. was[r] \in Connection /\ now[r] \in Connection /\ rows[row_id[r]] \in Connection
  BY <1>1, RowsType DEF TypeInv, Shape
<1>3. rows'[row_id[r]].mailbox_email = rows[row_id[r]].mailbox_email
  BY <1>1, <1>2, UpdatedColumns DEF MailboxInv, SameMailbox
<1> QED
  BY <1>1, <1>2, <1>3

LEMMA RowAdded ==
  ASSUME TypeInv, NEW r \in Req, at[r] \in Holding, Write(r), row_id[r] = 0
  PROVE  /\ at[r] = "attach"
         /\ DOMAIN rows' = DOMAIN rows \cup {Len(rows) + 1} /\ Len(rows) + 1 \notin DOMAIN rows
         /\ \A i \in DOMAIN rows : rows'[i] = rows[i]
         /\ rows'[Len(rows) + 1] = now[r] /\ now[r] \in Connection
<1>1. 0 \notin DOMAIN rows /\ Len(rows) + 1 \notin DOMAIN rows
  BY RowsType
<1>2. at[r] = "attach" /\ now[r] \in Connection
  BY <1>1 DEF TypeInv, Shape, Holding
<1> QED
  BY <1>1, <1>2, RowsWritten DEF Added

LEMMA WritersHold ==
  ASSUME NEW r \in Req, Rereads(r) \/ Commits(r)
  PROVE  at[r] \in Holding /\ Write(r) /\ at[r] \notin {"idle", "lookup"}
BY DEF Rereads, Commits, Holding, OnARow

LEMMA MailboxesDifferNext ==
  ASSUME TypeInv, MailboxInv, NEW r \in Req, Request(r)
  PROVE  MailboxesDiffer'
<1>1. MailboxesDiffer
  BY DEF MailboxInv
<1>2. CASE rows' = rows
  BY <1>1, <1>2 DEF MailboxesDiffer
<1>3. ASSUME Rereads(r) \/ Commits(r), row_id[r] # 0
      PROVE  MailboxesDiffer'
  BY <1>1, <1>3, WritersHold, RowRewritten DEF MailboxesDiffer
<1>4. ASSUME Rereads(r) \/ Commits(r), row_id[r] = 0
      PROVE  MailboxesDiffer'
  BY <1>1, <1>4, WritersHold, RowAdded DEF MailboxesDiffer, MailboxInv, SameMailbox
<1> QED
  BY <1>1, <1>2, <1>3, <1>4, Kinds DEF Takes, Alters, GivesUp, Asks, Looks

LEMMA SameMailboxNext ==
  ASSUME TypeInv, Apart, MailboxInv, NEW r \in Req, Request(r), NEW q \in Req
  PROVE  SameMailbox(q)'
<1>0. MailboxesDiffer
  BY DEF MailboxInv
<1>1. CASE q # r
  <2>1. /\ at'[q] = at[q] /\ row_id'[q] = row_id[q] /\ was'[q] = was[q] /\ now'[q] = now[q]
    BY <1>1, OthersKeep
  <2>2. SameMailbox(q) /\ (at[q] \in Holding => row_id[q] \in {0} \cup DOMAIN rows)
    BY DEF MailboxInv, TypeInv, Shape, Holding
  <2>3. CASE rows' = rows
    BY <2>1, <2>2, <2>3 DEF SameMailbox
  <2>4. ASSUME Rereads(r) \/ Commits(r), row_id[r] # 0
        PROVE  SameMailbox(q)'
    <3>1. /\ DOMAIN rows' = DOMAIN rows
          /\ \A i \in DOMAIN rows : rows'[i].mailbox_email = rows[i].mailbox_email
      BY <2>4, WritersHold, RowRewritten
    <3> QED
      BY <2>1, <2>2, <3>1 DEF SameMailbox
  <2>5. ASSUME Rereads(r) \/ Commits(r), row_id[r] = 0
        PROVE  SameMailbox(q)'
    <3>1. at[q] \notin CallbackPlaces
      BY <1>1, <2>5, WritersHold, RowAdded, OneCallback DEF CallbackPlaces
    <3>2. at[q] \in Holding => row_id[q] \in DOMAIN rows /\ 0 \notin DOMAIN rows
      BY <3>1, RowsType DEF TypeInv, Shape, Holding, CallbackPlaces
    <3>3. \A i \in DOMAIN rows : rows'[i] = rows[i]
      BY <2>5, WritersHold, RowAdded
    <3> QED
      BY <2>1, <2>2, <3>2, <3>3 DEF SameMailbox
  <2> QED
    BY <1>0, <2>3, <2>4, <2>5, Kinds DEF Takes, Alters, GivesUp, Asks, Looks
<1>2. CASE q = r
  <2>1. CASE Takes(r)
    <3>1. 0 \notin DOMAIN rows
      BY RowsType
    <3> QED
      BY <1>2, <2>1, <3>1 DEF Takes, SameMailbox
  <2>2. CASE Alters(r)
    <3>1. SameMailbox(r) /\ at[r] \in Holding
      BY <2>2 DEF MailboxInv, Alters, Holding
    <3> QED
      BY <1>2, <2>2, <3>1 DEF SameMailbox, Alters
  <2>3. CASE Rereads(r)
    <3>1. row_id[r] \in DOMAIN rows /\ 0 \notin DOMAIN rows
      BY <2>3, RowsType DEF TypeInv, Shape, Rereads, OnARow
    <3>2. DOMAIN rows' = DOMAIN rows
      BY <2>3, <3>1, WritersHold, RowRewritten
    <3> QED
      BY <1>2, <2>3, <3>1, <3>2 DEF SameMailbox, Rereads
  <2>4. CASE Commits(r) \/ GivesUp(r) \/ Asks(r)
    BY <1>2, <2>4 DEF SameMailbox, Commits, GivesUp, Asks, Holding, OnARow
  <2>5. CASE Looks(r)
    BY <1>2, <2>5 DEF SameMailbox, Looks, RowsOf
  <2> QED
    BY <1>0, <2>1, <2>2, <2>3, <2>4, <2>5, Kinds
<1> QED
  BY <1>1, <1>2

\* Only the callback's last step makes a row active.
LEMMA NoneRevived ==
  ASSUME TypeInv, MailboxInv, NEW r \in Req, CopyKept(r), Request(r),
         Rereads(r) \/ Commits(r), at[r] # "attach", ~raced'
  PROVE  /\ ActiveIds' \subseteq ActiveIds
         /\ \A i \in DOMAIN rows : rows'[i].mailbox_email = rows[i].mailbox_email
         /\ at[r] = "retire" => row_id[r] \notin ActiveIds'
<1>1. row_id[r] # 0 /\ at[r] \in Holding /\ Write(r)
  BY WritersHold, RowAdded
<1>2. /\ row_id[r] \in DOMAIN rows /\ DOMAIN rows' = DOMAIN rows
      /\ \A i \in DOMAIN rows : i # row_id[r] => rows'[i] = rows[i]
      /\ \A i \in DOMAIN rows : rows'[i].mailbox_email = rows[i].mailbox_email
      /\ rows'[row_id[r]] = Updated(rows[row_id[r]], was[r], now[r])
      /\ was[r] \in Connection /\ now[r] \in Connection /\ rows[row_id[r]] \in Connection
  BY <1>1, RowRewritten
<1>3. rows'[row_id[r]].connection_status =
          IF now[r].connection_status # was[r].connection_status
          THEN now[r].connection_status ELSE rows[row_id[r]].connection_status
  BY <1>2, UpdatedColumns
<1>4. CASE at[r] = "retire"
  BY <1>2, <1>3, <1>4 DEF ActiveIds, CopyKept, Disconnects
<1>5. CASE at[r] = "refreshed"
  BY <1>2, <1>3, <1>5 DEF ActiveIds, CopyKept
<1>6. CASE at[r] = "commit"
  <2>1. rows' # rows => Commit(r)
    <3>1. Leave(r) => rows' = rows
      BY DEF Leave
    <3>2. ~(\E mailbox \in Mailbox : Callback(r, mailbox))
          /\ ~(\E what \in OpNames : Order(r, what) \/ Use(r, what))
      BY <1>6 DEF Callback, Order, Use, Starts
    <3>3. ~(Retire(r) \/ Lookup(r) \/ Attach(r) \/ Refreshed(r) \/ Refused(r)
            \/ ServiceBuilt(r) \/ Arm(r) \/ Disarm(r))
      BY <1>6 DEF Retire, Lookup, Attach, Refreshed, Refused, ServiceBuilt, Arm, Disarm
    <3> QED
      BY <3>1, <3>2, <3>3 DEF Request
  <2>2. CASE rows' = rows
    BY <1>6, <2>2 DEF ActiveIds
  <2>3. CASE Commit(r)
    <3>1. ~Revives(r)
      BY <2>3 DEF Commit
    <3> QED
      BY <1>2, <1>6, <3>1 DEF ActiveIds, Revives
  <2> QED
    BY <2>1, <2>2, <2>3
<1> QED
  BY <1>4, <1>5, <1>6 DEF Rereads, Commits

LEMMA OneActiveNext ==
  ASSUME TypeInv, Apart, MailboxInv, OneActive, NEW r \in Req, CopyKept(r), Request(r), ~raced'
  PROVE  OneActive'
<1>0. /\ \A q \in Req : q # r => at'[q] = at[q] /\ row_id'[q] = row_id[q]
                                /\ account'[q] = account[q]
      /\ 0 \notin DOMAIN rows /\ MailboxesDiffer
  BY OthersKeep, RowsType DEF MailboxInv
<1>1. CASE rows' = rows
  <2>1. ActiveIds' = ActiveIds
    BY <1>1 DEF ActiveIds
  <2>2. ~(Commits(r) \/ Rereads(r)) => Takes(r) \/ Alters(r) \/ GivesUp(r) \/ Asks(r) \/ Looks(r)
    BY Kinds
  <2>3. ASSUME NEW i \in ActiveIds
        PROVE  /\ at'[r] \in {"retire", "attach"} => i = row_id'[r]
               /\ at'[r] = "lookup" => rows[i].mailbox_email = account'[r]
    <3>1. CASE Takes(r) \/ Alters(r) \/ GivesUp(r)
      BY <2>3, <3>1 DEF Takes, Alters, GivesUp, OnARow, OneActive
    <3>2. CASE Asks(r)
      BY <2>3, <3>2 DEF Asks, OneActive
    <3>3. CASE Looks(r)
      <4>1. rows[i].mailbox_email = account[r] /\ i \in DOMAIN rows
        BY <2>3, <3>3 DEF Looks, OneActive, ActiveIds
      <4> QED
        BY <1>0, <3>3, <4>1 DEF Looks, RowsOf, MailboxesDiffer
    <3>4. CASE Rereads(r)
      BY <3>4 DEF Rereads
    <3>5. CASE Commits(r)
      <4>1. CASE at[r] = "retire"
        <5>1. row_id[r] \notin ActiveIds
          BY <2>1, <3>5, <4>1, NoneRevived
        <5>2. i = row_id[r]
          BY <2>3, <4>1 DEF OneActive
        <5> QED
          BY <2>3, <5>1, <5>2
      <4>2. CASE at[r] # "retire"
        BY <3>5, <4>2 DEF Commits
      <4> QED
        BY <4>1, <4>2
    <3> QED
      BY <2>2, <3>1, <3>2, <3>3, <3>4, <3>5
  <2> QED
    BY <1>0, <1>1, <2>1, <2>3 DEF OneActive
<1>2. CASE (Rereads(r) \/ Commits(r)) /\ at[r] # "attach"
  <2>1. /\ ActiveIds' \subseteq ActiveIds /\ ActiveIds \subseteq DOMAIN rows
        /\ \A i \in DOMAIN rows : rows'[i].mailbox_email = rows[i].mailbox_email
        /\ at[r] = "retire" => row_id[r] \notin ActiveIds'
    BY <1>2, NoneRevived DEF ActiveIds
  <2>2. at'[r] = "lookup" => at[r] = "retire"
    BY <1>2 DEF Rereads, Commits
  <2>3. at'[r] \notin {"retire", "attach"}
    BY <1>2 DEF Rereads, Commits
  <2> QED
    BY <1>0, <2>1, <2>2, <2>3 DEF OneActive
<1>3. CASE Commits(r) /\ at[r] = "attach"
  <2>1. at[r] \in Holding /\ Write(r) /\ at'[r] = "idle"
    BY <1>3 DEF Commits, Holding
  <2>2. \A i \in ActiveIds : i = row_id[r] /\ i \in DOMAIN rows
    BY <1>3 DEF OneActive, ActiveIds
  <2>3. \A i \in DOMAIN rows' : i # Added(r) => i \in DOMAIN rows /\ rows'[i] = rows[i]
    BY <2>1, RowsWritten
  <2>4. \A i \in ActiveIds' : i = Added(r)
    BY <1>0, <2>2, <2>3 DEF ActiveIds, Added
  <2>5. \A q \in Req : at'[q] \notin CallbackPlaces
    BY <1>0, <1>3, <2>1, OneCallback DEF CallbackPlaces
  <2> QED
    BY <2>4, <2>5 DEF OneActive, CallbackPlaces
<1> QED
  BY <1>1, <1>2, <1>3, Kinds DEF Takes, Alters, GivesUp, Asks, Looks, Rereads

-----------------------------------------------------------------------------
LEMMA RowsNext == RowsInv /\ [Next]_vars => RowsInv'
<1> SUFFICES ASSUME RowsInv, [Next]_vars
             PROVE  RowsInv'
  OBVIOUS
<1> USE DEF RowsInv
<1>1. TypeInv' /\ (~raced' => ~raced)
  BY TypeNext, RacedKept
<1>2. ASSUME NEW r \in Req, Request(r)
      PROVE  RowsInv'
  <2>1. (\A q \in Req : CopyKept(q)') /\ TokenInv'
    BY <1>2, CopyKeptNext, TokenNext
  <2>2. ASSUME ~raced'
        PROVE  Apart' /\ MailboxInv' /\ OneActive'
    <3>1. Apart /\ MailboxInv /\ OneActive /\ CopyKept(r)
      BY <1>1, <2>2
    <3>2. MailboxInv'
      BY <1>2, <3>1, MailboxesDifferNext, SameMailboxNext DEF MailboxInv
    <3> QED
      BY <1>2, <2>2, <3>1, <3>2, ApartNext, OneActiveNext
  <2> QED
    BY <1>1, <2>1, <2>2
<1>3. CASE UNCHANGED <<rows, session, races>>
  <2>1. (\A q \in Req : CopyKept(q)') /\ TokenInv'
    BY <1>3 DEF session, races, CopyKept, Disconnects, TokenInv
  <2>2. (~raced => Apart /\ MailboxInv /\ OneActive)'
    BY <1>3 DEF session, races, Apart, MailboxInv, MailboxesDiffer, SameMailbox, OneActive,
                ActiveIds
  <2> QED
    BY <1>1, <2>1, <2>2
<1>4. RenewNothing \/ Tick \/ UNCHANGED vars => UNCHANGED <<rows, session, races>>
  BY DEF RenewNothing, Tick, vars
<1> QED
  BY <1>2, <1>3, <1>4 DEF Next

\* At most one mailbox is connected at the start: routes/gmail.py is the only
\* way to connect one.
ConnectedOnce == Len(Connected) <= 1

LEMMA RowsInit == Init /\ ConnectedOnce => RowsInv
<1> SUFFICES ASSUME Init, ConnectedOnce PROVE RowsInv
  OBVIOUS
<1>1. TypeInv
  BY TypeInit
<1>2. \A i, j \in DOMAIN rows : i = j
  <2>1. DOMAIN rows = DOMAIN Connected /\ DOMAIN Connected = 1..Len(Connected)
        /\ Len(Connected) \in Nat
    BY GmailConnectionsAssumption, LenProperties DEF Init
  <2> QED
    BY <2>1 DEF ConnectedOnce
<1>3. \A i \in DOMAIN rows : rows[i].connection_status = "connected"
  <2> SUFFICES ASSUME NEW i \in DOMAIN rows PROVE rows[i].connection_status = "connected"
    OBVIOUS
  <2>1. rows[i] = [NewConnection(Connected[i]) EXCEPT !.refresh_token = i]
    BY DEF Init
  <2> QED
    BY <2>1 DEF NewConnection
<1>4. \A r \in Req : at[r] = "idle" /\ op[r] = "none"
  BY DEF Init
<1> QED
  BY <1>1, <1>2, <1>3, <1>4
  DEF RowsInv, Apart, MailboxInv, MailboxesDiffer, SameMailbox, CopyKept, TokenInv, NoToken,
      OneActive, Holding, OnARow, ActiveIds

\* The invariant behind the next three theorems: what the rows hold, and what
\* every request at work on one of them has seen and is about to commit.
THEOREM ConnectionsInvariant ==
  ASSUME ConnectedOnce
  PROVE  Spec => []RowsInv
BY RowsInit, RowsNext, PTL DEF Spec

\* Every variable keeps its type, and a request at work has a row in its hands
\* that is in the table.
THEOREM ConnectionsTypes ==
  ASSUME ConnectedOnce
  PROVE  Spec => []TypeOK
<1>1. RowsInv => TypeOK
  BY DEF RowsInv, TypeInv
<1> QED
  BY <1>1, ConnectionsInvariant, PTL

\* active() has at most one row to find, whatever refreshes, refusals, pauses,
\* resumes and disconnections overlap with a callback, until two callbacks
\* overlap or a stale copy makes a disconnected row active again.
THEOREM OneMailboxAtATime ==
  ASSUME ConnectedOnce
  PROVE  Spec => []AtMostOneActive
<1>1. RowsInv => AtMostOneActive
  <2> SUFFICES ASSUME \A i, j \in ActiveIds : i = j PROVE Cardinality(ActiveIds) <= 1
    BY DEF RowsInv, OneActive, AtMostOneActive
  <2>1. CASE ActiveIds = {}
    BY <2>1, FS_EmptySet
  <2>2. CASE ActiveIds # {}
    <3>1. PICK i \in ActiveIds : TRUE
      BY <2>2
    <3>2. ActiveIds = {i}
      BY <3>1
    <3>3. Cardinality({i}) = 1
      BY FS_Singleton
    <3> QED
      BY <3>2, <3>3
  <2> QED
    BY <2>1, <2>2
<1> QED
  BY <1>1, ConnectionsInvariant, PTL

\* A refresh, a refusal, a pause or a resume that loaded the row before it was
\* disconnected brings no refresh token back to it, nor does a callback or a
\* disconnection that saw the row's status and refresh token as they are.
THEOREM RefreshTokensStayGone ==
  ASSUME ConnectedOnce
  PROVE  Spec => []DisconnectedHoldsNoRefreshToken
<1>1. RowsInv => DisconnectedHoldsNoRefreshToken
  BY DEF RowsInv, TokenInv, NoToken, DisconnectedHoldsNoRefreshToken
<1> QED
  BY <1>1, ConnectionsInvariant, PTL

-----------------------------------------------------------------------------
\* Days.

\* A number is a multiple of n and a rest in one way only.
LEMMA DivisionIsUnique ==
  ASSUME NEW n \in Nat \ {0}, NEW q1 \in Nat, NEW q2 \in Nat,
         NEW r1 \in 0..(n - 1), NEW r2 \in 0..(n - 1),
         n * q1 + r1 = n * q2 + r2
  PROVE  q1 = q2 /\ r1 = r2
<1>1. ASSUME NEW p \in Nat, NEW q \in Nat, NEW r \in 0..(n - 1), NEW s \in 0..(n - 1),
             n * p + r = n * q + s, q >= p + 1
      PROVE  FALSE
  <2>1. PICK d \in Nat : q = p + 1 + d
    <3>1. q - p - 1 \in Nat
      BY <1>1
    <3> QED
      BY <3>1
  <2>2. n * q = n * p + n + n * d /\ n * d >= 0
    BY <2>1
  <2> QED
    BY <1>1, <2>2
<1>2. q1 = q2
  BY <1>1
<1> QED
  BY <1>2

LEMMA Division ==
  ASSUME NEW n \in Nat \ {0}, NEW t \in Nat
  PROVE  (t % n) \in 0..(n - 1) /\ (t \div n) \in Nat /\ t = n * (t \div n) + (t % n)
OBVIOUS

\* The ticks at which the last renewal was due and the next will be.
Since(t) == t - (t % Day)
Until(t) == t + (Day - (t % Day))

LEMMA DayBounds ==
  ASSUME NEW t \in Nat
  PROVE  /\ Until(t) \in Nat /\ t + 1 <= Until(t) /\ Until(t) <= t + Day
         /\ (t % Day) \in Nat /\ Since(t) \in Nat /\ Since(t) <= t
         /\ t = Since(t) + (t % Day)
<1>1. /\ Day \in Nat \ {0} /\ (t % Day) \in 0..(Day - 1) /\ (t \div Day) \in Nat
      /\ t = Day * (t \div Day) + (t % Day)
  BY Numbers, Division
<1>2. (t % Day) <= t
  <2>1. Day * (t \div Day) >= 0
    BY <1>1
  <2> QED
    BY <1>1, <2>1
<1> QED
  BY <1>1, <1>2 DEF Until, Since

\* Within a day.
LEMMA SameDay ==
  ASSUME NEW t \in Nat, ((t + 1) % Day) # 0
  PROVE  /\ ((t + 1) % Day) = (t % Day) + 1
         /\ Until(t + 1) = Until(t) /\ Since(t + 1) = Since(t)
<1> DEFINE q == t \div Day
           m == t % Day
           k == (t + 1) \div Day
           l == (t + 1) % Day
<1>0. Day \in Nat \ {0} /\ t + 1 \in Nat
  BY Numbers
<1>1. q \in Nat /\ m \in 0..(Day - 1) /\ t = Day * q + m
  BY <1>0, Division
<1>2. k \in Nat /\ l \in 0..(Day - 1) /\ t + 1 = Day * k + l /\ l # 0
  BY <1>0, Division
<1>3. /\ Until(t) = t + (Day - m) /\ Until(t + 1) = (t + 1) + (Day - l)
      /\ Since(t) = t - m /\ Since(t + 1) = (t + 1) - l
  BY DEF Until, Since
<1> SUFFICES l = m + 1 /\ Until(t + 1) = Until(t) /\ Since(t + 1) = Since(t)
  OBVIOUS
<1> HIDE DEF q, m, k, l
<1>4. CASE m = Day - 1
  <2>1. Day * (q + 1) + 0 = Day * k + l /\ 0 \in 0..(Day - 1) /\ q + 1 \in Nat
    BY <1>0, <1>1, <1>2, <1>4
  <2>2. 0 = l
    BY <1>0, <1>2, <2>1, DivisionIsUnique
  <2> QED
    BY <1>2, <2>2
<1>5. CASE m # Day - 1
  <2>1. Day * q + (m + 1) = Day * k + l /\ m + 1 \in 0..(Day - 1)
    BY <1>0, <1>1, <1>2, <1>5
  <2>2. m + 1 = l
    BY <1>0, <1>1, <1>2, <2>1, DivisionIsUnique
  <2> QED
    BY <1>0, <1>1, <1>2, <1>3, <2>2
<1> QED
  BY <1>4, <1>5

\* A day's last tick.
LEMMA LastOfTheDay ==
  ASSUME NEW t \in Nat, ((t + 1) % Day) = 0
  PROVE  t % Day = Day - 1
<1> DEFINE q == t \div Day
           m == t % Day
           k == (t + 1) \div Day
<1>0. Day \in Nat \ {0} /\ t + 1 \in Nat
  BY Numbers
<1>1. q \in Nat /\ m \in 0..(Day - 1) /\ t = Day * q + m
  BY <1>0, Division
<1>2. k \in Nat /\ t + 1 = Day * k + 0
  BY <1>0, Division
<1> SUFFICES ASSUME m # Day - 1 PROVE FALSE
  OBVIOUS
<1> HIDE DEF q, m, k
<1>3. Day * q + (m + 1) = Day * k + 0 /\ m + 1 \in 0..(Day - 1) /\ 0 \in 0..(Day - 1)
  BY <1>0, <1>1, <1>2
<1>4. m + 1 = 0
  BY <1>0, <1>1, <1>2, <1>3, DivisionIsUnique
<1> QED
  BY <1>1, <1>4

-----------------------------------------------------------------------------
\* What Gmail pushes for a row: the part of the invariant about the watch.

\* Copies hold expirations Gmail can have given, ...
Within(row) == row.last_watch_expiration <= tick + WatchFor

Expires(r) == at[r] \in Holding => Within(was[r]) /\ Within(now[r])

\* ... and leave the watch alone but for the last step of a watch request.
KeepsWatch(r) ==
    at[r] \in Holding /\ ~(op[r] \in WatchOps /\ at[r] = "commit") =>
        SameWatch(now[r], was[r])

\* A watch request that overlaps with no other sees the row's watch, ...
SeesWatch(r) ==
    op[r] \in WatchOps /\ row_id[r] \notin crossed =>
        SameWatch(rows[row_id[r]], was[r])

\* ... and its commit says what Gmail does, or that Google has refused.
IsArmed(r) ==
    /\ now[r].monitoring_mode = "push"
    /\ now[r].last_watch_expiration <= armed[now[r].mailbox_email]
    /\ armed[now[r].mailbox_email] > Until(tick)

IsDisarmed(r) ==
    now[r].monitoring_mode = "polling" /\ now[r].last_watch_expiration = 0

HasFailed(r) ==
    /\ SameWatch(now[r], was[r])
    /\ now[r].connection_status = "revoked"
    /\ op[r] = "renew" => row_id[r] \in lapsed

Outcome(r) ==
    at[r] = "commit" /\ row_id[r] \notin crossed =>
        /\ op[r] = "watch_stop" => SameWatch(now[r], was[r]) \/ IsDisarmed(r)
        /\ op[r] \in {"watch_start", "renew"} => IsArmed(r) \/ HasFailed(r)

CrossedKnown ==
    \A r, q \in Req : /\ r # q /\ row_id[r] = row_id[q]
                      /\ op[r] \in WatchOps /\ op[q] \in WatchOps
                      => row_id[r] \in crossed

\* A row that says push is pushed for until the next renewal, or, while the
\* day's renewal is to come or at work, at least until that was due; unless the
\* row is being stopped.
Stopped(i) ==
    \E r \in Req : op[r] = "watch_stop" /\ at[r] = "commit" /\ row_id[r] = i /\ IsDisarmed(r)

Renewing(i) == \E r \in Req : op[r] = "renew" /\ row_id[r] = i

Pushes(row) == row.monitoring_mode = "push" /\ row.last_watch_expiration # 0

Covered(row) ==
    /\ armed[row.mailbox_email] > Since(tick)
    /\ armed[row.mailbox_email] >= row.last_watch_expiration

CoveredToday(row) == armed[row.mailbox_email] > Until(tick)

PushHolds(i) ==
    i \notin crossed \cup lapsed /\ ~Stopped(i) /\ Pushes(rows[i]) =>
        /\ Covered(rows[i])
        /\ renewal = "done" /\ ~Renewing(i) => CoveredToday(rows[i])

\* A row that is not active has lapsed.
LapsedIsKnown == DOMAIN rows \subseteq ActiveIds \cup lapsed

RowsExpire == \A i \in DOMAIN rows : Within(rows[i])

\* The day's renewal is not later than Jitter.
RenewalOnTime ==
    renewal = "to come" \/ (\E r \in Req : op[r] = "renew") => (tick % Day) <= Jitter

Watched ==
    /\ CrossedKnown /\ LapsedIsKnown /\ RowsExpire /\ RenewalOnTime
    /\ \A i \in DOMAIN rows : PushHolds(i)
    /\ \A r \in Req : Expires(r) /\ KeepsWatch(r) /\ SeesWatch(r) /\ Outcome(r)

WatchInv == ~raced => Watched

-----------------------------------------------------------------------------
\* What expires before the next day's renewal is due (WATCH_RENEW_WITHIN and
\* GMAIL_WATCH_RENEW_SECONDS are a day each), and a watch lasts longer than a
\* day (Gmail's seven).
RenewedInTime == Day <= RenewWithin /\ Day < WatchFor

LEMMA ArmedLongEnough ==
  ASSUME TypeInv, RenewedInTime
  PROVE  /\ tick + WatchFor \in Nat
         /\ tick + WatchFor > Until(tick) /\ tick + WatchFor > Since(tick)
<1>1. tick \in Nat /\ WatchFor \in Nat /\ Day \in Nat \ {0} /\ Day < WatchFor
  BY Numbers DEF RenewedInTime
<1>2. /\ Until(tick) \in Nat /\ Until(tick) <= tick + Day
      /\ Since(tick) \in Nat /\ Since(tick) <= tick
  BY <1>1, DayBounds
<1> QED
  BY <1>1, <1>2

-----------------------------------------------------------------------------
\* What a step of a request does to the watch.

\* A start leaves Gmail and the history alone; a watch request has loaded the
\* row as it is and knows of the others on it.
Started(r) ==
    /\ Takes(r) \/ Asks(r)
    /\ armed' = armed /\ lapsed' = lapsed
    /\ renewal' = renewal \/ (renewal' = "done" /\ op'[r] = "renew" /\ Takes(r))
    /\ renewal' # renewal => renewal = "to come"
    /\ op'[r] = "renew" => renewal = "to come" /\ row_id'[r] \in ActiveIds
    /\ at'[r] = "using" => now'[r] = was'[r]
    /\ op'[r] \in WatchOps =>
           /\ at'[r] = "using"
           /\ \A q \in Req : q # r /\ op[q] \in WatchOps /\ row_id[q] = row_id'[r] =>
                  row_id'[r] \in crossed'

\* The service is there at once, or after a commit.
BuiltAtOnce(r) == ServiceBuilt(r) /\ at[r] = "using" /\ UNCHANGED <<rows, was, now>>
BuiltAnew(r)   == ServiceBuilt(r) /\ Rereads(r)

LEMMA Acts ==
  ASSUME TypeInv, NEW r \in Req, Request(r)
  PROVE  \/ Started(r) \/ Retire(r) \/ (Looks(r) /\ Lookup(r)) \/ Attach(r) \/ Refreshed(r)
         \/ Refused(r) \/ Commit(r) \/ Leave(r) \/ BuiltAtOnce(r) \/ BuiltAnew(r)
         \/ Arm(r) \/ Disarm(r)
<1>1. ASSUME NEW mailbox \in Mailbox, Callback(r, mailbox)
      PROVE  Started(r)
  <2>1. Starts(r, "callback") /\ armed' = armed /\ lapsed' = lapsed
    BY <1>1 DEF Callback
  <2>2. op'[r] = "callback" /\ renewal' = renewal
    BY <2>1, Basics DEF Starts
  <2>3. at'[r] # "using"
    BY <1>1, Basics DEF Callback, Goes
  <2> QED
    BY <1>1, <2>1, <2>2, <2>3, CallbackKinds DEF Started, WatchOps
<1>2. ASSUME NEW what \in OpNames, Order(r, what)
      PROVE  Started(r)
  <2>1. /\ Starts(r, what) /\ armed' = armed /\ lapsed' = lapsed
        /\ what \in {"disconnect", "pause", "resume"} /\ Goes(r, "commit")
    BY <1>2 DEF Order
  <2>2. op'[r] = what /\ renewal' = renewal /\ at'[r] # "using"
    BY <2>1, Basics DEF Starts, Goes
  <2> QED
    BY <1>2, <2>1, <2>2, OrderKinds DEF Started, WatchOps
<1>3. ASSUME NEW what \in OpNames, Use(r, what)
      PROVE  Started(r)
  <2>1. Starts(r, what) /\ armed' = armed /\ lapsed' = lapsed /\ Goes(r, "using") /\ Takes(r)
    BY <1>3, UseKinds DEF Use
  <2>2. op'[r] = what /\ at'[r] = "using"
    BY <2>1, Basics DEF Starts, Goes
  <2>3. /\ renewal' = renewal \/ (renewal' = "done" /\ op'[r] = "renew")
        /\ op'[r] = "renew" => renewal = "to come"
    BY <2>1, <2>2 DEF Starts
  <2>4. PICK i \in DOMAIN rows :
           /\ what = "renew" => i \in ActiveIds
           /\ Hold(r, i, rows[i], rows[i])
           /\ crossed' = IF what \in WatchOps /\ \E q \in Req \ {r} :
                                op[q] \in WatchOps /\ row_id[q] = i
                         THEN crossed \cup {i} ELSE crossed
    BY <1>3 DEF Use
  <2>5. now'[r] = was'[r] /\ row_id'[r] = i
    BY <2>4, Basics DEF Hold
  <2>6. op'[r] \in WatchOps =>
           \A q \in Req : q # r /\ op[q] \in WatchOps /\ row_id[q] = row_id'[r] =>
               row_id'[r] \in crossed'
    BY <2>2, <2>4, <2>5
  <2>7. op'[r] = "renew" => row_id'[r] \in ActiveIds
    BY <2>2, <2>4, <2>5
  <2> QED
    BY <2>1, <2>2, <2>3, <2>5, <2>6, <2>7 DEF Started
<1>4. ServiceBuilt(r) => BuiltAtOnce(r) \/ BuiltAnew(r)
  <2> SUFFICES ASSUME ServiceBuilt(r) PROVE BuiltAtOnce(r) \/ BuiltAnew(r)
    OBVIOUS
  <2>1. at'[r] = "watching" /\ row_id'[r] = row_id[r]
    BY Basics DEF ServiceBuilt, Goes
  <2>2. CASE at[r] = "using" /\ UNCHANGED <<rows, was, now>>
    BY <2>2 DEF BuiltAtOnce
  <2>3. CASE /\ at[r] = "refreshed" /\ Write(r)
             /\ was' = [was EXCEPT ![r] = rows'[row_id[r]]]
             /\ now' = [now EXCEPT ![r] = rows'[row_id[r]]]
    BY <2>1, <2>3, Basics DEF Rereads, BuiltAnew
  <2> QED
    BY <2>2, <2>3 DEF ServiceBuilt
<1>5. Lookup(r) => Looks(r)
  BY LookupKinds
<1> QED
  BY <1>1, <1>2, <1>3, <1>4, <1>5 DEF Request

\* Within a request no time passes, and an overlap once seen stays known.
LEMMA RequestTime ==
  ASSUME NEW r \in Req, Request(r)
  PROVE  tick' = tick /\ crossed \subseteq crossed'
BY DEF Request, Callback, Retire, Lookup, Attach, Order, Use, Refreshed, Refused, Commit,
       Leave, ServiceBuilt, Arm, Disarm, watch

\* What a write leaves of a row's watch and status.
LEMMA WatchWritten ==
  ASSUME TypeInv, MailboxInv, NEW r \in Req, at[r] \in Holding, Write(r),
         NEW i, i = row_id[r], i # 0
  PROVE  /\ SameWatch(now[r], was[r]) => SameWatch(rows'[i], rows[i])
         /\ SameWatch(rows[i], was[r]) => SameWatch(rows'[i], now[r])
         /\ rows'[i].last_watch_expiration \in {now[r].last_watch_expiration,
                                                rows[i].last_watch_expiration}
         /\ rows'[i].connection_status \in {now[r].connection_status,
                                            rows[i].connection_status}
         /\ now[r].connection_status = was[r].connection_status =>
                rows'[i].connection_status = rows[i].connection_status
<1>1. /\ rows'[i] = Updated(rows[i], was[r], now[r])
      /\ was[r] \in Connection /\ now[r] \in Connection /\ rows[i] \in Connection
  BY RowRewritten
<1> QED
  BY <1>1, UpdatedColumns DEF SameWatch

\* What a step other than a start leaves alone.
LEMMA GoesOn ==
  ASSUME TypeInv, NEW r \in Req,
         \/ Retire(r) \/ Lookup(r) \/ Refreshed(r) \/ Refused(r) \/ ServiceBuilt(r)
         \/ Arm(r) \/ Disarm(r)
  PROVE  op'[r] = op[r] /\ renewal' = renewal
BY DEF Retire, Lookup, Refreshed, Refused, ServiceBuilt, Arm, Disarm, watch

LEMMA EndsIdle ==
  ASSUME TypeInv, NEW r \in Req, Attach(r) \/ Commit(r) \/ Leave(r)
  PROVE  at'[r] = "idle" /\ op'[r] = "none" /\ row_id'[r] = 0 /\ renewal' = renewal
<1>1. Ends(r) /\ renewal' = renewal
  BY DEF Attach, Commit, Leave, watch
<1> QED
  BY <1>1, Basics DEF Ends, Goes, Hold

-----------------------------------------------------------------------------
\* The copies.

LEMMA WithinKept ==
  ASSUME NEW a, NEW b, a.last_watch_expiration = b.last_watch_expiration, Within(b)
  PROVE  Within(a)
BY DEF Within

LEMMA WithinStart ==
  ASSUME TypeInv, NEW row, row.last_watch_expiration \in {0, tick + WatchFor}
  PROVE  Within(row)
BY Numbers DEF Within

LEMMA RowsExpireNext ==
  ASSUME TypeInv, MailboxInv, RowsExpire, \A p \in Req : Expires(p),
         NEW r \in Req, Request(r)
  PROVE  RowsExpire'
<1>1. tick' = tick /\ MailboxesDiffer
  BY RequestTime DEF MailboxInv
<1>2. ASSUME NEW i \in DOMAIN rows' PROVE Within(rows'[i])
  <2>1. CASE rows' = rows
    BY <2>1 DEF RowsExpire
  <2>2. ASSUME Rereads(r) \/ Commits(r), i = row_id[r], i # 0
        PROVE  Within(rows'[i])
    <3>1. Within(now[r]) /\ Within(rows[i])
      BY <2>2, WritersHold, RowRewritten DEF RowsExpire, Expires
    <3>2. rows'[i].last_watch_expiration \in {now[r].last_watch_expiration,
                                              rows[i].last_watch_expiration}
      BY <2>2, WritersHold, WatchWritten
    <3> QED
      BY <3>1, <3>2 DEF Within
  <2>3. ASSUME Rereads(r) \/ Commits(r), i # row_id[r], row_id[r] # 0
        PROVE  Within(rows'[i])
    BY <2>3, WritersHold, RowRewritten DEF RowsExpire
  <2>4. ASSUME Rereads(r) \/ Commits(r), row_id[r] = 0
        PROVE  Within(rows'[i])
    <3>1. Within(now[r])
      BY <2>4, WritersHold DEF Expires
    <3> QED
      BY <2>4, <3>1, WritersHold, RowAdded DEF RowsExpire
  <2>5. 0 \notin DOMAIN rows'
    <3>1. CASE rows' = rows
      BY <3>1, RowsType
    <3>2. CASE Rereads(r) \/ Commits(r)
      BY <3>2, WritersHold, RowRewritten, RowAdded, RowsType
    <3> QED
      BY <1>1, <3>1, <3>2, Kinds DEF Takes, Alters, GivesUp, Asks, Looks
  <2> QED
    BY <1>1, <2>1, <2>2, <2>3, <2>4, <2>5, Kinds DEF Takes, Alters, GivesUp, Asks, Looks
<1> QED
  BY <1>1, <1>2 DEF RowsExpire, Within

\* The copies of the request that steps.
LEMMA CopiesOfOne ==
  ASSUME TypeInv, MailboxInv, RowsExpire, RowsExpire', NEW r \in Req, Request(r),
         Expires(r), KeepsWatch(r)
  PROVE  Expires(r)' /\ KeepsWatch(r)'
<1>0. tick' = tick /\ MailboxesDiffer
  BY RequestTime DEF MailboxInv
<1> SUFFICES /\ at'[r] \in Holding => Within(was'[r]) /\ Within(now'[r])
             /\ KeepsWatch(r)'
  BY <1>0 DEF Expires, Within
<1>1. CASE Started(r)
  <2>1. CASE Takes(r)
    <3>1. at'[r] \in {"retire", "using", "commit"} /\ SameWatch(now'[r], was'[r])
          /\ Within(was'[r])
      BY <2>1 DEF Takes, RowsExpire
    <3>2. Within(now'[r])
      BY <3>1, WithinKept DEF SameWatch
    <3> QED
      BY <1>1, <3>1, <3>2 DEF KeepsWatch, Started
  <2>2. CASE Asks(r)
    BY <2>2 DEF Asks, Holding, OnARow, KeepsWatch
  <2> QED
    BY <1>1, <2>1, <2>2 DEF Started
<1>2. CASE Retire(r) \/ Attach(r) \/ Commit(r) \/ Leave(r)
  <2>1. at'[r] \in {"idle", "lookup"}
    BY <1>2, EndsIdle, Basics DEF Retire, Goes
  <2> QED
    BY <2>1 DEF Holding, OnARow, KeepsWatch
<1>3. CASE Looks(r)
  <2>1. at'[r] = "attach" /\ SameWatch(now'[r], was'[r])
    BY <1>3 DEF Looks
  <2>2. CASE row_id'[r] # 0
    <3>1. Within(was'[r])
      BY <1>3, <2>2 DEF Looks, RowsExpire
    <3>2. Within(now'[r])
      BY <2>1, <3>1, WithinKept DEF SameWatch
    <3> QED
      BY <2>1, <2>2, <3>1, <3>2 DEF KeepsWatch
  <2>3. CASE row_id'[r] = 0
    <3>1. account[r] \in Mailbox /\ was'[r] = NewConnection(account[r])
      BY <1>3, <2>3 DEF Looks, TypeInv, Shape, CallbackPlaces
    <3>2. was'[r].last_watch_expiration = 0
      BY <3>1, NewColumns
    <3>3. Within(was'[r]) /\ Within(now'[r])
      BY <2>1, <3>2, WithinStart DEF SameWatch
    <3> QED
      BY <2>1, <3>2, <3>3 DEF KeepsWatch
  <2> QED
    BY <2>2, <2>3
<1>4. CASE Refreshed(r) \/ Refused(r)
  <2>1. /\ at[r] = "using" /\ was'[r] = was[r] /\ op'[r] = op[r]
        /\ at'[r] \in {"refreshed", "commit"}
    BY <1>4, Basics DEF Refreshed, Refused, Goes
  <2>2. SameWatch(now'[r], now[r])
    BY <1>4, RefreshedColumns, RefusedColumns DEF SameWatch
  <2>3. Within(was[r]) /\ Within(now[r]) /\ SameWatch(now[r], was[r])
    BY <2>1 DEF Expires, KeepsWatch, Holding, OnARow
  <2>4. Within(now'[r]) /\ SameWatch(now'[r], was[r])
    BY <2>2, <2>3, WithinKept DEF SameWatch
  <2>5. KeepsWatch(r)'
    BY <2>1, <2>2, <2>4 DEF KeepsWatch
  <2> QED
    BY <2>1, <2>3, <2>4, <2>5
<1>5. CASE Arm(r) \/ Disarm(r)
  <2>1. /\ at[r] = "watching" /\ was'[r] = was[r] /\ op'[r] = op[r]
        /\ at'[r] = "commit" /\ op[r] \in WatchOps
    BY <1>5, Basics DEF Arm, Disarm, Goes, WatchOps
  <2>2. now'[r].last_watch_expiration \in {0, tick + WatchFor}
    BY <1>5, ArmColumns, DisarmColumns
  <2>3. Within(was[r])
    BY <2>1 DEF Expires, Holding, OnARow
  <2>4. Within(now'[r])
    BY <2>2, WithinStart
  <2>5. KeepsWatch(r)'
    BY <2>1 DEF KeepsWatch
  <2> QED
    BY <2>1, <2>3, <2>4, <2>5
<1>6. CASE BuiltAtOnce(r)
  <2>1. /\ at[r] = "using" /\ at'[r] = "watching" /\ op'[r] = op[r]
        /\ was'[r] = was[r] /\ now'[r] = now[r]
    BY <1>6, Basics DEF BuiltAtOnce, ServiceBuilt, Goes
  <2>2. Within(was[r]) /\ Within(now[r])
    BY <2>1 DEF Expires, Holding, OnARow
  <2>3. KeepsWatch(r)'
    BY <2>1 DEF KeepsWatch, Holding, OnARow
  <2> QED
    BY <2>1, <2>2, <2>3
<1>7. CASE BuiltAnew(r)
  <2>1. /\ at[r] = "refreshed" /\ at'[r] = "watching" /\ row_id[r] \in DOMAIN rows
        /\ was'[r] = rows'[row_id[r]] /\ now'[r] = rows'[row_id[r]]
    BY <1>7 DEF BuiltAnew, Rereads, TypeInv, Shape, OnARow
  <2>2. row_id[r] \in DOMAIN rows'
    BY <1>7, <2>1, WritersHold, RowsWritten DEF BuiltAnew
  <2>3. Within(was'[r])
    BY <1>0, <2>1, <2>2 DEF RowsExpire, Within
  <2>4. KeepsWatch(r)'
    BY <2>1 DEF KeepsWatch, SameWatch
  <2> QED
    BY <2>1, <2>3, <2>4
<1> QED
  BY <1>0, <1>1, <1>2, <1>3, <1>4, <1>5, <1>6, <1>7, Acts

LEMMA CopiesNext ==
  ASSUME TypeInv, MailboxInv, RowsExpire, NEW r \in Req, Request(r),
         \A p \in Req : Expires(p) /\ KeepsWatch(p)
  PROVE  \A q \in Req : Expires(q)' /\ KeepsWatch(q)'
<1> SUFFICES ASSUME NEW q \in Req PROVE Expires(q)' /\ KeepsWatch(q)'
  OBVIOUS
<1>1. CASE q = r
  BY <1>1, RowsExpireNext, CopiesOfOne
<1>2. CASE q # r
  <2>1. /\ at'[q] = at[q] /\ op'[q] = op[q] /\ row_id'[q] = row_id[q]
        /\ was'[q] = was[q] /\ now'[q] = now[q] /\ tick' = tick
    BY <1>2, OthersKeep, RequestTime
  <2>2. Expires(q)'
    BY <2>1 DEF Expires, Within
  <2>3. KeepsWatch(q)'
    BY <2>1 DEF KeepsWatch
  <2> QED
    BY <2>2, <2>3
<1> QED
  BY <1>1, <1>2

-----------------------------------------------------------------------------
\* The history, and what watch requests know of each other.

\* Only the commit of an armed row takes it out of the lapsed ones.
LEMMA LapsedKept ==
  ASSUME TypeInv, NEW r \in Req, Request(r), NEW i \in lapsed, i \notin lapsed'
  PROVE  /\ Commit(r) /\ i = row_id[r] /\ op[r] \in {"watch_start", "renew"} /\ i \in ActiveIds
         /\ now[r].connection_status \notin {"revoked", "disconnected"}
<1>1. CASE Started(r)
  BY <1>1 DEF Started
<1>2. CASE \/ Retire(r) \/ Lookup(r) \/ Attach(r) \/ Refreshed(r) \/ Refused(r) \/ Leave(r)
           \/ ServiceBuilt(r) \/ Arm(r) \/ Disarm(r)
  BY <1>2 DEF Retire, Lookup, Attach, Refreshed, Refused, Leave, ServiceBuilt, Arm, Disarm, watch
<1>3. CASE Commit(r)
  <2>1. now[r].connection_status # "disconnected"
    BY <1>3 DEF Commit
  <2> QED
    BY <1>3, <2>1 DEF Commit
<1> QED
  BY <1>1, <1>2, <1>3, Acts DEF BuiltAtOnce, BuiltAnew

\* The rows stay as they are but for four actions.
Writes(r) == Retire(r) \/ Attach(r) \/ Commit(r) \/ BuiltAnew(r)

LEMMA WritesOrNot ==
  ASSUME TypeInv, NEW r \in Req, Request(r)
  PROVE  rows' = rows \/ Writes(r)
BY Acts DEF Started, Takes, Asks, Looks, Refreshed, Refused, Leave, BuiltAtOnce, Arm, Disarm,
            Writes

LEMMA WritesHold ==
  ASSUME NEW r \in Req, Writes(r)
  PROVE  at[r] \in Holding /\ Write(r)
BY DEF Writes, Retire, Attach, Commit, BuiltAnew, Rereads, Holding, OnARow

LEMMA LapsedIsKnownNext ==
  ASSUME TypeInv, MailboxInv, LapsedIsKnown, NEW r \in Req, Request(r),
         CopyKept(r)
  PROVE  LapsedIsKnown'
<1>0. MailboxesDiffer /\ 0 \notin DOMAIN rows
  BY RowsType DEF MailboxInv
<1> SUFFICES ASSUME NEW i \in DOMAIN rows', rows'[i].connection_status = "disconnected"
             PROVE  i \in lapsed'
  BY DEF LapsedIsKnown, ActiveIds
<1>1. ASSUME i \in DOMAIN rows, rows[i].connection_status = "disconnected"
      PROVE  i \in lapsed'
  BY <1>0, <1>1, LapsedKept DEF LapsedIsKnown, ActiveIds
<1>2. CASE rows' = rows
  BY <1>1, <1>2
<1>3. ASSUME Writes(r), row_id[r] # 0, i # row_id[r]
      PROVE  i \in lapsed'
  BY <1>1, <1>3, WritesHold, RowRewritten
<1>4. ASSUME Writes(r), i = row_id[r], i # 0
      PROVE  i \in lapsed'
  <2>1. /\ rows'[i].connection_status \in {now[r].connection_status, rows[i].connection_status}
        /\ now[r].connection_status = was[r].connection_status =>
               rows'[i].connection_status = rows[i].connection_status
        /\ i \in DOMAIN rows
    BY <1>4, WritesHold, WatchWritten, RowRewritten
  <2>2. CASE now[r].connection_status # "disconnected"
    BY <1>1, <2>1, <2>2
  <2>3. CASE now[r].connection_status = was[r].connection_status
    BY <1>1, <2>1, <2>3
  <2>4. CASE at[r] = "attach"
    BY <1>4, <2>2, <2>3, <2>4 DEF CopyKept
  <2>5. CASE BuiltAnew(r)
    BY <2>3, <2>5 DEF CopyKept, BuiltAnew, Rereads
  <2>6. CASE Retire(r)
    BY <1>4, <2>6 DEF Retire
  <2>7. CASE Commit(r)
    BY <1>4, <2>2, <2>7 DEF Commit
  <2> QED
    BY <1>4, <2>4, <2>5, <2>6, <2>7 DEF Writes, Attach
<1>5. ASSUME Writes(r), row_id[r] = 0
      PROVE  i \in lapsed'
  <2>1. now[r].connection_status = "connected"
    BY <1>5, WritesHold, RowAdded DEF CopyKept
  <2> QED
    BY <1>1, <1>5, <2>1, WritesHold, RowAdded
<1>6. i # 0
  <2>1. CASE rows' = rows
    BY <1>0, <2>1
  <2>2. CASE Writes(r)
    BY <2>2, WritesHold, RowRewritten, RowAdded, RowsType
  <2> QED
    BY <1>0, <2>1, <2>2, WritesOrNot
<1> QED
  BY <1>0, <1>2, <1>3, <1>4, <1>5, <1>6, WritesOrNot

\* A watch request holds its row until it ends.
LEMMA WatchGoesOn ==
  ASSUME TypeInv, NEW r \in Req, Request(r), op'[r] \in WatchOps
  PROVE  \/ Started(r)
         \/ op'[r] = op[r] /\ row_id'[r] = row_id[r] /\ renewal' = renewal
<1>1. CASE Retire(r) \/ Refreshed(r) \/ Refused(r) \/ ServiceBuilt(r) \/ Arm(r) \/ Disarm(r)
  BY <1>1, GoesOn DEF Retire, Refreshed, Refused, ServiceBuilt, Arm, Disarm
<1>2. ~(Attach(r) \/ Commit(r) \/ Leave(r))
  BY EndsIdle DEF WatchOps
<1>3. ~Lookup(r)
  <2>1. Lookup(r) => op[r] = "callback" /\ op'[r] = op[r]
    BY DEF Lookup, TypeInv, Shape, CallbackPlaces
  <2> QED
    BY <2>1 DEF WatchOps
<1> QED
  BY <1>1, <1>2, <1>3, Acts DEF BuiltAtOnce, BuiltAnew

LEMMA CrossedKnownNext ==
  ASSUME TypeInv, CrossedKnown, NEW r \in Req, Request(r)
  PROVE  CrossedKnown'
<1>1. \A q \in Req : q # r => op'[q] = op[q] /\ row_id'[q] = row_id[q]
  BY OthersKeep
<1>2. crossed \subseteq crossed'
  BY RequestTime
<1>3. ASSUME NEW q \in Req, q # r, op'[r] \in WatchOps, op[q] \in WatchOps,
             row_id[q] = row_id'[r]
      PROVE  row_id'[r] \in crossed'
  <2>1. CASE Started(r)
    BY <1>3, <2>1 DEF Started
  <2>2. CASE op'[r] = op[r] /\ row_id'[r] = row_id[r]
    BY <1>2, <1>3, <2>2 DEF CrossedKnown
  <2> QED
    BY <1>3, <2>1, <2>2, WatchGoesOn
<1> QED
  BY <1>1, <1>2, <1>3 DEF CrossedKnown

LEMMA WatchersHold ==
  ASSUME TypeInv, NEW q \in Req, op[q] \in WatchOps
  PROVE  at[q] \in OnARow /\ row_id[q] \in DOMAIN rows /\ row_id[q] # 0
<1>1. at[q] \in OnARow
  BY Basics DEF TypeInv, Shape, OnARow, CallbackPlaces, WatchOps, Place
<1>2. row_id[q] \in DOMAIN rows
  BY <1>1 DEF TypeInv, Shape
<1> QED
  BY <1>1, <1>2, RowsType

\* Two watch requests on one mailbox are on one row, and known to overlap.
LEMMA SameRowCrossed ==
  ASSUME TypeInv, MailboxInv, CrossedKnown, NEW r \in Req, NEW q \in Req, q # r,
         op[r] \in WatchOps, op[q] \in WatchOps,
         now[q].mailbox_email = now[r].mailbox_email \/ row_id[q] = row_id[r]
  PROVE  row_id[q] \in crossed
<1>1. /\ at[r] \in OnARow /\ row_id[r] \in DOMAIN rows /\ row_id[r] # 0
      /\ at[q] \in OnARow /\ row_id[q] \in DOMAIN rows /\ row_id[q] # 0
  BY WatchersHold
<1>2. row_id[q] = row_id[r]
  BY <1>1 DEF MailboxInv, MailboxesDiffer, SameMailbox, Holding
<1> QED
  BY <1>2 DEF CrossedKnown

LEMMA SeesWatchNext ==
  ASSUME TypeInv, MailboxInv, CrossedKnown, NEW r \in Req, Request(r), NEW q \in Req,
         SeesWatch(q), KeepsWatch(r)
  PROVE  SeesWatch(q)'
<1>0. MailboxesDiffer /\ crossed \subseteq crossed'
  BY RequestTime DEF MailboxInv
<1> SUFFICES ASSUME op'[q] \in WatchOps, row_id'[q] \notin crossed'
             PROVE  SameWatch(rows'[row_id'[q]], was'[q])
  BY DEF SeesWatch, SameWatch
<1>1. CASE q = r
  <2>1. CASE Started(r)
    <3>1. Takes(r)
      BY <1>1, <2>1 DEF Started, Asks
    <3> QED
      BY <1>1, <3>1 DEF Takes, SameWatch
  <2>2. CASE BuiltAnew(r)
    BY <1>1, <2>2 DEF BuiltAnew, Rereads, SameWatch
  <2>3. CASE Refreshed(r) \/ Refused(r) \/ BuiltAtOnce(r) \/ Arm(r) \/ Disarm(r)
    <3>1. /\ rows' = rows /\ row_id'[r] = row_id[r] /\ was'[r] = was[r] /\ op'[r] = op[r]
      BY <2>3 DEF Refreshed, Refused, BuiltAtOnce, ServiceBuilt, Arm, Disarm
    <3> QED
      BY <1>0, <1>1, <3>1 DEF SeesWatch
  <2>4. ~(Attach(r) \/ Commit(r) \/ Leave(r))
    BY <1>1, EndsIdle DEF WatchOps
  <2>5. ~(Lookup(r) \/ Retire(r))
    <3>1. Lookup(r) \/ Retire(r) => op[r] = "callback" /\ op'[r] = op[r]
      BY DEF Lookup, Retire, TypeInv, Shape, CallbackPlaces
    <3> QED
      BY <1>1, <3>1 DEF WatchOps
  <2> QED
    BY <1>0, <2>1, <2>2, <2>3, <2>4, <2>5, Acts
<1>2. CASE q # r
  <2>1. op'[q] = op[q] /\ row_id'[q] = row_id[q] /\ was'[q] = was[q]
    BY <1>2, OthersKeep
  <2>2. SameWatch(rows[row_id[q]], was[q])
    BY <1>0, <2>1 DEF SeesWatch
  <2>3. row_id[q] \in DOMAIN rows /\ row_id[q] # 0
    BY <2>1, WatchersHold
  <2>4. SameWatch(rows'[row_id[q]], rows[row_id[q]])
    <3>1. CASE rows' = rows
      BY <3>1 DEF SameWatch
    <3>2. CASE Writes(r) /\ row_id[r] # row_id[q]
      BY <2>3, <3>2, WritesHold, RowRewritten, RowAdded DEF SameWatch
    <3>3. CASE Writes(r) /\ row_id[r] = row_id[q]
      <4>1. op[r] \notin WatchOps
        BY <1>0, <1>2, <2>1, <3>3, SameRowCrossed
      <4>2. SameWatch(now[r], was[r])
        BY <3>3, <4>1, WritesHold DEF KeepsWatch
      <4> QED
        BY <2>3, <3>3, <4>2, WritesHold, WatchWritten
    <3> QED
      BY <1>0, <3>1, <3>2, <3>3, WritesOrNot
  <2> QED
    BY <2>1, <2>2, <2>4 DEF SameWatch
<1> QED
  BY <1>1, <1>2

LEMMA OutcomeOfOne ==
  ASSUME TypeInv, RenewedInTime, NEW r \in Req, Request(r), KeepsWatch(r)
  PROVE  Outcome(r)'
<1> SUFFICES ASSUME at'[r] = "commit", op'[r] \in WatchOps
             PROVE  /\ op'[r] = "watch_stop" => SameWatch(now'[r], was'[r]) \/ IsDisarmed(r)'
                    /\ op'[r] \in {"watch_start", "renew"} => IsArmed(r)' \/ HasFailed(r)'
  BY DEF Outcome, WatchOps, SameWatch
<1>1. CASE Arm(r)
  <2>1. /\ op'[r] = op[r] /\ op[r] \in {"watch_start", "renew"} /\ tick' = tick
        /\ armed' = [armed EXCEPT ![now[r].mailbox_email] = tick + WatchFor]
    BY <1>1 DEF Arm
  <2>2. /\ now[r].mailbox_email \in Mailbox /\ now'[r].mailbox_email = now[r].mailbox_email
        /\ now'[r].monitoring_mode = "push"
        /\ now'[r].last_watch_expiration = tick + WatchFor
    BY <1>1, ArmColumns DEF Connection
  <2>3. armed'[now'[r].mailbox_email] = tick + WatchFor
    BY <2>1, <2>2, Basics
  <2>4. tick + WatchFor > Until(tick) /\ tick + WatchFor \in Nat
    BY ArmedLongEnough
  <2>5. armed'[now'[r].mailbox_email] > Until(tick')
    BY <2>1, <2>3, <2>4
  <2>6. now'[r].last_watch_expiration <= armed'[now'[r].mailbox_email]
    BY <2>2, <2>3, <2>4
  <2> QED
    BY <2>1, <2>2, <2>5, <2>6 DEF IsArmed
<1>2. CASE Disarm(r)
  BY <1>2, DisarmColumns DEF IsDisarmed, Disarm
<1>3. CASE Refused(r)
  <2>1. /\ op'[r] = op[r] /\ was'[r] = was[r] /\ row_id'[r] = row_id[r] /\ at[r] = "using"
        /\ op[r] = "renew" => row_id[r] \in lapsed'
    BY <1>3 DEF Refused
  <2>2. SameWatch(now'[r], now[r]) /\ now'[r].connection_status = "revoked"
    BY <1>3, RefusedColumns DEF SameWatch
  <2>3. SameWatch(now[r], was[r])
    BY <2>1 DEF KeepsWatch, Holding, OnARow
  <2> QED
    BY <2>1, <2>2, <2>3 DEF SameWatch, HasFailed
<1>4. ~Started(r)
  BY DEF Started
<1>5. ~(Retire(r) \/ Lookup(r) \/ ServiceBuilt(r) \/ Attach(r) \/ Commit(r) \/ Leave(r))
  BY EndsIdle, Basics DEF Retire, Lookup, ServiceBuilt, Goes
<1>6. ~Refreshed(r)
  BY Basics DEF Refreshed, Goes
<1> QED
  BY <1>1, <1>2, <1>3, <1>4, <1>5, <1>6, Acts DEF BuiltAtOnce, BuiltAnew

LEMMA OutcomeNext ==
  ASSUME TypeInv, MailboxInv, RenewedInTime, CrossedKnown, NEW r \in Req, Request(r),
         NEW q \in Req, Outcome(q), KeepsWatch(r)
  PROVE  Outcome(q)'
<1>0. MailboxesDiffer /\ crossed \subseteq crossed' /\ tick' = tick
  BY RequestTime DEF MailboxInv
<1>1. CASE q = r
  BY <1>0, <1>1, OutcomeOfOne
<1>2. CASE q # r
  <2>1. /\ at'[q] = at[q] /\ op'[q] = op[q] /\ row_id'[q] = row_id[q]
        /\ was'[q] = was[q] /\ now'[q] = now[q]
    BY <1>2, OthersKeep
  <2> SUFFICES ASSUME at[q] = "commit", row_id[q] \notin crossed, op[q] \in WatchOps
               PROVE  Outcome(q)'
    BY <1>0, <2>1 DEF Outcome, WatchOps
  <2>2. armed'[now[q].mailbox_email] = armed[now[q].mailbox_email]
    <3>1. ASSUME op[r] \in WatchOps, DOMAIN armed = Mailbox, now[r].mailbox_email \in Mailbox,
                 NEW t, armed' = [armed EXCEPT ![now[r].mailbox_email] = t]
          PROVE  armed'[now[q].mailbox_email] = armed[now[q].mailbox_email]
      <4>1. now[q].mailbox_email # now[r].mailbox_email
        BY <1>2, <3>1, SameRowCrossed
      <4> QED
        BY <3>1, <4>1
    <3>2. CASE Arm(r)
      <4>1. now[r].mailbox_email \in Mailbox
        BY <3>2, ArmColumns DEF Connection
      <4> QED
        BY <3>1, <3>2, <4>1, Basics DEF Arm, WatchOps
    <3>3. CASE Disarm(r)
      <4>1. now[r].mailbox_email \in Mailbox
        BY <3>3, DisarmColumns DEF Connection
      <4> QED
        BY <3>1, <3>3, <4>1, Basics DEF Disarm, WatchOps
    <3>4. CASE \/ Started(r) \/ Retire(r) \/ Lookup(r) \/ Attach(r) \/ Refreshed(r)
               \/ Refused(r) \/ Commit(r) \/ Leave(r) \/ ServiceBuilt(r)
      BY <3>4 DEF Started, Retire, Lookup, Attach, Refreshed, Refused, Commit, Leave,
                  ServiceBuilt, watch
    <3> QED
      BY <1>0, <3>2, <3>3, <3>4, Acts DEF BuiltAtOnce, BuiltAnew
  <2>3. row_id[q] \in lapsed => row_id[q] \in lapsed'
    <3>1. CASE op[r] \in WatchOps /\ row_id[q] = row_id[r]
      BY <1>2, <3>1, SameRowCrossed
    <3>2. CASE ~(op[r] \in WatchOps /\ row_id[q] = row_id[r])
      BY <1>0, <3>2, LapsedKept DEF WatchOps
    <3> QED
      BY <3>1, <3>2
  <2> QED
    BY <1>0, <2>1, <2>2, <2>3 DEF Outcome, IsArmed, Until, IsDisarmed, HasFailed, SameWatch
<1> QED
  BY <1>1, <1>2

-----------------------------------------------------------------------------
\* What Gmail pushes.

\* A step that leaves the row's watch and what Gmail does for it.
LEMMA PushKept ==
  ASSUME NEW i, PushHolds(i),
         rows'[i].mailbox_email = rows[i].mailbox_email, SameWatch(rows'[i], rows[i]),
         tick' = tick, armed'[rows[i].mailbox_email] = armed[rows[i].mailbox_email],
         renewal' = renewal \/ Renewing(i)' \/ i \in lapsed',
         crossed \subseteq crossed', i \in lapsed => i \in lapsed',
         Stopped(i) => Stopped(i)' \/ i \in lapsed',
         Renewing(i) => Renewing(i)' \/ i \in lapsed'
  PROVE  PushHolds(i)'
<1> SUFFICES ASSUME i \notin crossed', i \notin lapsed', ~Stopped(i)', Pushes(rows[i])
             PROVE  /\ Covered(rows[i])
                    /\ renewal' = "done" /\ ~Renewing(i)' => CoveredToday(rows[i])
  <2>1. Pushes(rows[i])' <=> Pushes(rows[i])
    BY DEF Pushes, SameWatch
  <2>2. Covered(rows[i])' <=> Covered(rows[i])
    BY DEF Covered, Since, SameWatch
  <2>3. CoveredToday(rows[i])' <=> CoveredToday(rows[i])
    BY DEF CoveredToday, Until
  <2> QED
    BY <2>1, <2>2, <2>3 DEF PushHolds
<1>1. i \notin crossed /\ i \notin lapsed /\ ~Stopped(i)
  OBVIOUS
<1> QED
  BY <1>1 DEF PushHolds

\* Another row's request, or one that goes on, leaves a row stopped or being
\* renewed; one that gives up leaves it lapsed.
LEMMA StoppedKept ==
  ASSUME TypeInv, NEW r \in Req, Request(r), NEW i, Stopped(i),
         ~(Commit(r) /\ op[r] \in WatchOps /\ row_id[r] = i)
  PROVE  Stopped(i)' \/ i \in lapsed'
<1>1. PICK s \in Req : op[s] = "watch_stop" /\ at[s] = "commit" /\ row_id[s] = i /\ IsDisarmed(s)
  BY DEF Stopped
<1>2. CASE s # r
  <2>1. /\ op'[s] = op[s] /\ at'[s] = at[s] /\ row_id'[s] = row_id[s] /\ now'[s] = now[s]
    BY <1>2, OthersKeep
  <2> QED
    BY <1>1, <2>1 DEF Stopped, IsDisarmed
<1>3. CASE s = r
  <2>1. ~(Started(r) \/ Retire(r) \/ Lookup(r) \/ Attach(r) \/ Refreshed(r) \/ Refused(r)
          \/ BuiltAtOnce(r) \/ BuiltAnew(r) \/ Arm(r) \/ Disarm(r))
    BY <1>1, <1>3 DEF Started, Takes, Asks, Retire, Lookup, Attach, Refreshed, Refused,
                      BuiltAtOnce, BuiltAnew, Rereads, Arm, Disarm
  <2>2. ~Commit(r)
    BY <1>1, <1>3 DEF WatchOps
  <2>3. Leave(r)
    BY <2>1, <2>2, Acts
  <2> QED
    BY <1>1, <1>3, <2>3 DEF Leave
<1> QED
  BY <1>2, <1>3

LEMMA RenewingKept ==
  ASSUME TypeInv, NEW r \in Req, Request(r), NEW i, Renewing(i),
         ~(Commit(r) /\ op[r] \in WatchOps /\ row_id[r] = i)
  PROVE  Renewing(i)' \/ i \in lapsed'
<1>1. PICK s \in Req : op[s] = "renew" /\ row_id[s] = i
  BY DEF Renewing
<1>2. CASE s # r
  <2>1. op'[s] = op[s] /\ row_id'[s] = row_id[s]
    BY <1>2, OthersKeep
  <2> QED
    BY <1>1, <2>1 DEF Renewing
<1>3. CASE s = r
  <2>1. at[r] \in OnARow
    BY <1>1, <1>3, WatchersHold DEF WatchOps
  <2>2. ~(Started(r) \/ Lookup(r) \/ Attach(r))
    BY <2>1 DEF Started, Takes, Asks, Lookup, Attach, OnARow
  <2>3. CASE Leave(r)
    BY <1>1, <1>3, <2>3 DEF Leave
  <2>4. CASE Retire(r) \/ Refreshed(r) \/ Refused(r) \/ ServiceBuilt(r) \/ Arm(r) \/ Disarm(r)
    <3>1. op'[r] = op[r] /\ row_id'[r] = row_id[r]
      BY <2>4 DEF Retire, Refreshed, Refused, ServiceBuilt, Arm, Disarm
    <3> QED
      BY <1>1, <1>3, <3>1 DEF Renewing
  <2>5. ~Commit(r)
    BY <1>1, <1>3 DEF WatchOps
  <2> QED
    BY <2>2, <2>3, <2>4, <2>5, Acts DEF BuiltAtOnce, BuiltAnew
<1> QED
  BY <1>2, <1>3

LEMMA ArmedIsNat ==
  ASSUME TypeInv, NEW mailbox \in Mailbox
  PROVE  armed[mailbox] \in Nat
<1>1. armed[mailbox] \in 0..MaxTicks + WatchFor
  BY Basics
<1> QED
  BY <1>1, Numbers

LEMMA BeforeTheNext ==
  ASSUME TypeInv, NEW end \in Nat, end > Until(tick)
  PROVE  end > tick /\ end > Since(tick)
<1>1. /\ tick \in Nat /\ Until(tick) \in Nat /\ tick + 1 <= Until(tick)
      /\ Since(tick) \in Nat /\ Since(tick) <= tick
  BY Numbers, DayBounds
<1> QED
  BY <1>1

LEMMA CommitHolds ==
  ASSUME TypeInv, MailboxInv, CrossedKnown, RenewedInTime, RowsExpire, NEW r \in Req,
         Request(r), Commit(r), op[r] \in WatchOps, NEW i, i = row_id[r],
         Expires(r), SeesWatch(r), Outcome(r), PushHolds(i)
  PROVE  PushHolds(i)'
<1>0. /\ i \in DOMAIN rows /\ i # 0 /\ at[r] = "commit" /\ at[r] \in Holding /\ Write(r)
      /\ tick' = tick /\ crossed \subseteq crossed' /\ MailboxesDiffer
      /\ armed' = armed /\ renewal' = renewal
  BY WatchersHold, RequestTime DEF Commit, MailboxInv, Holding, OnARow
<1> SUFFICES ASSUME i \notin crossed, i \notin lapsed', Pushes(rows'[i])
             PROVE  PushHolds(i)'
  BY <1>0 DEF PushHolds, Pushes
<1>1. rows'[i].mailbox_email = rows[i].mailbox_email /\ rows[i] \in Connection
      /\ now[r] \in Connection /\ was[r].mailbox_email = rows[i].mailbox_email
  BY <1>0, RowRewritten DEF MailboxInv, SameMailbox
<1>2. SameWatch(rows'[i], now[r])
  BY <1>0, WatchWritten DEF SeesWatch
<1>3. ~IsDisarmed(r)
  BY <1>2 DEF Pushes, IsDisarmed, SameWatch
<1>4. ~Stopped(i)
  BY <1>0, <1>3, SameRowCrossed DEF Stopped, WatchOps
<1>5. Renewing(i) => op[r] = "renew"
  BY <1>0, SameRowCrossed DEF Renewing, WatchOps
<1>6. ASSUME SameWatch(now[r], was[r]), i \in lapsed => i \in lapsed',
             op[r] = "renew" => i \in lapsed'
      PROVE  PushHolds(i)'
  <2>1. SameWatch(rows'[i], rows[i])
    BY <1>0, <1>6, WatchWritten
  <2> QED
    BY <1>0, <1>1, <1>4, <1>5, <1>6, <2>1, PushKept
<1>7. CASE op[r] = "watch_stop"
  <2>1. SameWatch(now[r], was[r])
    BY <1>0, <1>3, <1>7 DEF Outcome
  <2>2. i \in lapsed => i \in lapsed'
    BY <1>0, <1>7, LapsedKept
  <2> QED
    BY <1>6, <1>7, <2>1, <2>2
<1>8. CASE op[r] \in {"watch_start", "renew"}
  <2>1. CASE HasFailed(r)
    <3>1. i \in lapsed => i \in lapsed'
      BY <1>0, <2>1, LapsedKept DEF HasFailed
    <3> QED
      BY <1>6, <2>1, <3>1 DEF HasFailed
  <2>2. CASE IsArmed(r)
    <3>1. /\ armed[now[r].mailbox_email] \in Nat /\ now[r].last_watch_expiration \in Nat
      BY <1>0, <1>1, ArmedIsNat DEF Connection
    <3>2. /\ armed'[now[r].mailbox_email] > Since(tick)
          /\ armed'[now[r].mailbox_email] >= now[r].last_watch_expiration
          /\ armed'[now[r].mailbox_email] > Until(tick)
      BY <1>0, <2>2, <3>1, BeforeTheNext DEF IsArmed
    <3>3. /\ rows'[i].mailbox_email = now[r].mailbox_email
          /\ rows'[i].last_watch_expiration = now[r].last_watch_expiration
      BY <1>0, <1>1, <1>2 DEF MailboxInv, SameMailbox, SameWatch
    <3>4. Covered(rows[i])' /\ CoveredToday(rows[i])'
      BY <1>0, <3>2, <3>3 DEF Covered, CoveredToday, Until, Since
    <3> QED
      BY <3>4 DEF PushHolds
  <2> QED
    BY <1>0, <1>8, <2>1, <2>2 DEF Outcome
<1> QED
  BY <1>7, <1>8 DEF WatchOps

LEMMA ArmHolds ==
  ASSUME TypeInv, MailboxInv, RenewedInTime, RowsExpire, NEW r \in Req, Arm(r),
         NEW i \in DOMAIN rows, rows[i].mailbox_email = now[r].mailbox_email
  PROVE  PushHolds(i)'
<1>1. now[r].mailbox_email \in Mailbox /\ rows[i] \in Connection
  BY ArmColumns, RowsType DEF Connection
<1>2. tick' = tick /\ rows' = rows /\ armed'[rows[i].mailbox_email] = tick + WatchFor
  BY <1>1, Basics DEF Arm
<1>3. rows[i].last_watch_expiration <= tick + WatchFor /\ rows[i].last_watch_expiration \in Nat
  BY <1>1 DEF RowsExpire, Within, Connection
<1>4. tick + WatchFor > Since(tick) /\ tick + WatchFor > Until(tick) /\ tick + WatchFor \in Nat
  BY ArmedLongEnough
<1>5. Covered(rows[i])' /\ CoveredToday(rows[i])'
  BY <1>2, <1>3, <1>4 DEF Covered, CoveredToday, Until, Since
<1> QED
  BY <1>5 DEF PushHolds

LEMMA DisarmHolds ==
  ASSUME TypeInv, MailboxInv, NEW r \in Req, Disarm(r),
         NEW i \in DOMAIN rows, rows[i].mailbox_email = now[r].mailbox_email
  PROVE  PushHolds(i)'
<1>1. /\ op'[r] = "watch_stop" /\ at'[r] = "commit" /\ row_id'[r] = row_id[r]
      /\ op[r] \in WatchOps
  BY Basics DEF Disarm, Goes, WatchOps
<1>2. row_id[r] = i
  BY <1>1, WatchersHold DEF MailboxInv, MailboxesDiffer, SameMailbox, Holding
<1>3. IsDisarmed(r)'
  BY DisarmColumns DEF IsDisarmed
<1> QED
  BY <1>1, <1>2, <1>3 DEF PushHolds, Stopped

\* The row a request starts with is renewed, and the others have lapsed.
LEMMA StartRenews ==
  ASSUME TypeInv, OneActive, LapsedIsKnown, NEW r \in Req, Request(r), NEW i \in DOMAIN rows
  PROVE  renewal' = renewal \/ Renewing(i)' \/ i \in lapsed'
<1>1. CASE Started(r)
  <2>1. CASE renewal' = "done" /\ op'[r] = "renew" /\ Takes(r)
    <3>1. row_id'[r] \in ActiveIds
      BY <1>1, <2>1 DEF Started
    <3>2. CASE row_id'[r] = i
      BY <2>1, <3>2 DEF Renewing
    <3>3. CASE row_id'[r] # i
      <4>1. i \notin ActiveIds
        BY <3>1, <3>3 DEF OneActive
      <4> QED
        BY <1>1, <4>1 DEF LapsedIsKnown, Started
    <3> QED
      BY <3>2, <3>3
  <2> QED
    BY <1>1, <2>1 DEF Started
<1>2. CASE ~Started(r)
  <2>1. renewal' = renewal
    BY <1>2, Acts, GoesOn, EndsIdle DEF BuiltAtOnce, BuiltAnew
  <2> QED
    BY <2>1
<1> QED
  BY <1>1, <1>2

LEMMA PushHoldsNext ==
  ASSUME TypeInv, MailboxInv, OneActive, CrossedKnown, LapsedIsKnown, RowsExpire,
         RenewedInTime, NEW r \in Req, Request(r),
         Expires(r), KeepsWatch(r), SeesWatch(r), Outcome(r),
         NEW i \in DOMAIN rows, PushHolds(i)
  PROVE  PushHolds(i)'
<1>0. /\ TypeInv /\ MailboxInv /\ MailboxesDiffer /\ i # 0 /\ rows[i] \in Connection
      /\ tick' = tick /\ crossed \subseteq crossed'
  BY RequestTime, RowsType DEF MailboxInv
<1>1. CASE Commit(r) /\ op[r] \in WatchOps /\ row_id[r] = i
  BY <1>0, <1>1, CommitHolds
<1>2. CASE (Arm(r) \/ Disarm(r)) /\ now[r].mailbox_email = rows[i].mailbox_email
  BY <1>0, <1>2, ArmHolds, DisarmHolds
<1>3. CASE /\ ~(Commit(r) /\ op[r] \in WatchOps /\ row_id[r] = i)
           /\ ~((Arm(r) \/ Disarm(r)) /\ now[r].mailbox_email = rows[i].mailbox_email)
  <2>1. rows'[i].mailbox_email = rows[i].mailbox_email /\ SameWatch(rows'[i], rows[i])
    <3>1. CASE rows' = rows
      BY <3>1 DEF SameWatch
    <3>2. CASE Writes(r) /\ row_id[r] # i
      BY <1>0, <3>2, WritesHold, RowRewritten, RowAdded DEF SameWatch
    <3>3. CASE Writes(r) /\ row_id[r] = i
      <4>1. ~(op[r] \in WatchOps /\ at[r] = "commit")
        BY <1>3, <3>3 DEF Writes, Retire, Attach, BuiltAnew, Rereads
      <4>2. SameWatch(now[r], was[r])
        BY <3>3, <4>1, WritesHold DEF KeepsWatch
      <4> QED
        BY <1>0, <3>3, <4>2, WritesHold, WatchWritten, RowRewritten
    <3> QED
      BY <1>0, <3>1, <3>2, <3>3, WritesOrNot
  <2>2. armed'[rows[i].mailbox_email] = armed[rows[i].mailbox_email]
    <3>1. rows[i].mailbox_email \in Mailbox
      BY <1>0 DEF Connection
    <3>2. \/ armed' = armed
          \/ \E t : /\ armed' = [armed EXCEPT ![now[r].mailbox_email] = t]
                    /\ now[r].mailbox_email # rows[i].mailbox_email
      BY <1>0, <1>3, Acts DEF Started, Retire, Lookup, Attach, Refreshed, Refused, Commit,
         Leave, BuiltAtOnce, BuiltAnew, ServiceBuilt, Arm, Disarm, watch
    <3> QED
      BY <1>0, <3>1, <3>2, Basics
  <2>3. i \in lapsed => i \in lapsed'
    BY <1>0, <1>3, LapsedKept DEF WatchOps
  <2>4. Stopped(i) => Stopped(i)' \/ i \in lapsed'
    BY <1>0, <1>3, StoppedKept
  <2>5. Renewing(i) => Renewing(i)' \/ i \in lapsed'
    BY <1>0, <1>3, RenewingKept
  <2>6. renewal' = renewal \/ Renewing(i)' \/ i \in lapsed'
    BY StartRenews
  <2> QED
    BY <1>0, <2>1, <2>2, <2>3, <2>4, <2>5, <2>6, PushKept
<1> QED
  BY <1>1, <1>2, <1>3

\* A row that is added does not push.
LEMMA AddedDoesNotPush ==
  ASSUME TypeInv, MailboxInv, NEW r \in Req, Request(r), KeepsWatch(r), CopyKept(r),
         NEW i \in DOMAIN rows', i \notin DOMAIN rows
  PROVE  PushHolds(i)'
<1>1. Writes(r)
  BY WritesOrNot DEF MailboxInv
<1>2. row_id[r] = 0
  BY <1>1, WritesHold, RowRewritten
<1>3. at[r] = "attach" /\ rows'[i] = now[r]
  BY <1>1, <1>2, WritesHold, RowAdded
<1>4. now[r].monitoring_mode = "polling"
  BY <1>2, <1>3 DEF KeepsWatch, CopyKept, SameWatch, Holding
<1> QED
  BY <1>3, <1>4 DEF PushHolds, Pushes

LEMMA RenewalOnTimeNext ==
  ASSUME TypeInv, RenewalOnTime, NEW r \in Req, Request(r)
  PROVE  RenewalOnTime'
<1>1. tick' = tick
  BY RequestTime
<1>2. renewal' = "to come" => renewal = "to come"
  <2>1. CASE Started(r)
    BY <2>1 DEF Started
  <2>2. CASE ~Started(r)
    BY <2>2, Acts, GoesOn, EndsIdle DEF BuiltAtOnce, BuiltAnew
  <2> QED
    BY <2>1, <2>2
<1>3. ASSUME NEW q \in Req, op'[q] = "renew"
      PROVE  renewal = "to come" \/ op[q] = "renew"
  <2>1. CASE q # r
    BY <1>3, <2>1, OthersKeep
  <2>2. CASE q = r
    BY <1>3, <2>2, WatchGoesOn DEF Started, WatchOps
  <2> QED
    BY <2>1, <2>2
<1> QED
  BY <1>1, <1>2, <1>3 DEF RenewalOnTime

LEMMA WatchRequest ==
  ASSUME RowsInv, WatchInv, RenewedInTime, NEW r \in Req, Request(r), ~raced'
  PROVE  Watched'
<1>1. /\ TypeInv /\ MailboxInv /\ OneActive /\ CopyKept(r)
      /\ CrossedKnown /\ LapsedIsKnown /\ RowsExpire /\ RenewalOnTime
      /\ \A i \in DOMAIN rows : PushHolds(i)
      /\ \A q \in Req : Expires(q) /\ KeepsWatch(q) /\ SeesWatch(q) /\ Outcome(q)
  <2>1. [Next]_vars
    BY DEF Next
  <2>2. ~raced
    BY <2>1, RacedKept DEF RowsInv
  <2> QED
    BY <2>2 DEF RowsInv, WatchInv, Watched
<1>2. RowsExpire'
  BY <1>1, RowsExpireNext
<1>3. \A q \in Req : Expires(q)' /\ KeepsWatch(q)'
  BY <1>1, CopiesNext
<1>4. \A q \in Req : SeesWatch(q)' /\ Outcome(q)'
  BY <1>1, SeesWatchNext, OutcomeNext
<1>5. CrossedKnown' /\ LapsedIsKnown' /\ RenewalOnTime'
  BY <1>1, CrossedKnownNext, LapsedIsKnownNext, RenewalOnTimeNext
<1>6. \A i \in DOMAIN rows' : PushHolds(i)'
  BY <1>1, PushHoldsNext, AddedDoesNotPush
<1> QED
  BY <1>2, <1>3, <1>4, <1>5, <1>6 DEF Watched

\* With nothing to renew, a row that pushes has more than a day left.
LEMMA WatchRenewNothing ==
  ASSUME TypeInv, Watched, RenewedInTime, RenewNothing
  PROVE  Watched'
<1>1. /\ UNCHANGED <<rows, at, op, row_id, was, now, tick, armed, crossed>>
      /\ renewal = "to come" /\ renewal' = "done"
      /\ lapsed' = lapsed \cup {i \in ActiveIds : Due(rows[i])}
  BY DEF RenewNothing, session
<1>2. ASSUME NEW i \in DOMAIN rows
      PROVE  PushHolds(i)'
  <2> SUFFICES ASSUME i \notin crossed, i \notin lapsed', ~Stopped(i), Pushes(rows[i])
               PROVE  Covered(rows[i]) /\ CoveredToday(rows[i])
    BY <1>1 DEF PushHolds, Stopped, IsDisarmed, Pushes, Covered, CoveredToday, Until, Since
  <2>1. Covered(rows[i])
    BY <1>1 DEF Watched, PushHolds
  <2>2. i \in ActiveIds /\ ~Due(rows[i])
    BY <1>1 DEF Watched, LapsedIsKnown
  <2>3. rows[i] \in Connection
    BY RowsType
  <2>4. ~(rows[i].last_watch_expiration <= tick + RenewWithin)
    BY <2>2 DEF Due, Pushes
  <2>5. /\ armed[rows[i].mailbox_email] \in Nat
        /\ rows[i].last_watch_expiration \in Nat
        /\ armed[rows[i].mailbox_email] >= rows[i].last_watch_expiration
    <3>1. armed[rows[i].mailbox_email] \in Nat
      BY <2>3, ArmedIsNat DEF Connection
    <3> QED
      BY <2>1, <2>3, <3>1 DEF Covered, Connection
  <2>6. tick \in Nat /\ Day \in Nat /\ RenewWithin \in Nat /\ Day <= RenewWithin
    BY Numbers DEF RenewedInTime
  <2>7. Until(tick) \in Nat /\ Until(tick) <= tick + Day
    BY <2>6, DayBounds
  <2>8. armed[rows[i].mailbox_email] > Until(tick)
    BY <2>4, <2>5, <2>6, <2>7
  <2> QED
    BY <2>1, <2>8 DEF CoveredToday
<1>3. CrossedKnown' /\ LapsedIsKnown' /\ RowsExpire' /\ RenewalOnTime'
  BY <1>1 DEF Watched, CrossedKnown, LapsedIsKnown, ActiveIds, RowsExpire, Within,
              RenewalOnTime
<1>4. ASSUME NEW r \in Req
      PROVE  /\ Expires(r)' /\ KeepsWatch(r)'
             /\ SeesWatch(r)' /\ Outcome(r)'
  <2>1. Expires(r)' /\ KeepsWatch(r)'
    BY <1>1 DEF Watched, Expires, Within, KeepsWatch
  <2>2. SeesWatch(r)' /\ Outcome(r)'
    BY <1>1 DEF Watched, SeesWatch, Outcome, IsArmed, Until, IsDisarmed, HasFailed
  <2> QED
    BY <2>1, <2>2
<1> QED
  BY <1>1, <1>2, <1>3, <1>4 DEF Watched

\* A day does not end before its renewal.
LEMMA WatchTick ==
  ASSUME TypeInv, Watched, Tick
  PROVE  Watched'
<1>0. PICK here \in Nat, there \in Nat : here = tick % Day /\ there = (tick + 1) % Day
  <2>1. tick \in Nat /\ tick + 1 \in Nat
    BY Numbers
  <2> QED
    BY <2>1, DayBounds
<1>1. /\ UNCHANGED <<rows, at, op, row_id, was, now, armed, crossed, lapsed>>
      /\ tick' = tick + 1
      /\ renewal' = IF there = 0 THEN "to come" ELSE renewal
      /\ renewal = "to come" \/ (\E r \in Req : op[r] = "renew") => here < Jitter
  BY <1>0 DEF Tick, session
<1>2. /\ tick \in Nat /\ Day \in Nat \ {0} /\ WatchFor \in Nat
      /\ Jitter \in Nat /\ Jitter < Day /\ tick + 1 \in Nat
  BY Numbers
<1>3. /\ Until(tick) \in Nat /\ tick + 1 <= Until(tick)
      /\ tick + 1 = Since(tick + 1) + there /\ Since(tick + 1) \in Nat
  BY <1>0, <1>2, DayBounds
<1>4. there # 0 =>
          /\ there = here + 1
          /\ Until(tick + 1) = Until(tick) /\ Since(tick + 1) = Since(tick)
  BY <1>0, <1>2, SameDay
<1>5. there = 0 => here = Day - 1
  BY <1>0, <1>2, LastOfTheDay
<1>6. RenewalOnTime'
  <2>1. there = 0 \/ here < Jitter => there <= Jitter
    BY <1>2, <1>4
  <2>2. renewal' = "to come" \/ (\E r \in Req : op'[r] = "renew") =>
            there = 0 \/ here < Jitter
    BY <1>1
  <2>3. tick' % Day = there
    BY <1>0, <1>1
  <2> QED
    BY <2>1, <2>2, <2>3 DEF RenewalOnTime
<1>7. ASSUME NEW i \in DOMAIN rows
      PROVE  PushHolds(i)'
  <2> SUFFICES ASSUME i \notin crossed, i \notin lapsed, ~Stopped(i), Pushes(rows[i])
               PROVE  /\ Covered(rows[i])'
                      /\ renewal' = "done" /\ ~Renewing(i) => CoveredToday(rows[i])'
    BY <1>1 DEF PushHolds, Pushes, Stopped, IsDisarmed, Renewing
  <2>1. /\ Covered(rows[i])
        /\ renewal = "done" /\ ~Renewing(i) => CoveredToday(rows[i])
    BY DEF Watched, PushHolds
  <2>2. armed[rows[i].mailbox_email] \in Nat
    BY ArmedIsNat, RowsType DEF Connection
  <2>3. CASE there # 0
    BY <1>1, <1>4, <2>1, <2>3 DEF Covered, CoveredToday
  <2>4. CASE there = 0
    <3>1. ~(here < Jitter)
      BY <1>2, <1>5, <2>4
    <3>2. renewal = "done" /\ ~Renewing(i)
      BY <1>1, <3>1, Basics DEF Renewing
    <3>3. armed[rows[i].mailbox_email] > tick + 1
      BY <1>2, <1>3, <2>1, <2>2, <3>2 DEF CoveredToday
    <3>4. Since(tick + 1) <= tick + 1
      BY <1>2, DayBounds
    <3>5. armed[rows[i].mailbox_email] > Since(tick + 1)
      BY <1>2, <1>3, <2>2, <3>3, <3>4
    <3>6. renewal' # "done"
      BY <1>1, <2>4
    <3> QED
      BY <1>1, <2>1, <3>5, <3>6 DEF Covered
  <2> QED
    BY <2>3, <2>4
<1>8. CrossedKnown' /\ LapsedIsKnown'
  BY <1>1 DEF Watched, CrossedKnown, LapsedIsKnown, ActiveIds
<1>9. \A row \in Connection : Within(row) => Within(row)'
  <2> SUFFICES ASSUME NEW row \in Connection, row.last_watch_expiration <= tick + WatchFor
               PROVE  row.last_watch_expiration <= (tick + 1) + WatchFor
    BY <1>1 DEF Within
  <2>1. row.last_watch_expiration \in Nat
    BY DEF Connection
  <2> QED
    BY <1>2, <2>1
<1>10. RowsExpire'
  BY <1>1, <1>9, RowsType DEF Watched, RowsExpire
<1>11. ASSUME NEW r \in Req
       PROVE  Expires(r)' /\ KeepsWatch(r)' /\ SeesWatch(r)' /\ Outcome(r)'
  <2>1. Expires(r) /\ KeepsWatch(r) /\ SeesWatch(r) /\ Outcome(r)
    BY DEF Watched
  <2>2. at[r] \in Holding => was[r] \in Connection /\ now[r] \in Connection
    BY DEF TypeInv, Shape
  <2>3. Expires(r)'
    BY <1>1, <1>9, <2>1, <2>2 DEF Expires
  <2>4. KeepsWatch(r)' /\ SeesWatch(r)'
    BY <1>1, <2>1 DEF KeepsWatch, SeesWatch
  <2>5. Outcome(r)'
    <3>1. CASE op[r] = "renew"
      <4>1. there # 0
        <5>1. here < Jitter
          BY <1>1, <3>1
        <5> QED
          BY <1>2, <1>5, <5>1
      <4>2. Until(tick') = Until(tick)
        BY <1>1, <1>4, <4>1
      <4> QED
        BY <1>1, <2>1, <4>2 DEF Outcome, IsArmed, IsDisarmed, HasFailed
    <3>2. CASE op[r] # "renew"
      <4>1. at[r] = "idle"
        BY <3>2 DEF Tick
      <4> QED
        BY <1>1, <4>1 DEF Outcome
    <3> QED
      BY <3>1, <3>2
  <2> QED
    BY <2>3, <2>4, <2>5
<1> QED
  BY <1>1, <1>6, <1>7, <1>8, <1>10, <1>11 DEF Watched

LEMMA WatchNext == RowsInv /\ WatchInv /\ RenewedInTime /\ [Next]_vars => WatchInv'
<1> SUFFICES ASSUME RowsInv, WatchInv, RenewedInTime, [Next]_vars, ~raced'
             PROVE  Watched'
  BY DEF WatchInv
<1>1. TypeInv /\ Watched
  <2>1. TypeInv
    BY DEF RowsInv
  <2> QED
    BY <2>1, RacedKept DEF WatchInv
<1>2. CASE UNCHANGED vars
  <2>1. UNCHANGED <<rows, at, op, row_id, was, now, tick, armed, crossed, lapsed, renewal>>
    BY <1>2 DEF vars, session, watch
  <2>2. CrossedKnown' /\ LapsedIsKnown' /\ RowsExpire' /\ RenewalOnTime'
    BY <1>1, <2>1 DEF Watched, CrossedKnown, LapsedIsKnown, ActiveIds, RowsExpire, Within,
                      RenewalOnTime
  <2>3. \A i \in DOMAIN rows : PushHolds(i)'
    BY <1>1, <2>1 DEF Watched, PushHolds, Stopped, IsDisarmed, Renewing, Pushes, Covered,
                      CoveredToday, Until, Since
  <2>4. ASSUME NEW r \in Req
        PROVE  Expires(r)' /\ KeepsWatch(r)'
    BY <1>1, <2>1 DEF Watched, Expires, Within, KeepsWatch
  <2>5. ASSUME NEW r \in Req
        PROVE  SeesWatch(r)' /\ Outcome(r)'
    BY <1>1, <2>1 DEF Watched, SeesWatch, Outcome, IsArmed, Until, IsDisarmed, HasFailed
  <2> QED
    BY <2>1, <2>2, <2>3, <2>4, <2>5 DEF Watched
<1> QED
  BY <1>1, <1>2, WatchRequest, WatchRenewNothing, WatchTick DEF Next

LEMMA WatchInit == Init => WatchInv
<1> SUFFICES ASSUME Init PROVE Watched
  BY DEF WatchInv
<1>1. TypeInv
  BY TypeInit
<1>2. \A r \in Req : at[r] = "idle" /\ op[r] = "none"
  BY DEF Init
<1>3. ASSUME NEW i \in DOMAIN rows
      PROVE  /\ rows[i].monitoring_mode = "polling" /\ rows[i].last_watch_expiration = 0
             /\ rows[i].connection_status = "connected"
  <2>1. rows[i] = [NewConnection(Connected[i]) EXCEPT !.refresh_token = i]
    BY DEF Init
  <2> QED
    BY <2>1 DEF NewConnection
<1>4. RowsExpire
  BY <1>1, <1>3, WithinStart DEF RowsExpire
<1>5. LapsedIsKnown /\ CrossedKnown
  BY <1>2, <1>3 DEF LapsedIsKnown, ActiveIds, CrossedKnown, WatchOps
<1>6. \A i \in DOMAIN rows : PushHolds(i)
  BY <1>3 DEF PushHolds, Pushes
<1>7. \A r \in Req : Expires(r) /\ KeepsWatch(r) /\ SeesWatch(r) /\ Outcome(r)
  BY <1>2 DEF Expires, KeepsWatch, SeesWatch, Outcome, Holding, OnARow, WatchOps
<1>8. RenewalOnTime
  <2>1. tick = 0
    BY DEF Init
  <2>2. (0 % Day) = 0
    BY Numbers
  <2>3. 0 <= Jitter
    BY Numbers
  <2> QED
    BY <2>1, <2>2, <2>3 DEF RenewalOnTime
<1> QED
  BY <1>4, <1>5, <1>6, <1>7, <1>8 DEF Watched

\* A mailbox shown as pushing is one Gmail pushes for, but for the ticks a
\* renewal may be late: whatever tokens are refreshed or refused, watches
\* started, stopped or renewed and the mailbox paused, resumed or replaced on
\* the way, unless two watch requests overlapped on it, it was left without its
\* renewal, or callbacks raced.
THEOREM PushIsKeptAlive ==
  ASSUME ConnectedOnce, RenewedInTime
  PROVE  Spec => []PushLapsesBriefly
<1>1. RowsInv /\ WatchInv /\ RenewedInTime /\ [Next]_vars => (RowsInv /\ WatchInv)'
  BY RowsNext, WatchNext
<1>2. Init /\ ConnectedOnce => RowsInv /\ WatchInv
  BY RowsInit, WatchInit
<1>3. RowsInv /\ WatchInv => PushLapsesBriefly
  <2> SUFFICES ASSUME RowsInv, Watched,
                      NEW i \in ActiveIds, i \notin crossed, i \notin lapsed,
                      i \notin {row_id[r] : r \in {q \in Req : op[q] = "watch_stop"}},
                      rows[i].monitoring_mode = "push", rows[i].last_watch_expiration # 0
               PROVE  armed[rows[i].mailbox_email] + Jitter > tick
    BY DEF PushLapsesBriefly, WatchInv
  <2>1. /\ Covered(rows[i])
        /\ renewal = "done" /\ ~Renewing(i) => CoveredToday(rows[i])
    BY DEF Watched, PushHolds, Stopped, Pushes, ActiveIds
  <2>2. TypeInv /\ i \in DOMAIN rows
    BY DEF RowsInv, ActiveIds
  <2>3. armed[rows[i].mailbox_email] \in Nat
    BY <2>2, ArmedIsNat, RowsType DEF Connection
  <2>4. tick \in Nat /\ Jitter \in Nat
    BY <2>2, Numbers
  <2>5. CASE renewal = "done" /\ ~Renewing(i)
    <3>1. armed[rows[i].mailbox_email] > tick
      BY <2>1, <2>2, <2>3, <2>5, BeforeTheNext DEF CoveredToday
    <3> QED
      BY <2>3, <2>4, <3>1
  <2>6. CASE ~(renewal = "done" /\ ~Renewing(i))
    <3>1. (tick % Day) <= Jitter
      BY <2>2, <2>6, Basics DEF Watched, RenewalOnTime, Renewing
    <3>2. tick = Since(tick) + (tick % Day) /\ Since(tick) \in Nat /\ (tick % Day) \in Nat
      BY <2>4, DayBounds
    <3> QED
      BY <2>1, <2>3, <2>4, <3>1, <3>2 DEF Covered
  <2> QED
    BY <2>5, <2>6
<1> QED
  BY <1>1, <1>2, <1>3, PTL DEF Spec
=============================================================================
