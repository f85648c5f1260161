---------------------------- MODULE GmailReview ----------------------------
(***************************************************************************)
(* Administrators deciding on the Scan rows of the connected mailbox while *)
(* the passes of GmailSync go on: admin_action (release, confirm) and      *)
(* submit_feedback in app.py.                                              *)
(*                                                                         *)
(* A request loads the row into its session, changes the object in memory, *)
(* calls Gmail, and commits.  The commit is an UPDATE of the columns whose *)
(* value differs from the loaded one, with no version check, so a request  *)
(* is a step of its own at each of: load, token refresh (which commits the *)
(* whole session early), reload, Gmail call, commit.  The fourth action,   *)
(* escalate, only writes a note and is left out.                           *)
(***************************************************************************)
EXTENDS GmailSync

CONSTANTS
    Admin,       \* administrators with a request in progress
    MaxReviews   \* how many decisions are made, a bound of the model

ASSUME GmailReviewAssumption == MaxReviews \in Nat

VARIABLES
    at,        \* where the request of an administrator is
    item,      \* the message whose row it has loaded
    decision,  \* what was decided
    seen,      \* the row as loaded
    mine,      \* the row as changed in the session
    decided,   \* the last committed decision on each message
    disputed,  \* messages on which requests overlapped, or one died (history)
    reviews_left

request    == <<at, item, decision, seen, mine>>
reviewVars == <<request, decided, disputed, reviews_left>>
allVars    == <<vars, reviewVars>>

Decision == {"release", "confirm", "feedback_phishing", "feedback_legitimate"}
MailboxDecision == {"release", "confirm"}
Place == {"idle", "opened", "refreshed", "refused", "call", "commit"}

ReviewTypeOK ==
    /\ at \in [Admin -> Place]
    /\ item \in [Admin -> Msg \cup {NoMsg}]
    /\ decision \in [Admin -> Decision \cup {"none"}]
    /\ seen \in [Admin -> Row] /\ mine \in [Admin -> Row]
    /\ decided \in [Msg -> Decision \cup {"none"}]
    /\ disputed \subseteq Msg
    /\ reviews_left \in 0..MaxReviews

ReviewInit ==
    /\ Init
    /\ at = [a \in Admin |-> "idle"]
    /\ item = [a \in Admin |-> NoMsg]
    /\ decision = [a \in Admin |-> "none"]
    /\ seen = [a \in Admin |-> BlankRow] /\ mine = [a \in Admin |-> BlankRow]
    /\ decided = [m \in Msg |-> "none"]
    /\ disputed = {}
    /\ reviews_left = MaxReviews

-----------------------------------------------------------------------------
\* The verdict a decision stands for.
VerdictOf(d) ==
    IF d \in {"confirm", "feedback_phishing"} THEN "Phishing" ELSE "Legitimate"

\* Mutant of Decide: the decision is noted but the verdict stays.
DecideNoteOnly(row, d) ==
    IF d = "release" THEN [row EXCEPT !.status = "Delivered"] ELSE row

\* What the request sets before it calls Gmail; only a release moves status.
Decide(row, d) ==
    [row EXCEPT !.classification = VerdictOf(d),
                !.status = IF d = "release" THEN "Delivered" ELSE @]

\* messages.release and messages.quarantine.
Moved(ls, d) ==
    IF d = "release"
    THEN (ls \cup {"INBOX"}) \ {"Quarantine", "NeedsReview"}
    ELSE Relabelled(ls, "quarantined")

Reported(row, d) ==
    [row EXCEPT !.mailbox_action = IF d = "release" THEN "none" ELSE "quarantined",
                !.mailbox_action_error = ""]

\* Mutant of Updated: every column is written.
UpdatedWhole(row, was, now) == [column \in DOMAIN row |-> now[column]]

\* The UPDATE: the columns that differ from the loaded row.
Updated(row, was, now) ==
    [column \in DOMAIN row |->
        IF now[column] # was[column] THEN now[column] ELSE row[column]]

Put(a, row) == scans' = [scans EXCEPT ![item[a]][1] = row]

Write(a) == Put(a, Updated(scans[item[a]][1], seen[a], mine[a]))

Goes(a, place) == at' = [at EXCEPT ![a] = place]

EndRequest(a) ==
    /\ Goes(a, "idle")
    /\ item' = [item EXCEPT ![a] = NoMsg]
    /\ decision' = [decision EXCEPT ![a] = "none"]
    /\ seen' = [seen EXCEPT ![a] = BlankRow]
    /\ mine' = [mine EXCEPT ![a] = BlankRow]

-----------------------------------------------------------------------------
Open(a, m, d) ==
    /\ at[a] = "idle" /\ reviews_left > 0
    /\ scans[m] # <<>>
    /\ reviews_left' = reviews_left - 1
    /\ item' = [item EXCEPT ![a] = m]
    /\ decision' = [decision EXCEPT ![a] = d]
    /\ seen' = [seen EXCEPT ![a] = scans[m][1]]
    /\ mine' = [mine EXCEPT ![a] = Decide(scans[m][1], d)]
    /\ Goes(a, IF d \in MailboxDecision THEN "opened" ELSE "commit")
    /\ disputed' = IF \E b \in Admin : item[b] = m
                   THEN disputed \cup {m} ELSE disputed
    /\ UNCHANGED <<vars, decided>>

\* The access token had expired: _persist_refreshed commits the session, the
\* half-made decision with it, and expires the loaded row.
RefreshToken(a) ==
    /\ at[a] = "opened"
    /\ Write(a)
    /\ Goes(a, "refreshed")
    /\ UNCHANGED <<mailbox, last_history_id, audit, lock, protected, pc, batch,
                   inHand, watch_id, passedOver, faults_left, item, decision,
                   seen, mine, decided, disputed, reviews_left>>

\* Google refuses the grant: the same commit, and the row of the connection
\* says revoked, with protection off.
RefreshRefused(a) ==
    /\ at[a] = "opened"
    /\ GrantRefused
    /\ protected' = FALSE
    /\ Write(a)
    /\ Goes(a, "refused")
    /\ UNCHANGED <<mailbox, last_history_id, audit, lock, pc, batch, inHand,
                   watch_id, passedOver, item, decision, seen, mine, decided,
                   disputed, reviews_left>>

\* The GmailAuthError is then recorded on the row by a commit of its own.
CommitRefusal(a) ==
    /\ at[a] = "refused"
    /\ Put(a, FailedRow(scans[item[a]][1]))
    /\ decided' = [decided EXCEPT ![item[a]] = decision[a]]
    /\ EndRequest(a)
    /\ UNCHANGED <<mailbox, last_history_id, audit, lock, protected, pc, batch,
                   inHand, watch_id, passedOver, faults_left, disputed,
                   reviews_left>>

\* The next access to an attribute loads the row again.
Reload(a) ==
    /\ at[a] = "refreshed"
    /\ seen' = [seen EXCEPT ![a] = scans[item[a]][1]]
    /\ mine' = [mine EXCEPT ![a] = scans[item[a]][1]]
    /\ Goes(a, "call")
    /\ UNCHANGED <<vars, item, decision, decided, disputed, reviews_left>>

CallGmail(a) ==
    /\ at[a] \in {"opened", "call"}
    /\ labels' = [labels EXCEPT ![item[a]] = Moved(@, decision[a])]
    /\ mine' = [mine EXCEPT ![a] = Reported(@, decision[a])]
    /\ Goes(a, "commit")
    /\ UNCHANGED <<arrived, newest, last_history_id, records, lock, protected,
                   pc, batch, inHand, watch_id, passedOver, faults_left, item,
                   decision, seen, decided, disputed, reviews_left>>

\* Mutant of CallFails: the error is not recorded.
CallFailsSilently(a) ==
    /\ at[a] \in {"opened", "call"}
    /\ Fault("action")
    /\ mine' = [mine EXCEPT ![a] = Reported(@, decision[a])]
    /\ Goes(a, "commit")
    /\ UNCHANGED <<mailbox, last_history_id, records, lock, protected, pc,
                   batch, inHand, watch_id, passedOver, item, decision, seen,
                   decided, disputed, reviews_left>>

\* A GmailError, whether or not Gmail applied the change.
CallFails(a) ==
    /\ at[a] \in {"opened", "call"}
    /\ Fault("action")
    /\ \/ labels' = [labels EXCEPT ![item[a]] = Moved(@, decision[a])]
       \/ UNCHANGED labels
    /\ mine' = [mine EXCEPT ![a] = FailedRow(@)]
    /\ Goes(a, "commit")
    /\ UNCHANGED <<arrived, newest, last_history_id, records, lock, protected,
                   pc, batch, inHand, watch_id, passedOver, item, decision,
                   seen, decided, disputed, reviews_left>>

Commit(a) ==
    /\ at[a] = "commit"
    /\ Write(a)
    /\ decided' = [decided EXCEPT ![item[a]] = decision[a]]
    /\ EndRequest(a)
    /\ UNCHANGED <<mailbox, last_history_id, audit, lock, protected, pc, batch,
                   inHand, watch_id, passedOver, faults_left, disputed,
                   reviews_left>>

\* The web worker dies: what the session held is gone, what Gmail did stays.
RequestDies(a) ==
    /\ at[a] # "idle"
    /\ Fault("web_crash")
    /\ disputed' = disputed \cup {item[a]}
    /\ EndRequest(a)
    /\ UNCHANGED <<mailbox, last_history_id, records, lock, protected, pc,
                   batch, inHand, watch_id, passedOver, decided, reviews_left>>

Review(a) ==
    \/ \E m \in Msg, d \in Decision : Open(a, m, d)
    \/ RefreshToken(a) \/ Reload(a) \/ RefreshRefused(a) \/ CommitRefusal(a)
    \/ CallGmail(a) \/ CallFails(a) \/ Commit(a) \/ RequestDies(a)

ReviewNext ==
    \/ Next /\ UNCHANGED reviewVars
    \/ \E a \in Admin : Review(a)

ReviewSpec == ReviewInit /\ [][ReviewNext]_allVars

-----------------------------------------------------------------------------
AtRest(m) == scans[m] # <<>> /\ \A a \in Admin : item[a] # m

\* What the row of m reports of the mailbox is so: reported quarantined, the
\* message is out of the inbox; reported released, it is back.  A row with an
\* error reports nothing.
ReportIsTrue(m) ==
    scans[m][1].mailbox_action_error = "" =>
        /\ scans[m][1].mailbox_action = "quarantined" => Hidden(m)
        /\ scans[m][1].mailbox_action = "none" =>
               "Quarantine" \notin labels[m] /\ "INBOX" \in labels[m]

\* Mailbox state is never "reported as changed unless it actually was": between
\* requests a row tells the truth about the mailbox, if its requests came one
\* after the other and each lived to commit; token refreshes that commit half a
\* decision, failed calls and passes may intervene.
MailboxTruth == \A m \in Msg \ disputed : AtRest(m) => ReportIsTrue(m)

\* Under the same proviso the verdict of a row is that of the last decision
\* committed on it, whatever the passes did meanwhile.
LastDecisionWins ==
    \A m \in Msg \ disputed :
        AtRest(m) /\ decided[m] # "none" =>
            scans[m][1].classification = VerdictOf(decided[m])

\* A release is final for the status of a row: no request that loaded the row
\* before it, no pass and no crash brings the old status back.
ReleaseIsFinal ==
    [][\A m \in Msg :
         scans[m] # <<>> /\ scans[m][1].status = "Delivered" =>
             scans'[m][1].status = "Delivered"]_scans
=============================================================================
