----------------------------- MODULE GmailSync -----------------------------
(***************************************************************************)
(* Sync passes over one connected Gmail mailbox                            *)
(* (integrations/gmail/sync.py): what the Celery poller, the Pub/Sub task  *)
(* and the "Scan now" button all run.  A pass takes the database lock of   *)
(* SyncLock, asks Gmail what is new, and for each new message retrieves,   *)
(* classifies, labels and stores it, in that order; then it moves          *)
(* last_history_id forward and releases the lock.                          *)
(*                                                                         *)
(* Every Gmail call and every database commit is a step of its own, so     *)
(* passes interleave with each other, with mail that arrives, with watch   *)
(* renewals and with crashes.  Gmail itself is external: arrived and       *)
(* newest stand for its history, labels for the messages' labels.          *)
(***************************************************************************)
EXTENDS Naturals, Sequences, FiniteSets

CONSTANTS
    Proc, NoOne, StaleAfter, MaxRun,  \* see SyncLock
    Msg,              \* messages that may reach the inbox
    NoMsg,            \* no message in hand
    Cap,              \* GMAIL_MAX_MESSAGES_PER_SYNC
    Lookback,         \* GMAIL_INITIAL_LOOKBACK_DAYS, counted in messages
    FirstHistoryId,   \* last_history_id at the start: 0 for a new connection
    HistoryLabels,    \* labels in a history record: "at_arrival" or "current"
    Poison,           \* messages whose row the database refuses
    Faults,           \* the failures that may happen (names below)
    MaxFaults         \* how many of them, a bound of the model

FaultNames ==
    {"connect", "refused", "discover", "expired", "retrieve", "classify",
     "raise", "action", "id_clash", "crash", "watch",
     "web_crash"}   \* used by GmailReview

ASSUME GmailSyncAssumption ==
    /\ StaleAfter \in Nat /\ MaxRun \in Nat /\ NoOne \notin Proc
    /\ NoMsg \notin Msg
    /\ Cap \in Nat /\ Lookback \in Nat /\ MaxFaults \in Nat
    /\ FirstHistoryId \in {0, 1}
    /\ HistoryLabels \in {"at_arrival", "current"}
    /\ Poison \subseteq Msg
    /\ Faults \subseteq FaultNames

VARIABLES
    arrived,           \* history id of a message's arrival, 0 before it
    newest,            \* the mailbox's current history id
    labels,            \* labels of each message in Gmail
    last_history_id,   \* column; 0 stands for NULL
    scans,             \* the Scan rows of each message, in commit order
    audit,             \* AuditLog rows about failed messages
    sync_in_progress, lock_age, running, run_age,
    protected,         \* columns: connected, with protection on
    pc, base, upto, via, todo, current, draft,  \* locals of a pass
    left_out,          \* what the discovery of a pass left out (history)
    watch_id,          \* history id a watch call returned, not yet stored
    skipped,           \* mail that passes gave up without a trace (history)
    jumped,            \* mail that a watch moved the baseline over (history)
    faults_left

Lock == INSTANCE SyncLock

mailbox == <<arrived, newest, labels>>
records == <<scans, audit>>
lock    == <<sync_in_progress, lock_age, running, run_age>>
batch   == <<base, upto, via, todo, left_out>>
inHand  == <<current, draft>>
passedOver == <<skipped, jumped>>
vars == <<mailbox, last_history_id, records, lock, protected, pc, batch,
          inHand, watch_id, passedOver, faults_left>>

-----------------------------------------------------------------------------
Verdict == {"Phishing", "Needs Review", "Legitimate"}
Label   == {"INBOX", "Quarantine", "NeedsReview", "Processed", "ScanFailed"}
MailboxAction == {"none", "quarantined", "needs_review", "processed"}
ScanStatus == {"Quarantined", "Flagged", "Delivered"}

Row == [classification: Verdict, status: ScanStatus,
        mailbox_action: MailboxAction, mailbox_action_error: {"", "GmailError"}]

AuditEvent == {"gmail_retrieve_failed", "gmail_classify_failed"}

ActionFor(verdict) ==
    CASE verdict = "Phishing"     -> "quarantined"
      [] verdict = "Needs Review" -> "needs_review"
      [] verdict = "Legitimate"   -> "processed"

StatusFor(verdict) ==
    CASE verdict = "Phishing"     -> "Quarantined"
      [] verdict = "Needs Review" -> "Flagged"
      [] verdict = "Legitimate"   -> "Delivered"

\* What the three label calls of messages.py leave on a message.
Relabelled(ls, action) ==
    CASE action = "quarantined"  -> (ls \cup {"Quarantine"}) \ {"INBOX"}
      [] action = "needs_review" -> ls \cup {"NeedsReview"}
      [] action = "processed"    -> ls \cup {"Processed"}

\* Mutant of NewRow: mail to be reviewed is stored as quarantined.
NewRowHeldBack(verdict) ==
    [classification |-> verdict,
     status |-> IF verdict = "Legitimate" THEN "Delivered" ELSE "Quarantined",
     mailbox_action |-> "none", mailbox_action_error |-> ""]

NewRow(verdict) ==
    [classification |-> verdict, status |-> StatusFor(verdict),
     mailbox_action |-> "none", mailbox_action_error |-> ""]

\* Mutant of FailedRow: the action is recorded although the call failed.
FailedRowClaimingAction(row) ==
    [row EXCEPT !.mailbox_action = ActionFor(row.classification)]

FailedRow(row) == [row EXCEPT !.mailbox_action_error = "GmailError"]

BlankRow == NewRow("Legitimate")

\* The rows a pass may build: status, verdict and action go together.
PassRow ==
    {row \in Row :
        /\ row.status = StatusFor(row.classification)
        /\ row.mailbox_action \in {"none", ActionFor(row.classification)}}

-----------------------------------------------------------------------------
Step == {"idle", "connect", "discover", "process", "act", "store",
         "raised", "release"}

PassTypeOK ==
    /\ arrived \in [Msg -> Nat] /\ newest \in Nat
    /\ labels \in [Msg -> SUBSET Label]
    /\ last_history_id \in Nat
    /\ scans \in [Msg -> Seq(Row)]
    /\ audit \subseteq AuditEvent \X Msg
    /\ pc \in [Proc -> Step]
    /\ base \in [Proc -> Nat] /\ upto \in [Proc -> Nat]
    /\ via \in [Proc -> {"history", "list"}]
    /\ todo \in [Proc -> SUBSET Msg]
    /\ left_out \in [Proc -> SUBSET Msg]
    /\ current \in [Proc -> Msg \cup {NoMsg}]
    /\ draft \in [Proc -> PassRow]
    /\ protected \in BOOLEAN
    /\ watch_id \in Nat
    /\ skipped \subseteq Msg \cup {NoMsg} /\ jumped \subseteq Msg
    /\ faults_left \in Nat

TypeOK == PassTypeOK /\ Lock!TypeOK

Init ==
    /\ arrived = [m \in Msg |-> 0] /\ newest = 1
    /\ labels = [m \in Msg |-> {}]
    /\ last_history_id = FirstHistoryId
    /\ scans = [m \in Msg |-> <<>>] /\ audit = {}
    /\ Lock!Init
    /\ pc = [p \in Proc |-> "idle"]
    /\ base = [p \in Proc |-> 0] /\ upto = [p \in Proc |-> 0]
    /\ via = [p \in Proc |-> "history"] /\ todo = [p \in Proc |-> {}]
    /\ left_out = [p \in Proc |-> {}]
    /\ protected = TRUE
    /\ current = [p \in Proc |-> NoMsg] /\ draft = [p \in Proc |-> BlankRow]
    /\ watch_id = 0
    /\ skipped = {} /\ jumped = {}
    /\ faults_left = MaxFaults

\* A failure of kind f happens now.
Fault(f) ==
    /\ f \in Faults
    /\ faults_left > 0
    /\ faults_left' = faults_left - 1

NoFault == UNCHANGED faults_left

GoTo(p, step) == pc' = [pc EXCEPT ![p] = step]

\* The locals of a pass die with it.
ForgetPass(p) ==
    /\ GoTo(p, "idle")
    /\ base' = [base EXCEPT ![p] = 0]
    /\ upto' = [upto EXCEPT ![p] = 0]
    /\ via' = [via EXCEPT ![p] = "history"]
    /\ todo' = [todo EXCEPT ![p] = {}]
    /\ left_out' = [left_out EXCEPT ![p] = {}]
    /\ current' = [current EXCEPT ![p] = NoMsg]
    /\ draft' = [draft EXCEPT ![p] = BlankRow]

-----------------------------------------------------------------------------
\* A message reaches the inbox: Gmail adds a messageAdded history record.
Arrive(m) ==
    /\ arrived[m] = 0
    /\ newest' = newest + 1
    /\ arrived' = [arrived EXCEPT ![m] = newest + 1]
    /\ labels' = [labels EXCEPT ![m] = {"INBOX"}]
    /\ UNCHANGED <<last_history_id, records, lock, protected, pc, batch, inHand,
                   watch_id, passedOver, faults_left>>

\* sync_connection: the lock is taken or the call returns.
Begin(p) ==
    /\ pc[p] = "idle"
    /\ Lock!Acquire(p)
    /\ GoTo(p, "connect")
    /\ UNCHANGED <<mailbox, last_history_id, records, protected, batch, inHand,
                   watch_id, passedOver, faults_left>>

\* run_active_sync, from Beat or a notification: only a connected mailbox
\* whose protection is on.
Poll(p) == protected /\ Begin(p)

\* "Scan now" asks for an active connection and nothing more.
ScanNow(p) == Begin(p)

\* build_service, ensure_sentinel_labels, get_profile: the label step commits
\* and so reloads the row; then the profile is read.
Connect(p) ==
    /\ pc[p] = "connect"
    /\ base' = [base EXCEPT ![p] = last_history_id]
    /\ upto' = [upto EXCEPT ![p] = newest]
    /\ GoTo(p, "discover")
    /\ NoFault
    /\ UNCHANGED <<mailbox, last_history_id, records, lock, protected, via,
                   todo, left_out, inHand, watch_id, passedOver>>

\* A GmailError in those calls is stored on the row and the pass returns.
ConnectFails(p) ==
    /\ pc[p] = "connect"
    /\ Fault("connect")
    /\ GoTo(p, "release")
    /\ UNCHANGED <<mailbox, last_history_id, records, lock, protected, batch,
                   inHand, watch_id, passedOver>>

\* Google refuses the grant, and may go on doing so.
GrantRefused ==
    \/ protected /\ Fault("refused")
    \/ ~protected /\ NoFault

\* Then the row becomes revoked, with protection off.
ConnectRefused(p) ==
    /\ pc[p] = "connect"
    /\ GrantRefused
    /\ protected' = FALSE
    /\ GoTo(p, "release")
    /\ UNCHANGED <<mailbox, last_history_id, records, lock, batch, inHand,
                   watch_id, passedOver>>

\* An administrator connects the mailbox again.
Reconnect ==
    /\ ~protected
    /\ protected' = TRUE
    /\ UNCHANGED <<mailbox, last_history_id, records, lock, pc, batch, inHand,
                   watch_id, passedOver, faults_left>>

-----------------------------------------------------------------------------
\* Discovery: _discover_new_messages and the dedup against stored rows.

\* Whether m comes before n in the answer: history is oldest first, a
\* message list newest first.
Before(how, m, n) ==
    IF how = "history" THEN arrived[m] < arrived[n] ELSE arrived[n] < arrived[m]

FirstOnes(how, S) ==
    {m \in S : Cardinality({n \in S : Before(how, n, m)}) < Cap}

Known == {m \in Msg : scans[m] # <<>>}

\* Mutant of AddedSince: what is in the inbox now.
AddedSinceAndStillThere(id) == {m \in Msg : arrived[m] > id /\ "INBOX" \in labels[m]}

\* list_history keeps the records whose message is labelled INBOX.
AddedSince(id) ==
    {m \in Msg : /\ arrived[m] > id
                 /\ "INBOX" \in labels[m] \/ HistoryLabels = "at_arrival"}

Inbox == {m \in Msg : arrived[m] > 0 /\ "INBOX" \in labels[m]}

\* "in:inbox newer_than:..."
RecentInbox == {m \in Inbox : newest - arrived[m] < Lookback}

\* The batch of a pass, and what the pass will pass over without a look.
Discovered(p, how, taken, rest) ==
    /\ todo' = [todo EXCEPT ![p] = taken \ Known]
    /\ left_out' = [left_out EXCEPT ![p] = rest \ taken]
    /\ via' = [via EXCEPT ![p] = how]
    /\ GoTo(p, "process")

\* Mutant of ListHistory: the baseline moves as soon as the history is read.
ListHistoryAndAdvance(p) ==
    /\ pc[p] = "discover" /\ base[p] # 0
    /\ Discovered(p, "history", FirstOnes("history", AddedSince(base[p])),
                  AddedSince(base[p]))
    /\ upto' = [upto EXCEPT ![p] = newest]
    /\ last_history_id' = newest
    /\ NoFault
    /\ UNCHANGED <<mailbox, records, lock, protected, base, inHand, watch_id,
                   passedOver>>

\* The history goes to its end, and the answer is cut at the cap.
ListHistory(p) ==
    /\ pc[p] = "discover" /\ base[p] # 0
    /\ Discovered(p, "history", FirstOnes("history", AddedSince(base[p])),
                  AddedSince(base[p]))
    /\ upto' = [upto EXCEPT ![p] = newest]
    /\ NoFault
    /\ UNCHANGED <<mailbox, last_history_id, records, lock, protected, base,
                   inHand, watch_id, passedOver>>

\* First sync, or the stored history id has expired: a list bounded by the
\* lookback and the cap, and the baseline is the profile's history id read
\* before it.
ListRecent(p) ==
    /\ pc[p] = "discover"
    /\ \/ base[p] = 0 /\ NoFault
       \/ base[p] # 0 /\ Fault("expired")
    /\ Discovered(p, "list", FirstOnes("list", RecentInbox),
                  {m \in Inbox : arrived[m] > base[p] /\ arrived[m] <= upto[p]})
    /\ UNCHANGED <<mailbox, last_history_id, records, lock, protected, base,
                   upto, inHand, watch_id, passedOver>>

\* Any other GmailError: the call is outside the try of _do_sync.
DiscoverFails(p) ==
    /\ pc[p] = "discover"
    /\ Fault("discover")
    /\ GoTo(p, "raised")
    /\ UNCHANGED <<mailbox, last_history_id, records, lock, protected, batch,
                   inHand, watch_id, passedOver>>

-----------------------------------------------------------------------------
\* _process_one, for the next message of the batch.
IsNext(p, m) ==
    /\ m \in todo[p]
    /\ \A n \in todo[p] : ~Before(via[p], n, m)

Drop(p, m) == todo' = [todo EXCEPT ![p] = @ \ {m}]

\* Retrieved, parsed and classified; the row exists only in memory.
Classify(p, m, verdict) ==
    /\ pc[p] = "process" /\ IsNext(p, m)
    /\ current' = [current EXCEPT ![p] = m]
    /\ draft' = [draft EXCEPT ![p] = NewRow(verdict)]
    /\ GoTo(p, "act")
    /\ NoFault
    /\ UNCHANGED <<mailbox, last_history_id, records, lock, protected, batch,
                   watch_id, passedOver>>

RetrieveFails(p, m) ==
    /\ pc[p] = "process" /\ IsNext(p, m)
    /\ Fault("retrieve")
    /\ audit' = audit \cup {<<"gmail_retrieve_failed", m>>}
    /\ Drop(p, m)
    /\ UNCHANGED <<mailbox, last_history_id, scans, lock, protected, pc, base,
                   upto, via, left_out, inHand, watch_id, passedOver>>

\* The Scan Failed label is best effort.
ClassifyFails(p, m) ==
    /\ pc[p] = "process" /\ IsNext(p, m)
    /\ Fault("classify")
    /\ \/ labels' = [labels EXCEPT ![m] = @ \cup {"ScanFailed"}]
       \/ UNCHANGED labels
    /\ audit' = audit \cup {<<"gmail_classify_failed", m>>}
    /\ Drop(p, m)
    /\ UNCHANGED <<arrived, newest, last_history_id, scans, lock, protected, pc,
                   base, upto, via, left_out, inHand, watch_id, passedOver>>

\* An exception that is no GmailError, from decoding, parsing or analysis,
\* leaves the loop and the pass; the finally still gives back the lock.
ProcessRaises(p, m) ==
    /\ pc[p] = "process" /\ IsNext(p, m)
    /\ Fault("raise")
    /\ GoTo(p, "raised")
    /\ UNCHANGED <<mailbox, last_history_id, records, lock, protected, batch,
                   inHand, watch_id, passedOver>>

\* The real label change, made before the row is stored.
Act(p) ==
    /\ pc[p] = "act"
    /\ LET action == ActionFor(draft[p].classification)
       IN /\ labels' = [labels EXCEPT ![current[p]] = Relabelled(@, action)]
          /\ draft' = [draft EXCEPT ![p].mailbox_action = action]
    /\ GoTo(p, "store")
    /\ NoFault
    /\ UNCHANGED <<arrived, newest, last_history_id, records, lock, protected,
                   batch, current, watch_id, passedOver>>

\* The call fails, and Gmail may or may not have applied it (a transport
\* error after the request was sent is a GmailRetryableError too).
ActFails(p) ==
    /\ pc[p] = "act"
    /\ Fault("action")
    /\ \/ labels' = [labels EXCEPT
            ![current[p]] = Relabelled(@, ActionFor(draft[p].classification))]
       \/ UNCHANGED labels
    /\ draft' = [draft EXCEPT ![p] = FailedRow(@)]
    /\ GoTo(p, "store")
    /\ UNCHANGED <<arrived, newest, last_history_id, records, lock, protected,
                   batch, current, watch_id, passedOver>>

-----------------------------------------------------------------------------
\* The per-message commit.
Stored(p) ==
    /\ Drop(p, current[p])
    /\ current' = [current EXCEPT ![p] = NoMsg]
    /\ draft' = [draft EXCEPT ![p] = BlankRow]
    /\ GoTo(p, "process")

\* uq_scans_gmail_message: a second row for the message is an IntegrityError,
\* rolled back and counted as a duplicate.
Insert(p) ==
    IF scans[current[p]] = <<>>
    THEN scans' = [scans EXCEPT ![current[p]] = <<draft[p]>>]
    ELSE UNCHANGED scans

Store(p) ==
    /\ pc[p] = "store" /\ current[p] \notin Poison
    /\ Insert(p)
    /\ Stored(p)
    /\ NoFault
    /\ UNCHANGED <<mailbox, last_history_id, audit, lock, protected, base, upto,
                   via, left_out, watch_id, passedOver>>

\* The random scan_id is another scan's: the same IntegrityError, handled as
\* if the message were a duplicate.
StoreIdClash(p) ==
    /\ pc[p] = "store" /\ current[p] \notin Poison
    /\ Known # {}
    /\ Fault("id_clash")
    /\ skipped' = skipped \cup {current[p]}
    /\ Stored(p)
    /\ UNCHANGED <<mailbox, last_history_id, records, lock, protected, base,
                   upto, via, left_out, watch_id, jumped>>

\* Any other database error escapes, and with it the release: the session
\* refuses to work before a rollback, so the lock stays taken.
StoreBreaks(p) ==
    /\ pc[p] = "store" /\ current[p] \in Poison
    /\ Lock!Abandon(p)
    /\ ForgetPass(p)
    /\ NoFault
    /\ UNCHANGED <<mailbox, last_history_id, records, protected, watch_id,
                   passedOver>>

-----------------------------------------------------------------------------
\* Mutant of Covered: the history id of the end of the pass.
NewestNow(p) == newest

\* What discovery covered: the id of the history answer or of the profile.
Covered(p) == upto[p]

\* The batch is done: the baseline moves, over what was left out too.
Advance(p) ==
    /\ pc[p] = "process" /\ todo[p] = {}
    /\ last_history_id' = Covered(p)
    /\ skipped' = skipped \cup left_out[p]
    /\ GoTo(p, "release")
    /\ NoFault
    /\ UNCHANGED <<mailbox, records, lock, protected, batch, inHand, watch_id,
                   jumped>>

\* The finally of sync_connection.
Release(p) ==
    /\ pc[p] \in {"release", "raised"}
    /\ Lock!Release(p)
    /\ ForgetPass(p)
    /\ NoFault
    /\ UNCHANGED <<mailbox, last_history_id, records, protected, watch_id,
                   passedOver>>

\* The worker is killed in the middle of a pass.
Crash(p) ==
    /\ pc[p] # "idle"
    /\ Fault("crash")
    /\ Lock!Abandon(p)
    /\ ForgetPass(p)
    /\ UNCHANGED <<mailbox, last_history_id, records, protected, watch_id,
                   passedOver>>

\* start_watch, by an administrator or by the renewal task, under no lock:
\* users.watch answers with the current history id, which is then committed.
WatchCall ==
    /\ watch_id = 0
    /\ Fault("watch")
    /\ watch_id' = newest
    /\ UNCHANGED <<mailbox, last_history_id, records, lock, protected, pc,
                   batch, inHand, passedOver>>

WatchStore ==
    /\ watch_id # 0
    /\ last_history_id' = watch_id
    /\ jumped' = jumped \cup
         {m \in Msg : arrived[m] > last_history_id /\ arrived[m] <= watch_id}
    /\ watch_id' = 0
    /\ UNCHANGED <<mailbox, records, lock, protected, pc, batch, inHand,
                   skipped, faults_left>>

TimePasses ==
    /\ Lock!Tick
    /\ UNCHANGED <<mailbox, last_history_id, records, protected, pc, batch,
                   inHand, watch_id, passedOver, faults_left>>

-----------------------------------------------------------------------------
Handle(p) ==
    \E m \in Msg :
        \/ \E verdict \in Verdict : Classify(p, m, verdict)
        \/ RetrieveFails(p, m)
        \/ ClassifyFails(p, m)
        \/ ProcessRaises(p, m)

PassStep(p) ==
    \/ Connect(p) \/ ConnectFails(p) \/ ConnectRefused(p)
    \/ ListHistory(p) \/ ListRecent(p) \/ DiscoverFails(p)
    \/ Handle(p) \/ Act(p) \/ ActFails(p)
    \/ Store(p) \/ StoreIdClash(p) \/ StoreBreaks(p)
    \/ Advance(p) \/ Release(p)

Next ==
    \/ \E m \in Msg : Arrive(m)
    \/ \E p \in Proc : Poll(p) \/ ScanNow(p) \/ PassStep(p) \/ Crash(p)
    \/ Reconnect
    \/ WatchCall \/ WatchStore
    \/ TimePasses

Spec == Init /\ [][Next]_vars

(***************************************************************************)
(* Beat keeps polling while the mailbox is connected, a pass that is not   *)
(* killed keeps going, and time passes.  Nothing is assumed of failures,   *)
(* arrivals, watches, or of the administrator who connects it again.       *)
(***************************************************************************)
Fairness ==
    /\ WF_vars(\E p \in Proc : Poll(p))
    /\ \A p \in Proc : WF_vars(PassStep(p))
    /\ WF_vars(TimePasses)

FairSpec == Spec /\ Fairness

-----------------------------------------------------------------------------
\* The message has a Scan row, or an audit entry says why it has none.
Handled(m) ==
    scans[m] # <<>> \/ \E event \in AuditEvent : <<event, m>> \in audit

\* Nothing behind the baseline is forgotten, since no later sync will look
\* there again: what last_history_id has passed is stored or audited, but for
\* what the pass that moved it had cut off at the cap or found older than the
\* lookback, or dropped as a duplicate, and what a watch jumped over.
AccountedFor ==
    \A m \in Msg : arrived[m] \in 1..last_history_id =>
        Handled(m) \/ m \in skipped \cup jumped

\* "The next poll (or notification) catches up" (routes/pubsub.py): what is
\* behind the baseline is stored, audited or given up by a pass that saw it.
MissedMailIsCaughtUp ==
    \A m \in Msg : arrived[m] \in 1..last_history_id =>
        Handled(m) \/ m \in skipped

Hidden(m) == "Quarantine" \in labels[m] /\ "INBOX" \notin labels[m]

\* A row that records a quarantine is about a message that is out of the
\* inbox and under the quarantine label.
RecordedQuarantineIsReal ==
    \A m \in Msg : \A i \in DOMAIN scans[m] :
        scans[m][i].mailbox_action = "quarantined" => Hidden(m)

\* Why: a message not yet arrived has no labels to lose, and the row about
\* to be stored is as true as the stored ones.
QuarantineInv ==
    /\ RecordedQuarantineIsReal
    /\ \A m \in Msg : arrived[m] = 0 => labels[m] = {}
    /\ \A p \in Proc :
        /\ \A m \in todo[p] : arrived[m] # 0
        /\ pc[p] \in {"act", "store"} => current[p] \in todo[p]
        /\ pc[p] = "act" => draft[p].mailbox_action = "none"
        /\ pc[p] = "store" /\ draft[p].mailbox_action = "quarantined" =>
               Hidden(current[p])

\* A process is inside a pass exactly while it counts itself as the holder
\* of the lock, and the lock is touched in no other way than SyncLock says.
PassMeansLock == \A p \in Proc : pc[p] # "idle" <=> p \in running

\* At most one process is anywhere between taking and giving back the lock.
OnePassAtATime ==
    \A p, q \in Proc : pc[p] # "idle" /\ pc[q] # "idle" => p = q

\* The passes together implement OneSync: somebody holds the mailbox or
\* nobody does, and it changes hands only by a start or an end.
PassesImplementOneSync == Lock!ImplementsOneSync

\* A pass that dies with the flag up stops syncing for a while, not for good:
\* "a stale lock is taken over after a timeout instead of deadlocking", while
\* the mailbox stays connected.
SyncingGoesOn == <>[]protected => Lock!SyncingNeverStops

\* Every message that reaches the inbox is in the end stored or audited, or
\* passed over as AccountedFor says, if the mailbox stays connected for good.
EveryMessageHandled ==
    <>[]protected =>
        \A m \in Msg :
            arrived[m] # 0 ~> Handled(m) \/ m \in skipped \cup jumped

\* Mail hidden from the inbox does not stay off the record, though the worker
\* dies between the label change and the commit: history shows the message as
\* it arrived, so a later pass handles it once more and stores its row.
HiddenMailIsRecorded ==
    <>[]protected =>
        \A m \in Msg :
            "Quarantine" \in labels[m]
                ~> scans[m] # <<>> \/ m \in skipped \cup jumped
=============================================================================
