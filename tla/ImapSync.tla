------------------------------ MODULE ImapSync ------------------------------
(***************************************************************************)
(* The IMAP fallback: sync passes over one mailbox (mailbox/sync.py,       *)
(* mailbox/imap_client.py) and the release of what they quarantined        *)
(* (app.py, admin_action).                                                 *)
(*                                                                         *)
(* IMAP names a message by a UID that holds within one folder only: mail   *)
(* that is moved back to the inbox comes back under a new one, and a move  *)
(* of a UID that is gone succeeds and does nothing.  Every IMAP session    *)
(* and every commit is a step.  The counters and the connection health     *)
(* that a pass reports are left out, and so is the flag on flagged mail.   *)
(***************************************************************************)
EXTENDS Naturals, Sequences, FiniteSets

CONSTANTS
    Proc, NoOne, StaleAfter, MaxRun,  \* see SyncLock
    Admin,        \* administrators, each with one request at a time
    Msg,
    MessageId,    \* the Message-ID header of each, which mail may share
    NoId,         \* mail without that header
    Malformed,    \* mail that raises when it is read
    Limit,        \* limit=25, the size of a fetch
    Faults,       \* the failures that may happen (names below)
    MaxFaults, MaxReleases  \* how many, bounds of the model

FaultNames ==
    {"fetch", "classify", "action", "id_clash", "database", "crash",
     "release", "web_crash", "user"}

ASSUME ImapSyncAssumption ==
    /\ StaleAfter \in Nat /\ MaxRun \in Nat /\ NoOne \notin Proc
    /\ Malformed \subseteq Msg /\ DOMAIN MessageId = Msg
    /\ Limit \in Nat /\ MaxFaults \in Nat /\ MaxReleases \in Nat
    /\ Faults \subseteq FaultNames

VARIABLES
    arrived,    \* messages that have reached the inbox
    uid,        \* of each message in the inbox, 0 if it is not there
    uid_next,   \* the UIDs given so far
    held,       \* messages in the quarantine folder
    scans,      \* Scan rows, in commit order
    sync_in_progress, lock_age, running, run_age,
    pc, known_uids, todo, draft,    \* locals of a pass
    at, row_id, mailbox_action,     \* locals of a release
    torn,       \* messages moved without their row learning of it (history)
    faults_left, releases_left

Lock == INSTANCE SyncLock

mailbox == <<arrived, uid, uid_next, held>>
lock    == <<sync_in_progress, lock_age, running, run_age>>
pass    == <<pc, known_uids, todo, draft>>
release == <<at, row_id, mailbox_action>>
vars == <<mailbox, scans, lock, pass, release, torn, faults_left,
          releases_left>>

-----------------------------------------------------------------------------
Status == {"Quarantined", "Flagged", "Delivered"}

MailboxAction == {"none", "quarantined", "flagged"}

Row == [msg: Msg, uid: Nat, status: Status, mailbox_action: MailboxAction,
        mailbox_action_error: {"", "MailboxError"}]

NewRow(mail, status) ==
    [msg |-> mail.msg, uid |-> mail.uid, status |-> status,
     mailbox_action |-> "none", mailbox_action_error |-> ""]

NoRow == [status |-> "none"]

Step == {"idle", "known", "fetch", "process", "act", "store", "release"}

TypeOK ==
    /\ arrived \subseteq Msg
    /\ uid \in [Msg -> 0..uid_next] /\ uid_next \in Nat
    /\ held \subseteq Msg
    /\ scans \in Seq(Row)
    /\ Lock!TypeOK
    /\ pc \in [Proc -> Step]
    /\ known_uids \in [Proc -> SUBSET (1..uid_next)]
    /\ todo \in [Proc -> SUBSET [msg: Msg, uid: 1..uid_next]]
    /\ draft \in [Proc -> Row \cup {NoRow}]
    /\ at \in [Admin -> {"idle", "move", "commit"}]
    /\ row_id \in [Admin -> 0..Len(scans)]
    /\ mailbox_action \in [Admin -> MailboxAction \cup {"failed"}]
    /\ torn \subseteq Msg
    /\ faults_left \in 0..MaxFaults /\ releases_left \in 0..MaxReleases

Init ==
    /\ arrived = {} /\ uid = [m \in Msg |-> 0] /\ uid_next = 0 /\ held = {}
    /\ scans = <<>>
    /\ Lock!Init
    /\ pc = [p \in Proc |-> "idle"]
    /\ known_uids = [p \in Proc |-> {}] /\ todo = [p \in Proc |-> {}]
    /\ draft = [p \in Proc |-> NoRow]
    /\ at = [a \in Admin |-> "idle"] /\ row_id = [a \in Admin |-> 0]
    /\ mailbox_action = [a \in Admin |-> "none"]
    /\ torn = {}
    /\ faults_left = MaxFaults /\ releases_left = MaxReleases

\* A failure of kind f happens now.
Fault(f) ==
    /\ f \in Faults /\ faults_left > 0
    /\ faults_left' = faults_left - 1

NoFault == UNCHANGED faults_left

GoTo(p, step) == pc' = [pc EXCEPT ![p] = step]

ForgetPass(p) ==
    /\ GoTo(p, "idle")
    /\ known_uids' = [known_uids EXCEPT ![p] = {}]
    /\ todo' = [todo EXCEPT ![p] = {}]
    /\ draft' = [draft EXCEPT ![p] = NoRow]

-----------------------------------------------------------------------------
\* The mailbox.

\* A pass has m in hand.
InHand(m) == m \in {draft[p].msg : p \in {q \in Proc : draft[q] # NoRow}}

\* m is given the next UID of the inbox.
IntoInbox(m) ==
    /\ uid_next' = uid_next + 1
    /\ uid' = [uid EXCEPT ![m] = uid_next + 1]

Arrive(m) ==
    /\ m \notin arrived
    /\ arrived' = arrived \cup {m}
    /\ IntoInbox(m)
    /\ UNCHANGED <<held, scans, lock, pass, release, torn, faults_left,
                   releases_left>>

\* Its owner deletes it, wherever it is.
UserDeletes(m) ==
    /\ uid[m] # 0 \/ m \in held
    /\ Fault("user")
    /\ uid' = [uid EXCEPT ![m] = 0]
    /\ held' = held \ {m}
    /\ UNCHANGED <<arrived, uid_next, scans, lock, pass, release, torn, releases_left>>

\* A move is a copy and a deletion; it does nothing if the UID is gone.
Copied(mail) == held' = IF uid[mail.msg] = mail.uid THEN held \cup {mail.msg}
                                                    ELSE held
Deleted(mail) == uid' = [uid EXCEPT ![mail.msg] = IF @ = mail.uid THEN 0 ELSE @]

-----------------------------------------------------------------------------
\* sync_mailbox: the lock is taken or the call returns.
Begin(p) ==
    /\ pc[p] = "idle"
    /\ Lock!Acquire(p)
    /\ GoTo(p, "known")
    /\ UNCHANGED <<mailbox, scans, known_uids, todo, draft, release, torn,
                   faults_left, releases_left>>

ReadKnown(p) ==
    /\ pc[p] = "known"
    /\ known_uids' = [known_uids EXCEPT ![p] = {scans[i].uid : i \in DOMAIN scans}]
    /\ GoTo(p, "fetch")
    /\ UNCHANGED <<mailbox, scans, lock, todo, draft, release, torn,
                   faults_left, releases_left>>

Inbox == {[msg |-> m, uid |-> uid[m]] : m \in {n \in Msg : uid[n] # 0}}

\* The highest UIDs; mail already known counts against the limit.
Newest == {mail \in Inbox :
              Cardinality({other \in Inbox : other.uid > mail.uid}) < Limit}

\* Mutant of Fetched: only mail behind the highest known UID.
FetchedSince(p) ==
    {mail \in Newest : /\ \A u \in known_uids[p] : mail.uid > u
                       /\ mail.msg \notin Malformed}

\* Mail that cannot be read is skipped without a trace.
Fetched(p) ==
    {mail \in Newest : /\ mail.uid \notin known_uids[p]
                       /\ mail.msg \notin Malformed}

Fetch(p) ==
    /\ pc[p] = "fetch"
    /\ todo' = [todo EXCEPT ![p] = Fetched(p)]
    /\ known_uids' = [known_uids EXCEPT ![p] = {}]
    /\ GoTo(p, "process")
    /\ UNCHANGED <<mailbox, scans, lock, draft, release, torn, faults_left,
                   releases_left>>

FetchFails(p) ==
    /\ pc[p] = "fetch"
    /\ Fault("fetch")
    /\ GoTo(p, "release")
    /\ UNCHANGED <<mailbox, scans, lock, known_uids, todo, draft, release,
                   torn, releases_left>>

-----------------------------------------------------------------------------
\* _process_one_message, for the newest message of the batch.
IsNext(p, mail) ==
    /\ mail \in todo[p]
    /\ \A other \in todo[p] : other.uid <= mail.uid

Drop(p, mail) == todo' = [todo EXCEPT ![p] = @ \ {mail}]

\* The verdict decides the status, and the status the action.
Classify(p, mail, status) ==
    /\ pc[p] = "process" /\ IsNext(p, mail)
    /\ draft' = [draft EXCEPT ![p] = NewRow(mail, status)]
    /\ GoTo(p, IF status = "Delivered" THEN "store" ELSE "act")
    /\ Drop(p, mail)
    /\ UNCHANGED <<mailbox, scans, lock, known_uids, release, torn,
                   faults_left, releases_left>>

\* No row: the next pass finds the message new again.
ClassifyFails(p, mail) ==
    /\ pc[p] = "process" /\ IsNext(p, mail)
    /\ Fault("classify")
    /\ Drop(p, mail)
    /\ UNCHANGED <<mailbox, scans, lock, pc, known_uids, draft, release, torn,
                   releases_left>>

Act(p) ==
    /\ pc[p] = "act"
    /\ IF draft[p].status = "Quarantined"
       THEN /\ Copied(draft[p]) /\ Deleted(draft[p])
            /\ draft' = [draft EXCEPT ![p].mailbox_action = "quarantined"]
       ELSE /\ draft' = [draft EXCEPT ![p].mailbox_action = "flagged"]
            /\ UNCHANGED <<uid, held>>
    /\ GoTo(p, "store")
    /\ UNCHANGED <<arrived, uid_next, scans, lock, known_uids, todo, release, torn,
                   faults_left, releases_left>>

\* Mutant of Failed: the row claims the action.
FailedClaiming(row) ==
    [row EXCEPT !.mailbox_action = "quarantined",
                !.mailbox_action_error = "MailboxError"]

Failed(row) == [row EXCEPT !.mailbox_action_error = "MailboxError"]

\* The call fails before, between or after the two halves of the move.
ActFails(p) ==
    /\ pc[p] = "act"
    /\ Fault("action")
    /\ \/ UNCHANGED <<uid, held, torn>>
       \/ /\ draft[p].status = "Quarantined"
          /\ Copied(draft[p])
          /\ Deleted(draft[p]) \/ UNCHANGED uid
          /\ torn' = torn \cup {draft[p].msg}
    /\ draft' = [draft EXCEPT ![p] = Failed(@)]
    /\ GoTo(p, "store")
    /\ UNCHANGED <<arrived, uid_next, scans, lock, known_uids, todo, release,
                   releases_left>>

-----------------------------------------------------------------------------
HasRow(u) == \E i \in DOMAIN scans : scans[i].uid = u

\* uq_scans_mailbox_uid.
Taken(row) == HasRow(row.uid)

\* The row in hand is lost, and with it what is known of a move.
LoseRow(p) ==
    torn' = IF pc[p] = "store" /\ draft[p].status = "Quarantined"
            THEN torn \cup {draft[p].msg} ELSE torn

Stored(p) ==
    /\ draft' = [draft EXCEPT ![p] = NoRow]
    /\ GoTo(p, "process")

Store(p) ==
    /\ pc[p] = "store" /\ ~Taken(draft[p])
    /\ scans' = Append(scans, draft[p])
    /\ Stored(p)
    /\ UNCHANGED <<mailbox, lock, known_uids, todo, release, torn, faults_left,
                   releases_left>>

\* An IntegrityError is rolled back and counted as a duplicate, whether the
\* UID has a row or the random scan_id is another scan's.
StoreDuplicate(p) ==
    /\ pc[p] = "store"
    /\ \/ Taken(draft[p]) /\ NoFault
       \/ ~Taken(draft[p]) /\ scans # <<>> /\ Fault("id_clash")
    /\ LoseRow(p)
    /\ Stored(p)
    /\ UNCHANGED <<mailbox, scans, lock, known_uids, todo, release,
                   releases_left>>

\* Any other error of the database escapes with the session unusable, so that
\* the release fails too.
StoreBreaks(p) ==
    /\ pc[p] = "store"
    /\ Fault("database")
    /\ LoseRow(p)
    /\ Lock!Abandon(p)
    /\ ForgetPass(p)
    /\ UNCHANGED <<mailbox, scans, release, releases_left>>

\* The batch is done, or the fetch has failed.
Release(p) ==
    /\ \/ pc[p] = "release"
       \/ pc[p] = "process" /\ todo[p] = {}
    /\ Lock!Release(p)
    /\ ForgetPass(p)
    /\ UNCHANGED <<mailbox, scans, release, torn, faults_left, releases_left>>

Crash(p) ==
    /\ pc[p] # "idle"
    /\ Fault("crash")
    /\ LoseRow(p)
    /\ Lock!Abandon(p)
    /\ ForgetPass(p)
    /\ UNCHANGED <<mailbox, scans, release, releases_left>>

TimePasses ==
    /\ Lock!Tick
    /\ UNCHANGED <<mailbox, scans, pass, release, torn, faults_left,
                   releases_left>>

-----------------------------------------------------------------------------
\* admin_action "release".

AdminGoes(a, place) == at' = [at EXCEPT ![a] = place]

\* Mail that was not quarantined is released by the commit alone.
ReleaseScan(a, i) ==
    /\ at[a] = "idle" /\ releases_left > 0
    /\ releases_left' = releases_left - 1
    /\ row_id' = [row_id EXCEPT ![a] = i]
    /\ mailbox_action' = [mailbox_action EXCEPT ![a] = scans[i].mailbox_action]
    /\ AdminGoes(a, IF scans[i].mailbox_action = "quarantined" THEN "move"
                                                               ELSE "commit")
    /\ UNCHANGED <<mailbox, scans, lock, pass, torn, faults_left>>

Released(a) == scans[row_id[a]].msg

\* What the search for the Message-ID may find in the quarantine folder.
Matches(a) ==
    {m \in held : MessageId[m] = MessageId[Released(a)] /\ MessageId[m] # NoId}

\* Whether m is spoken of by another row than that of a, stored or in hand.
SpokenOf(a, m) ==
    \/ \E i \in DOMAIN scans \ {row_id[a]} :
          scans[i].msg = m /\ scans[i].mailbox_action = "quarantined"
    \/ InHand(m)

MoveBack(a, m) ==
    /\ at[a] = "move" /\ m \in Matches(a)
    /\ IntoInbox(m)
    /\ held' = held \ {m}
    /\ mailbox_action' = [mailbox_action EXCEPT ![a] = "none"]
    /\ torn' = IF m # Released(a) \/ SpokenOf(a, m)
               THEN torn \cup {m, Released(a)} ELSE torn
    /\ AdminGoes(a, "commit")
    /\ UNCHANGED <<arrived, scans, lock, pass, row_id, faults_left,
                   releases_left>>

\* There is nothing to move, or the session fails: before, between or after
\* the two halves.
MoveBackFails(a) ==
    /\ at[a] = "move"
    /\ \/ Matches(a) = {} /\ NoFault /\ UNCHANGED <<mailbox, torn>>
       \/ Fault("release") /\ UNCHANGED <<mailbox, torn>>
       \/ /\ Fault("release")
          /\ \E m \in Matches(a) :
               /\ IntoInbox(m) /\ UNCHANGED arrived
               /\ held' = held \ {m} \/ UNCHANGED held
               /\ torn' = torn \cup {m, Released(a)}
    /\ mailbox_action' = [mailbox_action EXCEPT ![a] = "failed"]
    /\ AdminGoes(a, "commit")
    /\ UNCHANGED <<scans, lock, pass, row_id, releases_left>>

\* Mutant of ReleasedRow: a release that failed is recorded as done.
ReleasedRowAlways(row, action) ==
    [row EXCEPT !.status = "Delivered", !.mailbox_action = "none"]

\* The columns a release has changed.
ReleasedRow(row, action) ==
    CASE action = "none" /\ row.mailbox_action = "quarantined" ->
            [row EXCEPT !.status = "Delivered", !.mailbox_action = "none",
                        !.mailbox_action_error = ""]
      [] action = "failed" ->
            [row EXCEPT !.status = "Delivered",
                        !.mailbox_action_error = "MailboxError"]
      [] OTHER -> [row EXCEPT !.status = "Delivered"]

AdminEnds(a) ==
    /\ AdminGoes(a, "idle")
    /\ row_id' = [row_id EXCEPT ![a] = 0]
    /\ mailbox_action' = [mailbox_action EXCEPT ![a] = "none"]

CommitRelease(a) ==
    /\ at[a] = "commit"
    /\ scans' = [scans EXCEPT ![row_id[a]] = ReleasedRow(@, mailbox_action[a])]
    /\ AdminEnds(a)
    /\ UNCHANGED <<mailbox, lock, pass, torn, faults_left, releases_left>>

ReleaseDies(a) ==
    /\ at[a] # "idle"
    /\ Fault("web_crash")
    /\ torn' = IF at[a] = "commit" THEN torn \cup {Released(a)} ELSE torn
    /\ AdminEnds(a)
    /\ UNCHANGED <<mailbox, scans, lock, pass, releases_left>>

-----------------------------------------------------------------------------
Handle(p) ==
    \E mail \in todo[p] :
        \/ \E status \in Status : Classify(p, mail, status)
        \/ ClassifyFails(p, mail)

PassStep(p) ==
    \/ ReadKnown(p) \/ Fetch(p) \/ FetchFails(p)
    \/ Handle(p) \/ Act(p) \/ ActFails(p)
    \/ Store(p) \/ StoreDuplicate(p) \/ StoreBreaks(p)
    \/ Release(p)

AdminStep(a) ==
    \/ \E i \in DOMAIN scans : ReleaseScan(a, i)
    \/ \E m \in Msg : MoveBack(a, m)
    \/ MoveBackFails(a) \/ CommitRelease(a) \/ ReleaseDies(a)

Next ==
    \/ \E m \in Msg : Arrive(m) \/ UserDeletes(m)
    \/ \E p \in Proc : Begin(p) \/ PassStep(p) \/ Crash(p)
    \/ \E a \in Admin : AdminStep(a)
    \/ TimePasses

Spec == Init /\ [][Next]_vars

(***************************************************************************)
(* Beat starts a pass every minute, a pass that is not killed goes on, and *)
(* time passes.  Nothing is assumed of administrators, mail or failures.   *)
(***************************************************************************)
Fairness ==
    /\ WF_vars(\E p \in Proc : Begin(p))
    /\ \A p \in Proc : WF_vars(PassStep(p))
    /\ WF_vars(TimePasses)

FairSpec == Spec /\ Fairness

-----------------------------------------------------------------------------
Gone(m) == uid[m] = 0 /\ m \notin held

\* A row says a message is in quarantine only if it is there, or its owner
\* has deleted it, or the row is being released; except for messages whose
\* move went half way.
RecordedQuarantineIsReal ==
    \A i \in DOMAIN scans : scans[i].mailbox_action = "quarantined" =>
        LET m == scans[i].msg
        IN  \/ m \in held \/ Gone(m)
            \/ \E a \in Admin : at[a] = "commit" /\ row_id[a] = i
            \/ m \in torn

\* With the same exception, mail that is hidden from its owner has a row whose
\* release moves it back, or is about to.
HiddenMailIsReleasable ==
    \A m \in held \ torn : uid[m] = 0 =>
        \/ \E i \in DOMAIN scans :
              scans[i].msg = m /\ scans[i].mailbox_action = "quarantined"
        \/ InHand(m)

\* So the table and the folders tell the same story, whatever fails and however
\* passes, releases and the owner's deletions overlap.
QuarantineMatchesRows == RecordedQuarantineIsReal /\ HiddenMailIsReleasable

MaxUid == Cardinality(Msg) + MaxReleases + MaxFaults

\* As many newer messages as a fetch asks for are in the inbox.
Behind(m) == Cardinality({n \in Msg : uid[n] > uid[m]}) >= Limit

\* Whatever stays in the inbox is scanned, under the UID it has there, though
\* workers are killed and calls fail, unless newer mail keeps it out of the
\* fetch for good: known mail counts against the limit, so the scan of what is
\* newer makes no room for it.
EveryMessageScanned ==
    \A m \in Msg \ Malformed, u \in 1..MaxUid :
        [](uid[m] = u => <>(HasRow(u) \/ uid[m] # u) \/ <>[]Behind(m))
=============================================================================
