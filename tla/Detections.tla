----------------------------- MODULE Detections -----------------------------
(***************************************************************************)
(* Scan rows outside a mailbox pass: Quick Analysis (app.scan_email),      *)
(* uploaded .eml reports (reports/eml.py), the people deciding on them     *)
(* (submit_feedback, admin_action, review_report), the detection policy    *)
(* (routes/settings.py) that classify() reads, and the retention job       *)
(* (purge_old_bodies).                                                     *)
(*                                                                         *)
(* A request of a web worker, or a task of the Celery worker, reads rows   *)
(* into its session in one step and commits in another.  A commit is an    *)
(* UPDATE of the columns whose value differs from the one loaded, with no  *)
(* version check, so what others committed in between stays or is lost     *)
(* column by column.  Probabilities and thresholds are points of a grid    *)
(* 0..Top.  A row of source "gmail" is one a sync pass stored (GmailSync   *)
(* has the detail); only its verdict matters here.                         *)
(***************************************************************************)
EXTENDS Naturals, Sequences, FiniteSets

CONSTANTS
    Request,    \* web requests and tasks in progress at the same time
    Proba,      \* phishing probabilities the classifier may answer
    Top,        \* the grid point standing for probability 1
    Default,    \* [lo, hi]: the thresholds shipped in models.py
    MaxScans,   \* Scan rows ever stored, a bound of the model
    MaxOps      \* requests ever made, a bound of the model

Pair == [lo : 0..Top, hi : 0..Top]

ASSUME DetectionsAssumption ==
    /\ Top \in Nat /\ Proba \subseteq 0..Top /\ Default \in Pair
    /\ MaxScans \in Nat /\ MaxOps \in Nat

VARIABLES
    scans,      \* table scans, in the order of scan_timestamp
    reports,    \* table email_reports: scan index -> its report
    feedback,   \* table feedback
    settings,   \* table app_settings: <<>>, or <<policy>>
    files,      \* raw uploads in UPLOAD_DIR, on the web container's own disk
    lost,       \* reports whose container has been replaced since (history)
    req,        \* the requests in progress
    in_force,   \* the policies in force since a request began (history)
    decided,    \* the last committed decision on each scan (history)
    disputed,   \* scans on which two decisions overlapped (history)
    contested,  \* two changes of the policy overlapped (history)
    ops         \* requests made so far

disk    == <<files, lost>>
tables  == <<scans, reports, feedback, settings, disk>>
history == <<in_force, decided, disputed, contested>>
vars    == <<tables, req, history, ops>>

Label  == {"Phishing", "Needs Review", "Legitimate"}
Answer == {"Phishing", "Legitimate"}
Source == {"manual", "upload", "gmail"}
Decision == {"feedback", "review", "release", "confirm"}
Kind   == Source \cup Decision \cup {"policy", "purge"}
Place  == {"idle", "thresholds", "create", "file", "insert", "open", "commit"}

ScanRow == [source : Source, proba : Proba, model : Label, classification : Label,
            risk : {"High", "Medium", "Low"},
            status : {"Quarantined", "Flagged", "Delivered"},
            user_feedback : Answer \cup {"none"}, body : BOOLEAN, body_purged : BOOLEAN]
Report  == [status : {"none", "pending", "reviewed"},
            verdict : Answer \cup {"none"}, path : 0..MaxOps]

NoReport == [status |-> "none", verdict |-> "none", path |-> 0]
NoRow    == [source |-> "none"]
NoReq    == [kind |-> "none", at |-> "idle", proba |-> 0, label |-> "none",
             failed |-> FALSE, broken |-> FALSE, path |-> 0, items |-> {}, answer |-> "none",
             seen |-> NoRow, report |-> NoReport, want |-> Default, was |-> Default]

TypeOK ==
    /\ scans \in Seq(ScanRow) /\ Len(scans) <= MaxScans
    /\ reports \in [1..MaxScans -> Report]
    /\ feedback \subseteq [scan : 1..Len(scans), original : Label, corrected : Answer]
    /\ settings = <<>> \/ (Len(settings) = 1 /\ settings[1] \in Pair)
    /\ files \subseteq 1..MaxOps /\ lost \subseteq 1..MaxScans
    /\ \A q \in Request : req[q].at \in Place /\ req[q].items \subseteq 1..Len(scans)
    /\ disputed \subseteq 1..MaxScans /\ contested \in BOOLEAN /\ ops \in 0..MaxOps

-----------------------------------------------------------------------------
\* infer.decide: the label for a probability.
Decide(p, policy) ==
    IF p >= policy.hi THEN "Phishing"
    ELSE IF p >= policy.lo THEN "Needs Review" ELSE "Legitimate"

risk_for(label) ==
    CASE label = "Phishing" -> "High" [] label = "Needs Review" -> "Medium"
      [] OTHER -> "Low"

status_for(label) ==
    CASE label = "Phishing" -> "Quarantined" [] label = "Needs Review" -> "Flagged"
      [] OTHER -> "Delivered"

\* What a decision answers: a release says legitimate, a confirmation phishing.
Answers(kind) ==
    CASE kind = "release" -> {"Legitimate"} [] kind = "confirm" -> {"Phishing"}
      [] OTHER -> Answer

\* Mutant of Judged: the answer is noted and the verdict stays as it was.
JudgedNoteOnly(row, kind, answer) == [row EXCEPT !.user_feedback = answer]

\* The row after a decision; a release is what moves status.
Judged(row, kind, answer) ==
    [row EXCEPT !.user_feedback = answer, !.classification = answer,
                !.risk = risk_for(answer),
                !.status = IF kind = "release" THEN "Delivered" ELSE @]

\* Mutant of Updated: every column of the row is written.
UpdatedWhole(row, was, now) == [column \in DOMAIN row |-> now[column]]

\* The UPDATE a commit sends: the columns that differ from the loaded row.
Updated(row, was, now) ==
    [column \in DOMAIN row |->
        IF now[column] # was[column] THEN now[column] ELSE row[column]]

InForce(s) == IF s = <<>> THEN Default ELSE s[1]

Init ==
    /\ scans = <<>> /\ feedback = {} /\ settings = <<>>
    /\ files = {} /\ lost = {}
    /\ reports = [i \in 1..MaxScans |-> NoReport]
    /\ req = [q \in Request |-> NoReq]
    /\ in_force = [q \in Request |-> {}]
    /\ decided = [i \in 1..MaxScans |-> [kind |-> "none", answer |-> "none"]]
    /\ disputed = {} /\ contested = FALSE
    /\ ops = 0

-----------------------------------------------------------------------------
Begin(q, r) ==
    /\ req[q].at = "idle" /\ ops < MaxOps
    /\ ops' = ops + 1
    /\ req' = [req EXCEPT ![q] = r]

Goes(q, place) == req' = [req EXCEPT ![q].at = place]
Ends(q) == req' = [req EXCEPT ![q] = NoReq] /\ in_force' = [in_force EXCEPT ![q] = {}]

\* scan_email, the upload route, or a pass reaching a message: the model has
\* answered, and classify() goes on to _current_thresholds().
Submit(q, source, p) ==
    /\ Begin(q, [NoReq EXCEPT !.kind = source, !.at = "thresholds", !.proba = p,
                              !.path = IF source = "upload" THEN ops + 1 ELSE 0])
    /\ Len(scans) + Cardinality({o \in Request : req[o].kind \in Source}) < MaxScans
    /\ in_force' = [in_force EXCEPT ![q] = {InForce(settings)}]
    /\ UNCHANGED <<tables, decided, disputed, contested>>

\* Mutant of Accepted: an empty band passes.
AcceptedLoose(p) == 0 < p.lo /\ p.lo <= p.hi /\ p.hi < Top

\* The check of update_detection_policy.
Accepted(p) == 0 < p.lo /\ p.lo < p.hi /\ p.hi < Top

ChangePolicy(q, want) ==
    /\ Accepted(want)
    /\ Begin(q, [NoReq EXCEPT !.kind = "policy", !.at = "thresholds", !.want = want])
    /\ UNCHANGED <<tables, history>>

\* Mutant of Thresholds: what the process read at its start.
ThresholdsAtStart(s) == Default

\* The two columns, read in one SELECT.
Thresholds(s) == s[1]

\* Where classify()'s caller goes: an upload is written to disk first.
AfterClassify(kind) == IF kind = "upload" THEN "file" ELSE "insert"

\* AppSettings.current() finds the row.
ReadSettings(q) ==
    /\ req[q].at = "thresholds" /\ settings # <<>>
    /\ \/ /\ req[q].kind \in Source
          /\ req' = [req EXCEPT ![q].at = AfterClassify(req[q].kind),
                                ![q].label = Decide(req[q].proba, Thresholds(settings))]
          /\ UNCHANGED contested
       \/ /\ req[q].kind = "policy"
          /\ req' = [req EXCEPT ![q].at = "commit", ![q].was = settings[1]]
          /\ contested' = (contested \/ \E o \in Request \ {q} :
                               req[o].kind = "policy" /\ req[o].at = "commit")
    /\ UNCHANGED <<tables, in_force, decided, disputed, ops>>

\* It finds none, and is about to insert it.
MissSettings(q) ==
    /\ req[q].at = "thresholds" /\ settings = <<>>
    /\ Goes(q, "create")
    /\ UNCHANGED <<tables, history, ops>>

\* The INSERT commits, and the expired object is read again.
CreateSettings(q) ==
    /\ req[q].at = "create" /\ settings = <<>>
    /\ settings' = <<Default>>
    /\ Goes(q, "thresholds")
    /\ UNCHANGED <<scans, reports, feedback, disk, history, ops>>

\* _current_thresholds swallows an error, whatever it is, and answers the
\* shipped pair.  A broken session can only be rolled back: its next use fails,
\* before an upload would write its file.
FellBack(r, broken) ==
    [r EXCEPT !.at = IF broken THEN "insert" ELSE AfterClassify(r.kind),
              !.failed = TRUE, !.broken = broken, !.label = Decide(r.proba, Default)]

\* The SELECT fails, or the INSERT, as when another request inserted id=1 first,
\* which leaves the session broken.  A change of the policy answers 500.
ReadFails(q) ==
    /\ req[q].at \in {"thresholds", "create"}
    /\ \/ /\ req[q].kind = "policy"
          /\ Ends(q)
       \/ /\ req[q].kind \in Source
          /\ \E broken \in BOOLEAN :
                 /\ req[q].at = "create" => broken
                 /\ req' = [req EXCEPT ![q] = FellBack(req[q], broken)]
          /\ UNCHANGED in_force
    /\ UNCHANGED <<tables, decided, disputed, contested, ops>>

\* The commit of a policy; every classification under way may meet it.
CommitPolicy(q) ==
    /\ req[q].at = "commit" /\ req[q].kind = "policy"
    /\ settings' = <<Updated(settings[1], req[q].was, req[q].want)>>
    /\ in_force' = [o \in Request |->
           IF req[o].kind \in Source THEN in_force[o] \cup {settings'[1]} ELSE {}]
    /\ req' = [req EXCEPT ![q] = NoReq]
    /\ UNCHANGED <<scans, reports, feedback, disk, decided, disputed, contested, ops>>

-----------------------------------------------------------------------------
\* Mutant of StoreFile: the file is left for after the commit.
StoreFileLater(q) ==
    /\ req[q].at = "file"
    /\ Goes(q, "insert")
    /\ UNCHANGED <<tables, history, ops>>

\* store_file: before the commit, outside the transaction.
StoreFile(q) ==
    /\ req[q].at = "file"
    /\ files' = files \cup {req[q].path}
    /\ Goes(q, "insert")
    /\ UNCHANGED <<scans, reports, feedback, settings, lost, history, ops>>

NewScan(r) ==
    [source |-> r.kind, proba |-> r.proba, model |-> r.label,
     classification |-> r.label, risk |-> risk_for(r.label),
     status |-> status_for(r.label), user_feedback |-> "none",
     body |-> TRUE, body_purged |-> FALSE]

\* The Scan row, and for an upload its report, in one commit; a broken session
\* cannot commit and the request fails.
Insert(q) ==
    LET r == req[q]  i == Len(scans) + 1 IN
    /\ r.at = "insert"
    /\ IF r.broken
       THEN UNCHANGED <<scans, reports>>
       ELSE /\ scans' = Append(scans, NewScan(r))
            /\ reports' = IF r.kind # "upload" THEN reports
                          ELSE [reports EXCEPT ![i] =
                                   [status |-> "pending", verdict |-> "none", path |-> r.path]]
    /\ Ends(q)
    /\ UNCHANGED <<feedback, settings, disk, decided, disputed, contested, ops>>

-----------------------------------------------------------------------------
\* Somebody else has this scan open for a decision.
Overlap(q, i) == \E o \in Request \ {q} : req[o].kind \in Decision /\ i \in req[o].items

Disputes(q, i) == disputed' = IF Overlap(q, i) THEN disputed \cup {i} ELSE disputed

\* submit_feedback and admin_action load the scan.  What they do to the
\* mailbox of a "gmail" row is GmailReview's.
OpenScan(q, i, kind, answer) ==
    /\ Begin(q, [NoReq EXCEPT !.kind = kind, !.at = "commit", !.items = {i},
                              !.answer = answer, !.seen = scans[i]])
    /\ Disputes(q, i)
    /\ UNCHANGED <<tables, in_force, decided, contested>>

\* review_report loads the report first ...
OpenReport(q, i, answer) ==
    /\ reports[i].status # "none"
    /\ Begin(q, [NoReq EXCEPT !.kind = "review", !.at = "open", !.items = {i},
                              !.answer = answer, !.report = reports[i]])
    /\ Disputes(q, i)
    /\ UNCHANGED <<tables, in_force, decided, contested>>

\* ... and then the scan it points to.
OpenReported(q) ==
    /\ req[q].at = "open"
    /\ \E i \in req[q].items :
           req' = [req EXCEPT ![q].at = "commit", ![q].seen = scans[i]]
    /\ UNCHANGED <<tables, history, ops>>

\* Mutant of Noted: the original label is read after the verdict was set.
NotedLate(r, i) == [scan |-> i, original |-> r.answer, corrected |-> r.answer]

\* The Feedback row of a decision.
Noted(r, i) == [scan |-> i, original |-> r.seen.classification, corrected |-> r.answer]

\* Mutant of Reviewed: the review is noted and the report's verdict is not.
ReviewedOnly(report, was, answer) == [report EXCEPT !.status = "reviewed"]

\* The report after a review.
Reviewed(report, was, answer) ==
    Updated(report, was, [was EXCEPT !.status = "reviewed", !.verdict = answer])

\* The commit of a decision: the scan, the Feedback row, and the report.
CommitDecision(q) ==
    LET r == req[q] IN
    /\ r.at = "commit" /\ r.kind \in Decision
    /\ \E i \in r.items :
           /\ scans' = [scans EXCEPT ![i] =
                           Updated(@, r.seen, Judged(r.seen, r.kind, r.answer))]
           /\ feedback' = feedback \cup {Noted(r, i)}
           /\ reports' = IF r.kind # "review" THEN reports
                         ELSE [reports EXCEPT ![i] = Reviewed(@, r.report, r.answer)]
           /\ decided' = [decided EXCEPT ![i] = [kind |-> r.kind, answer |-> r.answer]]
    /\ Ends(q)
    /\ UNCHANGED <<settings, disk, disputed, contested, ops>>

-----------------------------------------------------------------------------
\* purge_old_bodies selects the rows past the retention window: the oldest.
OpenPurge(q, k) ==
    LET old == {i \in 1..k : ~scans[i].body_purged} IN
    /\ old # {}
    /\ Begin(q, [NoReq EXCEPT !.kind = "purge", !.at = "commit", !.items = old])
    /\ UNCHANGED <<tables, history>>

CommitPurge(q) ==
    /\ req[q].at = "commit" /\ req[q].kind = "purge"
    /\ scans' = [i \in DOMAIN scans |->
           IF i \notin req[q].items THEN scans[i]
           ELSE [scans[i] EXCEPT !.body = FALSE, !.body_purged = TRUE]]
    /\ Ends(q)
    /\ UNCHANGED <<reports, feedback, settings, disk, decided, disputed, contested, ops>>

\* The worker dies: its transaction is rolled back, a file it wrote stays.
Die(q) ==
    /\ req[q].at # "idle"
    /\ Ends(q)
    /\ UNCHANGED <<tables, decided, disputed, contested, ops>>

\* The web container is replaced: its requests die, and UPLOAD_DIR, which is
\* on no volume, goes with it.  Passes and tasks run in the worker.
ReplaceWeb ==
    LET survives(q) == req[q].kind \in {"gmail", "purge"} IN
    /\ req' = [q \in Request |-> IF survives(q) THEN req[q] ELSE NoReq]
    /\ in_force' = [q \in Request |-> IF survives(q) THEN in_force[q] ELSE {}]
    /\ files' = {}
    /\ lost' = lost \cup {i \in 1..MaxScans : reports[i].status # "none"}
    /\ UNCHANGED <<scans, reports, feedback, settings, decided, disputed, contested, ops>>

RequestStep(q) ==
    \/ \E source \in Source, p \in Proba : Submit(q, source, p)
    \/ \E want \in Pair : ChangePolicy(q, want)
    \/ ReadSettings(q) \/ MissSettings(q) \/ CreateSettings(q)
    \/ ReadFails(q) \/ CommitPolicy(q)
    \/ StoreFile(q) \/ Insert(q)
    \/ \E i \in DOMAIN scans :
           \/ \E kind \in {"feedback", "release", "confirm"} :
                  \E answer \in Answers(kind) : OpenScan(q, i, kind, answer)
           \/ \E answer \in Answer : OpenReport(q, i, answer)
           \/ OpenPurge(q, i)
    \/ OpenReported(q) \/ CommitDecision(q) \/ CommitPurge(q)
    \/ Die(q)

Next == ReplaceWeb \/ \E q \in Request : RequestStep(q)

Spec == Init /\ [][Next]_vars

-----------------------------------------------------------------------------
\* A correction changes the verdict and never loses what the model said: once
\* anybody has decided on a scan, a Feedback row holds the model's own label
\* (the comment in submit_feedback), whoever decided since and in whatever order.
ModelVerdictIsKept ==
    \A i \in DOMAIN scans : decided[i].kind # "none" =>
        \E f \in feedback : f.scan = i /\ f.original = scans[i].model

\* The last decision stands: unless two decisions on one scan overlapped, the
\* verdict, its risk badge and the recorded correction are those of the last
\* one, a release is delivered, and a report just reviewed says what its scan
\* says (submit_feedback, admin_action, review_report).
LastDecisionStands ==
    \A i \in DOMAIN scans \ disputed : decided[i].kind # "none" =>
        LET answer == decided[i].answer IN
        /\ scans[i].classification = answer
        /\ scans[i].user_feedback = answer
        /\ scans[i].risk = risk_for(answer)
        /\ decided[i].kind = "release" => scans[i].status = "Delivered"
        /\ decided[i].kind = "review" =>
               reports[i].status = "reviewed" /\ reports[i].verdict = answer

\* needs_review_list: what the console shows as waiting for an analyst.
NeedsReviewList == {i \in DOMAIN scans : scans[i].classification = "Needs Review"}

\* Nothing decided is stuck in the Needs Review queue, overlapping decisions
\* included (the reason submit_feedback gives for writing the verdict), and the
\* risk badge of every row is the one of its verdict.
DecidedLeavesTheQueue ==
    /\ \A f \in feedback : f.scan \notin NeedsReviewList
    /\ \A i \in DOMAIN scans : scans[i].risk = risk_for(scans[i].classification)

\* The cut points in force are ordered, as the route's check demands, unless
\* two changes overlapped: each writes only the column it changed, so (1,3)
\* changed to (2,3) and to (1,2) at the same time ends as (2,2).
PolicyIsOrdered ==
    (settings # <<>> /\ ~contested) =>
        0 < settings[1].lo /\ settings[1].lo < settings[1].hi /\ settings[1].hi < Top

\* The policies a classification may have used: one in force while it ran, and
\* if its read failed the shipped pair, whatever is in force.
Usable(q) == IF req[q].failed THEN {Default} ELSE in_force[q]

\* A verdict is the one of a single policy: never of half of one and half of
\* another, and never of one that was replaced before the request began, save
\* for the shipped pair, on which a failed read falls back (_current_thresholds).
VerdictUsesOnePolicy ==
    \A q \in Request : (req[q].kind \in Source /\ req[q].at \in {"file", "insert"}) =>
        req[q].label \in {Decide(req[q].proba, policy) : policy \in Usable(q)}

\* Whatever dies in between, a report's raw message is on the disk of the
\* container that stored it (analyze_and_store writes it before the commit):
\* it is missing only once that container has been replaced.
ReportHasItsFile ==
    \A i \in DOMAIN scans \ lost :
        reports[i].status # "none" => reports[i].path \in files

\* What the retention job removed never comes back: not by a decision that
\* had loaded the row before the purge (FR-DB-05).
PurgeIsOneWay ==
    [][\A i \in DOMAIN scans : scans[i].body_purged =>
           scans'[i].body_purged /\ ~scans'[i].body]_vars
=============================================================================
