-------------------------- MODULE DetectionsProofs --------------------------
(***************************************************************************)
(* What Detections guarantees for any number of requests, scans, policies  *)
(* and deaths of a worker.                                                 *)
(*                                                                         *)
(* A request commits what it made of rows it loaded earlier, so the        *)
(* inductive invariant is about what a request holds: its shape at each    *)
(* place (Shape), what is still true of the rows it is about (Anchored),   *)
(* that a decision nobody disputes holds its row as the row is (Fresh),    *)
(* and which policies a classification may meet (PolicyInv).               *)
(***************************************************************************)
EXTENDS Detections, FiniteSetTheorems, SequenceTheorems, TLAPS

-----------------------------------------------------------------------------
\* The inductive invariant.

RequestRow ==
    [kind : Kind \cup {"none"}, at : Place, proba : 0..Top, label : Label \cup {"none"},
     failed : BOOLEAN, broken : BOOLEAN, path : 0..MaxOps, items : SUBSET Nat,
     answer : Answer \cup {"none"}, seen : ScanRow \cup {NoRow}, report : Report,
     want : Pair, was : Pair]

\* What a request holds, by its kind and place.
Shape(r) ==
    /\ r \in RequestRow
    /\ r.kind = "none" <=> r.at = "idle"
    /\ r.kind \in Source => r.at \in {"thresholds", "create", "file", "insert"}
                            /\ r.proba \in Proba
    /\ r.kind = "policy" => r.at \in {"thresholds", "create", "commit"} /\ Accepted(r.want)
    /\ r.kind = "purge" => r.at = "commit"
    /\ r.kind \in Decision =>
           /\ r.at \in {"open", "commit"} /\ r.answer \in Answers(r.kind)
           /\ r.at = "open" => r.kind = "review"
           /\ r.at = "commit" => r.seen \in ScanRow
           /\ \E i \in Nat : r.items = {i}
    /\ r.at \in {"file", "insert"} => r.label \in Label
    /\ r.at \in {"thresholds", "create"} => ~r.failed
    /\ r.at = "file" => r.kind = "upload"
    /\ r.kind = "upload" => r.path # 0

Verdicts(i) == {f.original : f \in {f \in feedback : f.scan = i}}

\* What the model said of scan i is its verdict, or a Feedback row has it.
ModelKnown(i, verdict) == verdict = scans[i].model \/ scans[i].model \in Verdicts(i)

\* What is true of the rows a request is about, whatever others commit.
Anchored(r) ==
    /\ r.items \subseteq DOMAIN scans
    /\ r.kind = "upload" /\ r.at = "insert" /\ ~r.broken => r.path \in files
    /\ r.kind = "review" => \A i \in r.items : reports[i].status # "none"
    /\ r.kind \in Decision /\ r.at = "commit" => \A i \in r.items :
           /\ ModelKnown(i, r.seen.classification)
           /\ r.seen.risk = risk_for(r.seen.classification)
           /\ \/ scans[i].classification = r.seen.classification
              \/ scans[i].classification \in Answer

\* The verdict of a row, as decisions write it.
SameVerdict(row, seen) ==
    /\ row.classification = seen.classification /\ row.risk = seen.risk
    /\ row.user_feedback = seen.user_feedback /\ row.status = seen.status

\* A decision on a scan nobody disputes holds its row and report as they are.
Fresh(r) ==
    \A i \in r.items \ disputed : r.kind \in Decision =>
        /\ r.at = "commit" => SameVerdict(scans[i], r.seen)
        /\ r.kind = "review" => reports[i] = r.report

\* The rows by themselves.
RowsInv ==
    \A i \in DOMAIN scans :
        /\ scans[i].risk = risk_for(scans[i].classification)
        /\ scans[i].body_purged => ~scans[i].body
        /\ ModelKnown(i, scans[i].classification)
        /\ decided[i].kind # "none" => scans[i].model \in Verdicts(i)
        /\ Verdicts(i) # {} => scans[i].classification \in Answer

\* What has no scan yet has no report, no decision and no Feedback row.
UnusedInv ==
    \A i \in 1..MaxScans : i \notin DOMAIN scans =>
        /\ reports[i].status = "none" /\ decided[i].kind = "none"

FilesInv ==
    \A i \in (1..MaxScans) \ lost : reports[i].status # "none" => reports[i].path \in files

OneDecider ==
    \A q, o \in Request, i \in DOMAIN scans \ disputed :
        /\ req[q].kind \in Decision /\ i \in req[q].items
        /\ req[o].kind \in Decision /\ i \in req[o].items
        => q = o

\* A verdict of one of the policies, or of the shipped pair after a failed read.
VerdictOf(r, policies) ==
    IF r.failed THEN r.label = Decide(r.proba, Default)
    ELSE \E p \in policies : r.label = Decide(r.proba, p)

\* The policy, which each classification under way may have met.
PolicyInv ==
    \A q \in Request :
        /\ req[q].kind \in Source =>
               /\ InForce(settings) \in in_force[q]
               /\ req[q].at = "create" => Default \in in_force[q]
               /\ req[q].at \in {"file", "insert"} =>
                      VerdictOf(req[q], in_force[q])
        /\ req[q].kind = "policy" /\ req[q].at = "commit" => settings # <<>>

\* Unless two changes overlapped, one is under way and holds what is in force.
OnePolicyChange ==
    /\ \A q, o \in Request :
           /\ req[q].kind = "policy" /\ req[q].at = "commit"
           /\ req[o].kind = "policy" /\ req[o].at = "commit"
           => q = o
    /\ \A q \in Request :
           req[q].kind = "policy" /\ req[q].at = "commit" => req[q].was = settings[1]
    /\ settings # <<>> => Accepted(settings[1])

Classifying == {q \in Request : req[q].kind \in Source}

CapacityInv ==
    IsFiniteSet(Classifying) /\ Len(scans) + Cardinality(Classifying) <= MaxScans

TypeInv ==
    /\ TypeOK
    /\ req \in [Request -> RequestRow]
    /\ in_force \in [Request -> SUBSET Pair]
    /\ decided \in [1..MaxScans -> [kind : Decision \cup {"none"},
                                    answer : Answer \cup {"none"}]]
    /\ settings \in Seq(Pair)

RequestsInv ==
    /\ \A q \in Request : Shape(req[q]) /\ Anchored(req[q]) /\ Fresh(req[q])
    /\ OneDecider

TablesInv == RowsInv /\ UnusedInv /\ FilesInv /\ LastDecisionStands

DetectionsInv == TypeInv /\ RequestsInv /\ TablesInv /\ PolicyInv /\ CapacityInv

PolicyOrder == contested \/ OnePolicyChange

-----------------------------------------------------------------------------
\* Rows, and what a commit makes of them.

LEMMA JudgedIsRow ==
  ASSUME NEW seen \in ScanRow, NEW kind \in Decision, NEW answer \in Answer
  PROVE  Judged(seen, kind, answer) \in ScanRow
<1>0. risk_for(answer) \in {"High", "Medium", "Low"} /\ answer \in Label
      /\ answer \in Answer \cup {"none"}
  BY DEF risk_for, Answer, Label
<1> QED
  BY <1>0 DEF Judged, ScanRow

LEMMA JudgedType ==
  ASSUME NEW row \in ScanRow, NEW seen \in ScanRow, NEW kind \in Decision,
         NEW answer \in Answer
  PROVE  Updated(row, seen, Judged(seen, kind, answer)) \in ScanRow
BY JudgedIsRow DEF Updated, ScanRow

LEMMA JudgedColumns ==
  ASSUME NEW row \in ScanRow, NEW seen \in ScanRow, NEW kind \in Decision,
         NEW answer \in Answer, NEW u \in ScanRow,
         u = Updated(row, seen, Judged(seen, kind, answer))
  PROVE  /\ u.source = row.source /\ u.model = row.model
         /\ u.classification = IF answer # seen.classification THEN answer
                               ELSE row.classification
         /\ u.user_feedback = IF answer # seen.user_feedback THEN answer
                              ELSE row.user_feedback
         /\ u.risk = IF risk_for(answer) # seen.risk THEN risk_for(answer) ELSE row.risk
         /\ u.status = IF kind = "release" /\ seen.status # "Delivered" THEN "Delivered"
                       ELSE row.status
<1>0. risk_for(answer) \in {"High", "Medium", "Low"} /\ answer \in Label
      /\ answer \in Answer \cup {"none"}
  BY DEF risk_for, Answer, Label
<1>n. PICK now : now = Judged(seen, kind, answer)
  OBVIOUS
<1>0a. now \in ScanRow
  BY <1>n, JudgedIsRow
<1>1. /\ now.source = seen.source /\ now.model = seen.model /\ now.proba = seen.proba
      /\ now.classification = answer /\ now.user_feedback = answer
      /\ now.risk = risk_for(answer)
      /\ now.status = IF kind = "release" THEN "Delivered" ELSE seen.status
  BY <1>0, <1>0a, <1>n DEF Judged, ScanRow
<1>2. u = Updated(row, seen, now)
  BY <1>n
<1> QED
  BY <1>0a, <1>1, <1>2 DEF Updated, ScanRow

\* A decision leaves the body, and that it was purged, alone.
LEMMA JudgedKeepsBody ==
  ASSUME NEW row \in ScanRow, NEW seen \in ScanRow, NEW kind \in Decision,
         NEW answer \in Answer, NEW u \in ScanRow,
         u = Updated(row, seen, Judged(seen, kind, answer))
  PROVE  u.body = row.body /\ u.body_purged = row.body_purged
<1>n. PICK now : now = Judged(seen, kind, answer)
  OBVIOUS
<1>1. now.body = seen.body /\ now.body_purged = seen.body_purged
  BY <1>n DEF Judged, ScanRow
<1>2. u = Updated(row, seen, now)
  BY <1>n
<1> QED
  BY <1>1, <1>2 DEF Updated, ScanRow

LEMMA ReviewedType ==
  ASSUME NEW report \in Report, NEW was \in Report, NEW answer \in Answer
  PROVE  Reviewed(report, was, answer) \in Report
<1>1. [was EXCEPT !.status = "reviewed", !.verdict = answer] \in Report
  BY DEF Report
<1> QED
  BY <1>1 DEF Reviewed, Updated, Report

\* A review leaves a report's file alone and never makes it unreviewed.
LEMMA ReviewedColumns ==
  ASSUME NEW report \in Report, NEW was \in Report, NEW answer \in Answer,
         NEW u \in Report, u = Reviewed(report, was, answer)
  PROVE  /\ u.path = report.path
         /\ u.status = IF was.status # "reviewed" THEN "reviewed" ELSE report.status
         /\ u.verdict = IF was.verdict # answer THEN answer ELSE report.verdict
<1>n. PICK now : now = [was EXCEPT !.status = "reviewed", !.verdict = answer]
  OBVIOUS
<1>1. /\ now \in Report /\ now.status = "reviewed" /\ now.verdict = answer
      /\ now.path = was.path
  BY <1>n DEF Report
<1>2. u = Updated(report, was, now)
  BY <1>n DEF Reviewed
<1> QED
  BY <1>1, <1>2 DEF Updated, Report

LEMMA UpdatedPair ==
  ASSUME NEW row \in Pair, NEW want \in Pair, NEW was \in Pair
  PROVE  /\ Updated(row, was, want) \in Pair
         /\ Updated(row, row, want) = want
BY DEF Updated, Pair

\* The badge names its verdict.
LEMMA RiskIsOne ==
  /\ \A label : risk_for(label) \in {"High", "Medium", "Low"}
  /\ \A a, b \in Label : risk_for(a) = risk_for(b) => a = b
BY DEF risk_for, Label

LEMMA StatusType ==
  \A label : status_for(label) \in {"Quarantined", "Flagged", "Delivered"}
BY DEF status_for

LEMMA DecideType == \A p, policy : Decide(p, policy) \in Label
BY DEF Decide, Label

LEMMA RowsType ==
  TypeOK => /\ Len(scans) \in Nat /\ DOMAIN scans = 1..Len(scans)
            /\ \A i \in DOMAIN scans : scans[i] \in ScanRow /\ i \in 1..MaxScans
BY LenProperties, DetectionsAssumption DEF TypeOK

LEMMA NoReqShape == NoReq \in RequestRow /\ Shape(NoReq) /\ NoReq.items = {}
                    /\ NoReq.kind = "none" /\ NoReq.at = "idle"
<1>1. NoReq \in RequestRow
  BY DetectionsAssumption DEF NoReq, NoReport, RequestRow, Kind, Place, Source,
     Decision, Report, Label, Answer
<1> QED
  BY <1>1 DEF NoReq, Shape, Source, Decision

-----------------------------------------------------------------------------
\* A step of one request.

LEMMA OneRequestMoves ==
  ASSUME TypeInv, NEW q \in Request, NEW r, req' = [req EXCEPT ![q] = r]
  PROVE  /\ \A o \in Request : req'[o] = IF o = q THEN r ELSE req[o]
         /\ r \in RequestRow => req' \in [Request -> RequestRow]
BY DEF TypeInv

\* A step that writes no row: the others' claims on the rows stand, and the
\* rows are as they were.
LEMMA QuietStep ==
  ASSUME TypeInv, RequestsInv, TablesInv, NEW q \in Request, NEW r,
         req' = [req EXCEPT ![q] = r],
         UNCHANGED <<scans, reports, feedback, lost, decided>>,
         files \subseteq files', disputed \subseteq disputed',
         Shape(r), Anchored(r)', Fresh(r)',
         r.kind \in Decision => \A i \in r.items : Overlap(q, i) => i \in disputed'
  PROVE  RequestsInv' /\ TablesInv'
<1>1. \A o \in Request : req'[o] = IF o = q THEN r ELSE req[o]
  BY OneRequestMoves
<1>2. ASSUME NEW o \in Request, o # q
      PROVE  Shape(req'[o]) /\ Anchored(req[o])' /\ Fresh(req[o])'
  <2>1. req'[o] = req[o]
    BY <1>1, <1>2
  <2>2. Shape(req[o]) /\ Anchored(req[o]) /\ Fresh(req[o])
    BY DEF RequestsInv
  <2>3. Anchored(req[o])'
    BY <2>1, <2>2 DEF Anchored, ModelKnown, Verdicts
  <2>4. Fresh(req[o])'
    BY <2>1, <2>2 DEF Fresh
  <2> QED
    BY <2>1, <2>2, <2>3, <2>4
<1>3. OneDecider'
  <2> SUFFICES ASSUME NEW o \in Request, NEW p \in Request, NEW i \in DOMAIN scans,
                      i \notin disputed',
                      req'[o].kind \in Decision, i \in req'[o].items,
                      req'[p].kind \in Decision, i \in req'[p].items
               PROVE  o = p
    BY DEF OneDecider
  <2>1. CASE o # q /\ p # q
    BY <1>1, <2>1 DEF RequestsInv, OneDecider
  <2>2. CASE o = q /\ p # q
    BY <1>1, <2>2 DEF Overlap
  <2>3. CASE o # q /\ p = q
    BY <1>1, <2>3 DEF Overlap
  <2> QED
    BY <2>1, <2>2, <2>3
<1>4. RequestsInv'
  BY <1>1, <1>2, <1>3 DEF RequestsInv
<1>5. RowsInv' /\ UnusedInv'
  BY DEF TablesInv, RowsInv, UnusedInv, ModelKnown, Verdicts
<1>6. FilesInv'
  BY DEF TablesInv, FilesInv
<1>7. LastDecisionStands'
  BY DEF TablesInv, LastDecisionStands
<1> QED
  BY <1>4, <1>5, <1>6, <1>7 DEF TablesInv

\* The policies the others' classifications may have met.
LEMMA PolicyStep ==
  ASSUME PolicyInv, NEW q \in Request, NEW r,
         \A o \in Request : req'[o] = IF o = q THEN r ELSE req[o],
         settings' = settings,
         \A o \in Request \ {q} : in_force'[o] = in_force[o],
         r.kind \in Source =>
             /\ InForce(settings) \in in_force'[q]
             /\ r.at = "create" => Default \in in_force'[q]
             /\ r.at \in {"file", "insert"} =>
                    VerdictOf(r, in_force'[q]),
         r.kind = "policy" /\ r.at = "commit" => settings # <<>>
  PROVE  PolicyInv'
<1>1. ASSUME NEW o \in Request
      PROVE  /\ req'[o].kind \in Source =>
                    /\ InForce(settings') \in in_force'[o]
                    /\ req'[o].at = "create" => Default \in in_force'[o]
                    /\ req'[o].at \in {"file", "insert"} =>
                           VerdictOf(req'[o], in_force'[o])
             /\ req'[o].kind = "policy" /\ req'[o].at = "commit" => settings' # <<>>
  <2>1. CASE o = q
    BY <2>1
  <2>2. CASE o # q
    BY <2>2 DEF PolicyInv
  <2> QED
    BY <2>1, <2>2
<1> QED
  BY <1>1 DEF PolicyInv

\* The room for what is being classified, when a step adds nothing to it.
LEMMA CapacityStep ==
  ASSUME TypeInv, CapacityInv, NEW q \in Request, NEW r,
         req' = [req EXCEPT ![q] = r], Len(scans') = Len(scans),
         r.kind \in Source => req[q].kind \in Source
  PROVE  CapacityInv'
<1>1. \A o \in Request : req'[o] = IF o = q THEN r ELSE req[o]
  BY OneRequestMoves
<1>2. Classifying' \subseteq Classifying
  BY <1>1 DEF Classifying
<1>3. IsFiniteSet(Classifying') /\ Cardinality(Classifying') <= Cardinality(Classifying)
      /\ Cardinality(Classifying') \in Nat /\ Cardinality(Classifying) \in Nat
  BY <1>2, FS_Subset, FS_CardinalityType DEF CapacityInv
<1>4. Len(scans) \in Nat
  BY RowsType DEF TypeInv
<1> QED
  BY <1>3, <1>4, DetectionsAssumption DEF CapacityInv

\* What a request that begins may be: ops counts it.
LEMMA BeginEffect ==
  ASSUME TypeInv, RequestsInv, NEW q \in Request, NEW r, Begin(q, r)
  PROVE  /\ req' = [req EXCEPT ![q] = r] /\ req[q].kind = "none"
         /\ ops' \in 0..MaxOps /\ ops \in 0..MaxOps /\ ops + 1 \in 1..MaxOps
BY DetectionsAssumption DEF TypeInv, TypeOK, Begin, RequestsInv, Shape

LEMMA EndsEffect ==
  ASSUME TypeInv, NEW q \in Request, Ends(q)
  PROVE  /\ req' = [req EXCEPT ![q] = NoReq] /\ req' \in [Request -> RequestRow]
         /\ in_force' \in [Request -> SUBSET Pair]
         /\ \A o \in Request \ {q} : in_force'[o] = in_force[o]
<1>1. NoReq \in RequestRow
  BY NoReqShape
<1> QED
  BY <1>1 DEF Ends, TypeInv

\* TypeOK, from what it says of the variables a step of q changes.
LEMMA TypeStep ==
  ASSUME TypeInv, UNCHANGED <<scans, reports, feedback, lost, decided>>,
         NEW q \in Request, NEW r, Shape(r), r.items \subseteq 1..Len(scans),
         req' = [req EXCEPT ![q] = r],
         in_force' \in [Request -> SUBSET Pair],
         settings' = settings \/ \E policy \in Pair : settings' = <<policy>>,
         files' \subseteq 1..MaxOps, disputed' \subseteq 1..MaxScans,
         contested' \in BOOLEAN, ops' \in 0..MaxOps
  PROVE  TypeInv'
<1>1. \A o \in Request : req'[o] = IF o = q THEN r ELSE req[o]
  BY OneRequestMoves
<1>2. req' \in [Request -> RequestRow]
  BY OneRequestMoves DEF Shape
<1>3. \A o \in Request : req'[o].at \in Place /\ req'[o].items \subseteq 1..Len(scans)
  BY <1>1 DEF TypeInv, TypeOK, Shape, RequestRow
<1>4. /\ settings' \in Seq(Pair)
      /\ settings' = <<>> \/ (Len(settings') = 1 /\ settings'[1] \in Pair)
  <2>1. CASE settings' = settings
    BY <2>1 DEF TypeInv, TypeOK
  <2>2. ASSUME NEW policy \in Pair, settings' = <<policy>>
        PROVE  settings' \in Seq(Pair) /\ Len(settings') = 1 /\ settings'[1] \in Pair
    BY <2>2
  <2> QED
    BY <2>1, <2>2
<1> QED
  BY <1>2, <1>3, <1>4 DEF TypeInv, TypeOK

\* The three together.
LEMMA Quiet ==
  ASSUME DetectionsInv, NEW q \in Request, NEW r,
         req' = [req EXCEPT ![q] = r],
         UNCHANGED <<scans, reports, feedback, lost, decided>>,
         files \subseteq files', files' \subseteq 1..MaxOps,
         disputed \subseteq disputed', disputed' \subseteq 1..MaxScans,
         Shape(r), Anchored(r)', Fresh(r)',
         r.kind \in Decision => \A i \in r.items : Overlap(q, i) => i \in disputed',
         in_force' \in [Request -> SUBSET Pair],
         settings' = settings \/ \E policy \in Pair : settings' = <<policy>>,
         contested' \in BOOLEAN, ops' \in 0..MaxOps,
         PolicyInv', CapacityInv'
  PROVE  DetectionsInv'
<1>1. TypeInv /\ RequestsInv /\ TablesInv
  BY DEF DetectionsInv
<1>2. r.items \subseteq 1..Len(scans)
  BY <1>1, RowsType DEF Anchored, TypeInv
<1>3. TypeInv'
  BY <1>1, <1>2, TypeStep
<1>4. RequestsInv' /\ TablesInv'
  BY <1>1, QuietStep
<1> QED
  BY <1>3, <1>4 DEF DetectionsInv

\* A request that is no decision has no claim on a row but that it exists.
LEMMA NotDeciding ==
  ASSUME NEW r, r.items \subseteq DOMAIN scans', r.kind \notin Decision,
         r.kind = "upload" /\ r.at = "insert" /\ ~r.broken => r.path \in files'
  PROVE  Anchored(r)' /\ Fresh(r)'
BY DEF Anchored, Fresh, Decision

LEMMA Parts ==
  ASSUME DetectionsInv
  PROVE  TypeInv /\ RequestsInv /\ TablesInv /\ PolicyInv /\ CapacityInv
BY DEF DetectionsInv

LEMMA TypeFacts ==
  ASSUME DetectionsInv
  PROVE  /\ TypeInv /\ RequestsInv /\ TablesInv /\ PolicyInv /\ CapacityInv
         /\ files \subseteq 1..MaxOps /\ disputed \subseteq 1..MaxScans
         /\ in_force \in [Request -> SUBSET Pair] /\ contested \in BOOLEAN
         /\ ops \in 0..MaxOps
         /\ \A q \in Request : req[q].items \subseteq DOMAIN scans /\ Shape(req[q])
BY DEF DetectionsInv, TypeInv, TypeOK, RequestsInv, Anchored

LEMMA InForceType == TypeInv => InForce(settings) \in Pair
BY DetectionsAssumption DEF TypeInv, TypeOK, InForce

LEMMA SubmitKeeps ==
  ASSUME DetectionsInv, NEW q \in Request, NEW source \in Source, NEW p \in Proba,
         Submit(q, source, p)
  PROVE  DetectionsInv'
<1> PICK path : path = IF source = "upload" THEN ops + 1 ELSE 0
  OBVIOUS
<1> DEFINE r == [NoReq EXCEPT !.kind = source, !.at = "thresholds", !.proba = p,
                              !.path = path]
<1>0. Len(scans) + Cardinality(Classifying) < MaxScans
  BY DEF Submit, Classifying
<1>1. Begin(q, r) /\ in_force' = [in_force EXCEPT ![q] = {InForce(settings)}]
      /\ UNCHANGED <<scans, reports, feedback, settings, files, lost, decided, disputed, contested>>
  BY DEF Submit, tables, disk
<1>2. /\ req' = [req EXCEPT ![q] = r] /\ req[q].kind = "none"
      /\ ops' \in 0..MaxOps /\ ops + 1 \in 1..MaxOps
  BY <1>1, TypeFacts, BeginEffect
<1>path. path \in 0..MaxOps /\ (source = "upload" => path # 0)
  BY <1>2, DetectionsAssumption
<1>3. /\ r.kind = source /\ r.at = "thresholds" /\ r.items = {}
      /\ r.path = path /\ r.proba = p /\ ~r.failed
  BY DEF NoReq
<1>4. r \in RequestRow
  <2>1. p \in 0..Top /\ source \in Kind /\ "thresholds" \in Place
    BY DetectionsAssumption DEF Kind, Place
  <2> QED
    BY ZenonT(40), <1>path, <2>1, NoReqShape DEF NoReq, RequestRow
<1> HIDE DEF r
<1>kind. source \notin {"none", "policy", "purge"} \cup Decision
  BY DEF Source, Decision
<1>5. Shape(r)
  BY <1>path, <1>kind, <1>3, <1>4 DEF Shape
<1>6. Anchored(r)' /\ Fresh(r)'
  BY <1>3, NotDeciding DEF Source, Decision
<1>7. in_force' \in [Request -> SUBSET Pair] /\ in_force'[q] = {InForce(settings)}
      /\ \A o \in Request \ {q} : in_force'[o] = in_force[o]
  BY <1>1, TypeFacts, InForceType
<1>8. \A o \in Request : req'[o] = IF o = q THEN r ELSE req[o]
  BY <1>2, Parts, OneRequestMoves
<1>9. PolicyInv'
  <2>1. PolicyInv /\ r.at # "create" /\ r.at \notin {"file", "insert"} /\ r.kind # "policy"
    BY <1>3, TypeFacts DEF Source
  <2> QED
    BY <1>1, <1>7, <1>8, <2>1, PolicyStep
<1>10. CapacityInv'
  <2>1. Classifying' = Classifying \cup {q} /\ q \notin Classifying
    BY <1>2, <1>3, <1>8 DEF Classifying, Source
  <2>2. IsFiniteSet(Classifying) /\ Cardinality(Classifying) \in Nat
    BY TypeFacts, FS_CardinalityType DEF CapacityInv
  <2>3. IsFiniteSet(Classifying') /\ Cardinality(Classifying') = Cardinality(Classifying) + 1
    BY <2>1, <2>2, FS_AddElement
  <2>4. Len(scans) \in Nat /\ Len(scans) + Cardinality(Classifying) < MaxScans
    BY <1>0, TypeFacts, RowsType DEF TypeInv
  <2> QED
    BY <1>1, <2>2, <2>3, <2>4, DetectionsAssumption DEF CapacityInv
<1>11. r.kind \notin Decision
  BY <1>3 DEF Source, Decision
<1> QED
  BY <1>1, <1>2, <1>5, <1>6, <1>7, <1>9, <1>10, <1>11, TypeFacts, Quiet

LEMMA ChangePolicyKeeps ==
  ASSUME DetectionsInv, NEW q \in Request, NEW want \in Pair, ChangePolicy(q, want)
  PROVE  DetectionsInv'
<1> DEFINE r == [NoReq EXCEPT !.kind = "policy", !.at = "thresholds", !.want = want]
<1>1. Begin(q, r) /\ Accepted(want)
      /\ UNCHANGED <<scans, reports, feedback, settings, files, lost, in_force, decided,
                     disputed, contested>>
  BY DEF ChangePolicy, tables, disk, history
<1>2. req' = [req EXCEPT ![q] = r] /\ req[q].kind = "none" /\ ops' \in 0..MaxOps
  BY <1>1, TypeFacts, BeginEffect
<1>3. /\ r.kind = "policy" /\ r.at = "thresholds" /\ r.items = {} /\ r.want = want
      /\ ~r.failed
  BY DEF NoReq
<1>4. r \in RequestRow
  BY NoReqShape DEF NoReq, RequestRow, Kind, Place
<1> HIDE DEF r
<1>5. Shape(r)
  BY <1>1, <1>3, <1>4 DEF Shape, Source, Decision
<1>6. Anchored(r)' /\ Fresh(r)' /\ r.kind \notin Decision /\ r.kind \notin Source
  BY <1>3, NotDeciding DEF Decision, Source
<1>7. \A o \in Request : req'[o] = IF o = q THEN r ELSE req[o]
  BY <1>2, Parts, OneRequestMoves
<1>8. PolicyInv'
  BY <1>1, <1>3, <1>6, <1>7, TypeFacts, PolicyStep
<1>9. CapacityInv'
  BY <1>1, <1>2, <1>6, TypeFacts, CapacityStep
<1> QED
  BY <1>1, <1>2, <1>5, <1>6, <1>8, <1>9, TypeFacts, Quiet

\* A classification reads the thresholds.
LEMMA ReadThresholds ==
  ASSUME DetectionsInv, NEW q \in Request, ReadSettings(q), req[q].kind \in Source
  PROVE  DetectionsInv'
<1>0. PICK r : r = [req[q] EXCEPT !.at = AfterClassify(req[q].kind),
                                !.label = Decide(req[q].proba, Thresholds(settings))]
  OBVIOUS
<1>1. /\ req[q].at = "thresholds" /\ settings # <<>>
      /\ req' = [req EXCEPT ![q] = r] /\ contested' = contested
      /\ UNCHANGED <<scans, reports, feedback, settings, files, lost, in_force, decided,
                     disputed, ops>>
  BY <1>0 DEF ReadSettings, tables, disk, Source
<1>2. Shape(req[q]) /\ req[q] \in RequestRow /\ req[q].items \subseteq DOMAIN scans
  BY TypeFacts DEF Shape
<1>3. Decide(req[q].proba, Thresholds(settings)) \in Label
      /\ AfterClassify(req[q].kind) \in Place
  BY DecideType DEF AfterClassify, Place
<1>4. /\ r.kind = req[q].kind /\ r.at = AfterClassify(req[q].kind)
      /\ r.label = Decide(req[q].proba, Thresholds(settings)) /\ r.proba = req[q].proba
      /\ r.items = req[q].items /\ r.path = req[q].path /\ r.failed = req[q].failed
  BY <1>0, <1>2 DEF RequestRow
<1>5. r \in RequestRow
  BY <1>0, <1>2, <1>3 DEF RequestRow
<1>6. /\ r.kind \in Source /\ r.kind \notin {"none", "policy", "purge"} \cup Decision
      /\ r.at = IF r.kind = "upload" THEN "file" ELSE "insert"
  BY <1>4 DEF Source, Decision, AfterClassify
<1>7. Shape(r)
  BY <1>2, <1>3, <1>4, <1>5, <1>6 DEF Shape
<1>8. Anchored(r)' /\ Fresh(r)'
  BY <1>1, <1>2, <1>4, <1>6, NotDeciding
<1>9. \A o \in Request : req'[o] = IF o = q THEN r ELSE req[o]
  BY <1>1, Parts, OneRequestMoves
<1>10. PolicyInv'
  <2>1. settings[1] = InForce(settings) /\ settings[1] \in in_force[q] /\ PolicyInv
    BY <1>1, TypeFacts DEF InForce, PolicyInv
  <2>2. VerdictOf(r, in_force[q])
    <3>1. ~r.failed
      BY <1>1, <1>2, <1>4 DEF Shape
    <3> QED
      BY <1>4, <2>1, <3>1 DEF VerdictOf, Thresholds
  <2> QED
    BY <1>1, <1>6, <1>9, <2>1, <2>2, PolicyStep
<1>11. CapacityInv'
  BY <1>1, TypeFacts, CapacityStep
<1> QED
  BY <1>1, <1>6, <1>7, <1>8, <1>10, <1>11, TypeFacts, Quiet

\* A change of the policy reads what it changes.
LEMMA ReadPolicy ==
  ASSUME DetectionsInv, NEW q \in Request, ReadSettings(q), req[q].kind = "policy"
  PROVE  DetectionsInv'
<1>0. PICK r : r = [req[q] EXCEPT !.at = "commit", !.was = settings[1]]
  OBVIOUS
<1>1. /\ req[q].at = "thresholds" /\ settings # <<>>
      /\ req' = [req EXCEPT ![q] = r]
      /\ UNCHANGED <<scans, reports, feedback, settings, files, lost, in_force, decided,
                     disputed, ops>>
  BY <1>0 DEF ReadSettings, tables, disk, Source
<1>2. Shape(req[q]) /\ req[q] \in RequestRow /\ req[q].items \subseteq DOMAIN scans
      /\ settings[1] \in Pair
  BY <1>1, TypeFacts DEF Shape, TypeInv, TypeOK
<1>3. /\ r.kind = "policy" /\ r.at = "commit" /\ r.items = req[q].items
      /\ r.want = req[q].want /\ r.was = settings[1]
  BY <1>0, <1>2 DEF RequestRow
<1>4. r \in RequestRow
  BY <1>0, <1>2 DEF RequestRow, Place
<1>5. r.kind \notin Source /\ r.kind \notin Decision
  BY <1>3 DEF Source, Decision
<1>6. Shape(r)
  BY <1>2, <1>3, <1>4, <1>5 DEF Shape
<1>7. Anchored(r)' /\ Fresh(r)'
  BY <1>1, <1>2, <1>3, <1>5, NotDeciding
<1>8. \A o \in Request : req'[o] = IF o = q THEN r ELSE req[o]
  BY <1>1, Parts, OneRequestMoves
<1>9. PolicyInv' /\ CapacityInv'
  <2>1. PolicyInv'
    BY <1>1, <1>3, <1>5, <1>8, TypeFacts, PolicyStep
  <2>2. CapacityInv'
    BY <1>1, <1>5, TypeFacts, CapacityStep
  <2> QED
    BY <2>1, <2>2
<1>10. contested' \in BOOLEAN
  BY TypeFacts DEF ReadSettings
<1> QED
  BY <1>1, <1>5, <1>6, <1>7, <1>9, <1>10, TypeFacts, Quiet

\* The place of a request changes and nothing else of it.
LEMMA MovedShape ==
  ASSUME NEW old \in RequestRow, NEW place \in Place
  PROVE  LET r == [old EXCEPT !.at = place] IN
         /\ r \in RequestRow /\ r.at = place /\ r.kind = old.kind
         /\ r.items = old.items /\ r.label = old.label /\ r.path = old.path
         /\ r.proba = old.proba /\ r.want = old.want /\ r.failed = old.failed
BY DEF RequestRow

LEMMA MissSettingsKeeps ==
  ASSUME DetectionsInv, NEW q \in Request, MissSettings(q)
  PROVE  DetectionsInv'
<1>0. PICK r : r = [req[q] EXCEPT !.at = "create"]
  OBVIOUS
<1>1. /\ req[q].at = "thresholds" /\ settings = <<>>
      /\ req' = [req EXCEPT ![q] = r]
      /\ UNCHANGED <<scans, reports, feedback, settings, files, lost, in_force, decided,
                     disputed, contested, ops>>
  BY <1>0 DEF MissSettings, Goes, tables, disk, history
<1>2. Shape(req[q]) /\ req[q] \in RequestRow /\ req[q].items \subseteq DOMAIN scans
  BY TypeFacts DEF Shape
<1>3. /\ r \in RequestRow /\ r.at = "create" /\ r.kind = req[q].kind
      /\ r.items = req[q].items /\ r.path = req[q].path /\ r.want = req[q].want
      /\ r.proba = req[q].proba /\ r.failed = req[q].failed
  BY <1>0, <1>2, MovedShape DEF Place
<1>4. r.kind \in Source \cup {"policy"} /\ r.kind \notin Decision
  BY <1>1, <1>2, <1>3 DEF Shape, RequestRow, Kind, Source, Decision
<1>5. Shape(r)
  BY <1>1, <1>2, <1>3, <1>4 DEF Shape, Source
<1>6. Anchored(r)' /\ Fresh(r)'
  BY <1>1, <1>2, <1>3, <1>4, NotDeciding
<1>7. \A o \in Request : req'[o] = IF o = q THEN r ELSE req[o]
  BY <1>1, Parts, OneRequestMoves
<1>8. PolicyInv'
  <2>1. InForce(settings) = Default
    BY <1>1 DEF InForce
  <2>2. r.kind \in Source => InForce(settings) \in in_force[q]
    BY <1>3, TypeFacts DEF PolicyInv
  <2> QED
    BY <1>1, <1>3, <1>7, <2>1, <2>2, TypeFacts, PolicyStep
<1>9. CapacityInv'
  BY <1>1, <1>3, TypeFacts, CapacityStep
<1> QED
  BY <1>1, <1>4, <1>5, <1>6, <1>8, <1>9, TypeFacts, Quiet

\* The first request to miss the settings row inserts it.
LEMMA CreateSettingsKeeps ==
  ASSUME DetectionsInv, NEW q \in Request, CreateSettings(q)
  PROVE  DetectionsInv'
<1>0. PICK r : r = [req[q] EXCEPT !.at = "thresholds"]
  OBVIOUS
<1>1. /\ req[q].at = "create" /\ settings = <<>> /\ settings' = <<Default>>
      /\ req' = [req EXCEPT ![q] = r]
      /\ UNCHANGED <<scans, reports, feedback, files, lost, in_force, decided,
                     disputed, contested, ops>>
  BY <1>0 DEF CreateSettings, Goes, disk, history
<1>2. Shape(req[q]) /\ req[q] \in RequestRow /\ req[q].items \subseteq DOMAIN scans
  BY TypeFacts DEF Shape
<1>3. /\ r \in RequestRow /\ r.at = "thresholds" /\ r.kind = req[q].kind
      /\ r.items = req[q].items /\ r.path = req[q].path /\ r.want = req[q].want
      /\ r.proba = req[q].proba /\ r.failed = req[q].failed
  BY ZenonT(40), <1>0, <1>2, MovedShape DEF Place
<1>4. r.kind \in Source \cup {"policy"} /\ r.kind \notin Decision
  BY <1>1, <1>2, <1>3 DEF Shape, RequestRow, Kind, Source, Decision
<1>5. Shape(r)
  BY <1>1, <1>2, <1>3, <1>4 DEF Shape, Source
<1>6. Anchored(r)' /\ Fresh(r)'
  BY <1>1, <1>2, <1>3, <1>4, NotDeciding
<1>7. \A o \in Request : req'[o] = IF o = q THEN r ELSE req[o]
  BY <1>1, Parts, OneRequestMoves
<1>8. PolicyInv'
  <2>1. InForce(settings') = InForce(settings) /\ settings' # <<>>
    BY <1>1 DEF InForce
  <2>2. \A o \in Request : /\ req'[o].kind = req[o].kind /\ req'[o].label = req[o].label
                           /\ req'[o].failed = req[o].failed
                           /\ req'[o].proba = req[o].proba
                           /\ req'[o].at = req[o].at \/ req'[o].at = "thresholds"
    <3>1. r.label = req[q].label /\ r.proba = req[q].proba
      BY <1>0, <1>2, MovedShape DEF Place
    <3> QED
      BY <1>3, <1>7, <3>1
  <2>3. PolicyInv
    BY TypeFacts
  <2> QED
    BY <1>1, <2>1, <2>2, <2>3 DEF PolicyInv, VerdictOf
<1>9. CapacityInv'
  BY <1>1, <1>3, TypeFacts, CapacityStep
<1>10. settings' = settings \/ \E policy \in Pair : settings' = <<policy>>
  BY <1>1, DetectionsAssumption
<1> QED
  BY <1>1, <1>4, <1>5, <1>6, <1>8, <1>9, <1>10, TypeFacts, Quiet

\* What a request that ends leaves to the others.
LEMMA EndedKeeps ==
  ASSUME DetectionsInv, NEW q \in Request, Ends(q),
         UNCHANGED <<scans, reports, feedback, settings, files, lost, decided, disputed,
                     contested, ops>>
  PROVE  DetectionsInv'
<1>1. /\ req' = [req EXCEPT ![q] = NoReq] /\ in_force' \in [Request -> SUBSET Pair]
      /\ \A o \in Request \ {q} : in_force'[o] = in_force[o]
  BY TypeFacts, EndsEffect
<1>2. \A o \in Request : req'[o] = IF o = q THEN NoReq ELSE req[o]
  BY <1>1, Parts DEF TypeInv
<1>3. Shape(NoReq) /\ NoReq.kind \notin Decision \cup Source \cup {"policy"}
      /\ NoReq.items = {} /\ NoReq.kind # "upload"
  BY NoReqShape DEF Source, Decision
<1>4. Anchored(NoReq)' /\ Fresh(NoReq)'
  BY <1>3, NotDeciding
<1>5. PolicyInv'
  BY <1>1, <1>2, <1>3, TypeFacts, PolicyStep
<1>6. CapacityInv'
  BY <1>1, <1>3, TypeFacts, CapacityStep
<1> QED
  BY <1>1, <1>3, <1>4, <1>5, <1>6, TypeFacts, Quiet

LEMMA DieKeeps ==
  ASSUME DetectionsInv, NEW q \in Request, Die(q)
  PROVE  DetectionsInv'
BY EndedKeeps DEF Die, tables, disk

\* A read of the settings fails: the request ends, or goes on with the shipped pair.

LEMMA FailsOrEnds ==
  ASSUME NEW q \in Request, ReadFails(q)
  PROVE  /\ req[q].at \in {"thresholds", "create"}
         /\ UNCHANGED <<scans, reports, feedback, settings, files, lost, decided,
                        disputed, contested, ops>>
         /\ \/ Ends(q)
            \/ /\ req[q].kind \in Source /\ in_force' = in_force
               /\ \E broken \in BOOLEAN :
                      req' = [req EXCEPT ![q] = FellBack(req[q], broken)]
BY DEF ReadFails, tables, disk

LEMMA FellBackType ==
  ASSUME NEW old \in RequestRow, old.kind \in Source, NEW broken \in BOOLEAN,
         NEW r, r = FellBack(old, broken)
  PROVE  /\ r \in RequestRow /\ r.kind = old.kind /\ r.items = old.items
         /\ r.path = old.path /\ r.proba = old.proba
         /\ r.failed = TRUE /\ r.broken = broken
         /\ r.label = Decide(r.proba, Default) /\ r.label \in Label
         /\ r.at = IF ~broken /\ r.kind = "upload" THEN "file" ELSE "insert"
<1>1. Decide(old.proba, Default) \in Label
  BY DecideType
<1>2. "insert" \in Place /\ AfterClassify(old.kind) \in Place
  BY DEF Place, AfterClassify
<1>3. r \in RequestRow
  BY <1>1, <1>2 DEF FellBack, RequestRow
<1>4. /\ r.kind = old.kind /\ r.items = old.items /\ r.path = old.path
      /\ r.proba = old.proba /\ r.failed = TRUE /\ r.broken = broken
      /\ r.label = Decide(old.proba, Default)
      /\ r.at = IF broken THEN "insert" ELSE AfterClassify(old.kind)
  BY DEF FellBack, RequestRow
<1> QED
  BY <1>1, <1>3, <1>4 DEF AfterClassify

LEMMA ReadFailsKeeps ==
  ASSUME DetectionsInv, NEW q \in Request, ReadFails(q)
  PROVE  DetectionsInv'
<1>0. /\ req[q].at \in {"thresholds", "create"}
      /\ UNCHANGED <<scans, reports, feedback, settings, files, lost, decided,
                     disputed, contested, ops>>
  BY FailsOrEnds
<1>1. CASE Ends(q)
  BY <1>0, <1>1, EndedKeeps
<1>2. ASSUME NEW broken \in BOOLEAN, req[q].kind \in Source, in_force' = in_force,
             req' = [req EXCEPT ![q] = FellBack(req[q], broken)]
      PROVE  DetectionsInv'
  <2>r. PICK r : r = FellBack(req[q], broken)
    OBVIOUS
  <2>1. req' = [req EXCEPT ![q] = r]
    BY <1>2, <2>r
  <2>2. Shape(req[q]) /\ req[q] \in RequestRow /\ req[q].items \subseteq DOMAIN scans
    BY TypeFacts DEF Shape
  <2>3. /\ r \in RequestRow /\ r.kind = req[q].kind /\ r.items = req[q].items
        /\ r.path = req[q].path /\ r.proba = req[q].proba
        /\ r.failed = TRUE /\ r.broken = broken
        /\ r.label = Decide(r.proba, Default) /\ r.label \in Label
        /\ r.at = IF ~broken /\ r.kind = "upload" THEN "file" ELSE "insert"
    <3>1. req[q] \in RequestRow /\ req[q].kind \in Source
      BY <1>2, <2>2
    <3>2. /\ r.kind = req[q].kind /\ r.items = req[q].items
          /\ r.path = req[q].path /\ r.proba = req[q].proba
      BY <2>r, <3>1 DEF FellBack, RequestRow
    <3>3. r \in RequestRow
      BY <2>r, <3>1, FellBackType
    <3>4. r.failed = TRUE /\ r.broken = broken
      BY <2>r, <3>1, FellBackType
    <3>5. r.label = Decide(r.proba, Default) /\ r.label \in Label
      BY <2>r, <3>1, <3>2, DecideType DEF FellBack, RequestRow
    <3>6. r.at = IF ~broken /\ r.kind = "upload" THEN "file" ELSE "insert"
      BY <2>r, <3>1, <3>2 DEF FellBack, AfterClassify, RequestRow
    <3> QED
      BY <3>2, <3>3, <3>4, <3>5, <3>6
  <2>4. r.kind \in Source /\ r.kind \notin {"none", "policy", "purge"} \cup Decision
    BY <1>2, <2>3 DEF Source, Decision
  <2>5. Shape(r)
    BY <2>2, <2>3, <2>4 DEF Shape
  <2>6. Anchored(r)' /\ Fresh(r)'
    BY <1>0, <2>2, <2>3, <2>4, NotDeciding
  <2>7. \A o \in Request : req'[o] = IF o = q THEN r ELSE req[o]
    BY <2>1, Parts, OneRequestMoves
  <2>8. PolicyInv'
    <3>1. PolicyInv /\ InForce(settings) \in in_force[q]
      BY <1>2, TypeFacts DEF PolicyInv
    <3>2. VerdictOf(r, in_force'[q]) /\ r.at # "create"
      BY <2>3 DEF VerdictOf
    <3> QED
      BY <1>0, <1>2, <2>4, <2>7, <3>1, <3>2, PolicyStep
  <2>9. CapacityInv'
    BY <1>0, <1>2, <2>1, TypeFacts, CapacityStep
  <2> QED
    BY <1>0, <1>2, <2>1, <2>4, <2>5, <2>6, <2>8, <2>9, TypeFacts, Quiet
<1> QED
  BY <1>1, <1>2, FailsOrEnds

\* The web container is replaced: of the requests only passes and tasks remain,
\* and none of them has a file.
LEMMA ReplaceWebKeeps ==
  ASSUME DetectionsInv, ReplaceWeb
  PROVE  DetectionsInv'
<1>1. /\ files' = {} /\ lost' = lost \cup {i \in 1..MaxScans : reports[i].status # "none"}
      /\ UNCHANGED <<scans, reports, feedback, settings, decided, disputed, contested, ops>>
  BY DEF ReplaceWeb
<1>2. ASSUME NEW q \in Request
      PROVE  \/ /\ req[q].kind \in {"gmail", "purge"}
                /\ req'[q] = req[q] /\ in_force'[q] = in_force[q]
             \/ req'[q] = NoReq /\ in_force'[q] = {}
  BY DEF ReplaceWeb
<1>3. NoReq.kind \notin Decision \cup Source \cup {"policy", "upload"}
  BY NoReqShape DEF Source, Decision
<1>4. \A q \in Request : req'[q].kind \notin Decision \cup {"policy", "upload"}
                          /\ Shape(req'[q]) /\ req'[q] \in RequestRow
                          /\ req'[q].items \subseteq DOMAIN scans
  BY <1>2, <1>3, NoReqShape, TypeFacts DEF Decision, Shape
<1>5. TypeInv'
  <2>1. req' \in [Request -> RequestRow] /\ in_force' \in [Request -> SUBSET Pair]
    BY <1>2, <1>4, TypeFacts DEF ReplaceWeb
  <2>2. \A q \in Request : req'[q].at \in Place /\ req'[q].items \subseteq 1..Len(scans)
    BY <1>4, Parts, RowsType DEF RequestRow, TypeInv
  <2> QED
    BY <1>1, <2>1, <2>2, Parts DEF TypeInv, TypeOK
<1>6. RequestsInv'
  BY <1>1, <1>4 DEF RequestsInv, OneDecider, Anchored, Fresh, Decision
<1>7. TablesInv'
  <2>1. RowsInv' /\ UnusedInv' /\ LastDecisionStands'
    BY <1>1, Parts DEF TablesInv, RowsInv, UnusedInv, LastDecisionStands, ModelKnown,
       Verdicts
  <2>2. FilesInv'
    BY <1>1 DEF FilesInv
  <2> QED
    BY <2>1, <2>2 DEF TablesInv
<1>8. PolicyInv'
  BY <1>1, <1>2, <1>3, <1>4, Parts DEF PolicyInv
<1>9. CapacityInv'
  <2>1. Classifying' \subseteq Classifying
    BY <1>2, <1>3 DEF Classifying
  <2>2. IsFiniteSet(Classifying') /\ Cardinality(Classifying') <= Cardinality(Classifying)
        /\ Cardinality(Classifying') \in Nat /\ Cardinality(Classifying) \in Nat
    BY <2>1, FS_Subset, FS_CardinalityType, Parts DEF CapacityInv
  <2>3. Len(scans) \in Nat /\ Len(scans) + Cardinality(Classifying) <= MaxScans
    BY Parts, RowsType DEF TypeInv, CapacityInv
  <2> QED
    BY <1>1, <2>2, <2>3, DetectionsAssumption DEF CapacityInv
<1> QED
  BY <1>5, <1>6, <1>7, <1>8, <1>9 DEF DetectionsInv

\* A policy is committed: every classification under way may meet it.
LEMMA CommitPolicyKeeps ==
  ASSUME DetectionsInv, NEW q \in Request, CommitPolicy(q)
  PROVE  DetectionsInv'
<1>0. PICK policy : policy = Updated(settings[1], req[q].was, req[q].want)
  OBVIOUS
<1>1. /\ req[q].at = "commit" /\ req[q].kind = "policy"
      /\ settings' = <<policy>> /\ settings'[1] = policy
      /\ req' = [req EXCEPT ![q] = NoReq]
      /\ in_force' = [o \in Request |->
             IF req[o].kind \in Source THEN in_force[o] \cup {policy} ELSE {}]
      /\ UNCHANGED <<scans, reports, feedback, files, lost, decided, disputed, contested, ops>>
  BY <1>0 DEF CommitPolicy, disk
<1>2. settings # <<>> /\ settings[1] \in Pair /\ req[q].was \in Pair /\ req[q].want \in Pair
  <2>1. settings # <<>>
    BY <1>1, TypeFacts DEF PolicyInv
  <2>2. Shape(req[q])
    BY TypeFacts
  <2>3. settings[1] \in Pair
    BY <2>1, TypeFacts DEF TypeInv, TypeOK
  <2> QED
    BY <2>1, <2>2, <2>3 DEF Shape, RequestRow
<1>3. policy \in Pair
  BY <1>0, <1>2, UpdatedPair
<1>4. \A o \in Request : req'[o] = IF o = q THEN NoReq ELSE req[o]
  BY ZenonT(40), <1>1, Parts, OneRequestMoves
<1>5. Shape(NoReq) /\ NoReq.kind \notin Decision \cup Source \cup {"policy"}
      /\ NoReq.items = {} /\ NoReq.kind # "upload"
  BY NoReqShape DEF Source, Decision
<1>6. Anchored(NoReq)' /\ Fresh(NoReq)'
  BY <1>5, NotDeciding
<1>7. InForce(settings') = policy /\ settings' # <<>>
  BY <1>1 DEF InForce
<1>8. PolicyInv'
  <2> SUFFICES ASSUME NEW o \in Request, req'[o].kind \in Source
               PROVE  /\ InForce(settings') \in in_force'[o]
                      /\ req'[o].at = "create" => Default \in in_force'[o]
                      /\ req'[o].at \in {"file", "insert"} =>
                             VerdictOf(req'[o], in_force'[o])
    BY <1>7 DEF PolicyInv
  <2>1. o # q /\ req'[o] = req[o] /\ in_force'[o] = in_force[o] \cup {policy}
    BY <1>1, <1>4, <1>5
  <2>2. /\ req[o].at = "create" => Default \in in_force[o]
        /\ req[o].at \in {"file", "insert"} =>
               VerdictOf(req[o], in_force[o])
    BY <2>1, TypeFacts DEF PolicyInv
  <2> QED
    BY <1>7, <2>1, <2>2 DEF VerdictOf
<1>9. CapacityInv'
  BY <1>1, <1>5, TypeFacts, CapacityStep
<1>10. in_force' \in [Request -> SUBSET Pair]
  BY <1>1, <1>3, TypeFacts
<1> QED
  BY <1>1, <1>3, <1>5, <1>6, <1>8, <1>9, <1>10, TypeFacts, Quiet

\* An upload writes its file before it commits.
LEMMA StoreFileKeeps ==
  ASSUME DetectionsInv, NEW q \in Request, StoreFile(q)
  PROVE  DetectionsInv'
<1>0. PICK r : r = [req[q] EXCEPT !.at = "insert"]
  OBVIOUS
<1>1. /\ req[q].at = "file" /\ req' = [req EXCEPT ![q] = r]
      /\ files' = files \cup {req[q].path}
      /\ UNCHANGED <<scans, reports, feedback, settings, lost, in_force, decided,
                     disputed, contested, ops>>
  BY <1>0 DEF StoreFile, Goes, history
<1>2. Shape(req[q]) /\ req[q] \in RequestRow /\ req[q].items \subseteq DOMAIN scans
  BY TypeFacts DEF Shape
<1>3. /\ r \in RequestRow /\ r.at = "insert" /\ r.kind = req[q].kind
      /\ r.items = req[q].items /\ r.path = req[q].path /\ r.label = req[q].label
      /\ r.proba = req[q].proba /\ r.failed = req[q].failed
  BY <1>0, <1>2, MovedShape DEF Place
<1>4. /\ r.kind = "upload" /\ r.label \in Label /\ r.path # 0 /\ r.path \in 0..MaxOps
      /\ r.kind \in Source /\ r.proba \in Proba
  BY <1>1, <1>2, <1>3 DEF Shape, RequestRow, Source
<1>5. Shape(r) /\ r.kind \notin Decision
  BY <1>3, <1>4 DEF Shape, Source, Decision
<1>6. Anchored(r)' /\ Fresh(r)'
  BY <1>1, <1>2, <1>3, <1>5, NotDeciding
<1>7. \A o \in Request : req'[o] = IF o = q THEN r ELSE req[o]
  BY <1>1, Parts, OneRequestMoves
<1>8. PolicyInv'
  <2>1. PolicyInv /\ r.at # "create" /\ r.kind # "policy"
    BY <1>3, <1>4, TypeFacts
  <2>2. /\ InForce(settings) \in in_force[q]
        /\ VerdictOf(r, in_force[q])
    BY <1>1, <1>3, <1>4, <2>1 DEF PolicyInv, VerdictOf
  <2> QED
    BY <1>1, <1>7, <2>1, <2>2, PolicyStep
<1>9. CapacityInv'
  BY <1>1, <1>3, TypeFacts, CapacityStep
<1>10. files \subseteq files' /\ files' \subseteq 1..MaxOps
  BY <1>1, <1>3, <1>4, TypeFacts, DetectionsAssumption
<1> QED
  BY <1>1, <1>5, <1>6, <1>8, <1>9, <1>10, TypeFacts, Quiet

\* A decision loads its row: what Anchored and Fresh ask of it.
LEMMA LoadedRow ==
  ASSUME DetectionsInv, NEW i \in DOMAIN scans
  PROVE  /\ scans[i] \in ScanRow /\ i \in 1..MaxScans /\ i \in Nat
         /\ ModelKnown(i, scans[i].classification)
         /\ scans[i].risk = risk_for(scans[i].classification)
         /\ reports[i] \in Report
  BY Parts, RowsType, DetectionsAssumption DEF TablesInv, RowsInv, TypeInv, TypeOK

\* The request that begins a decision, and what it disputes.
LEMMA BeginDecision ==
  ASSUME DetectionsInv, NEW q \in Request, NEW i \in DOMAIN scans, NEW r,
         Begin(q, r), Disputes(q, i), r.items = {i}, r.kind \in Decision, Shape(r),
         Anchored(r)', Fresh(r)', UNCHANGED <<tables, in_force, decided, contested>>
  PROVE  DetectionsInv'
<1>1. UNCHANGED <<scans, reports, feedback, settings, files, lost, in_force, decided, contested>>
  BY DEF tables, disk
<1>2. req' = [req EXCEPT ![q] = r] /\ ops' \in 0..MaxOps
  BY Parts, BeginEffect
<1>3. \A o \in Request : req'[o] = IF o = q THEN r ELSE req[o]
  BY <1>2, Parts, OneRequestMoves
<1>4. /\ disputed \subseteq disputed' /\ disputed' \subseteq 1..MaxScans
      /\ \A j \in r.items : Overlap(q, j) => j \in disputed'
  BY LoadedRow, TypeFacts DEF Disputes
<1>5. r.kind \notin Source /\ r.kind # "policy"
  BY DEF Source, Decision
<1>6. PolicyInv'
  BY <1>1, <1>3, <1>5, Parts, PolicyStep
<1>7. CapacityInv'
  BY <1>1, <1>2, <1>5, Parts, CapacityStep
<1> QED
  BY <1>1, <1>2, <1>4, <1>6, <1>7, TypeFacts, Quiet

LEMMA OpenScanKeeps ==
  ASSUME DetectionsInv, NEW q \in Request, NEW i \in DOMAIN scans,
         NEW kind \in {"feedback", "release", "confirm"}, NEW answer \in Answers(kind),
         OpenScan(q, i, kind, answer)
  PROVE  DetectionsInv'
<1> PICK row : row = scans[i]
  OBVIOUS
<1>0. PICK r : r = [NoReq EXCEPT !.kind = kind, !.at = "commit", !.items = {i},
                                 !.answer = answer, !.seen = row]
  OBVIOUS
<1>1. Begin(q, r) /\ Disputes(q, i) /\ UNCHANGED <<tables, in_force, decided, contested>>
  BY <1>0 DEF OpenScan
<1>2. scans' = scans /\ feedback' = feedback
  BY <1>1 DEF tables, disk
<1>3. row \in ScanRow /\ i \in Nat /\ answer \in Answer
  BY LoadedRow DEF Answers, Answer
<1>4. /\ r.kind = kind /\ r.at = "commit" /\ r.items = {i} /\ r.answer = answer
      /\ r.seen = row
  BY <1>0 DEF NoReq
<1>5. r \in RequestRow
  BY <1>0, <1>3, NoReqShape DEF NoReq, RequestRow, Kind, Decision, Place
<1>6. r.kind \in Decision /\ r.kind \notin Source \cup {"none", "policy", "purge", "review"}
  BY <1>4 DEF Decision, Source
<1>7. Shape(r)
  BY <1>3, <1>4, <1>5, <1>6 DEF Shape, Source
<1>8. Anchored(r)'
  <2>1. ModelKnown(i, row.classification) /\ row.risk = risk_for(row.classification)
    BY LoadedRow
  <2>2. ModelKnown(i, row.classification)'
    BY <1>2, <2>1 DEF ModelKnown, Verdicts
  <2> QED
    BY <1>2, <1>4, <1>6, <2>1, <2>2 DEF Anchored, Source
<1>9. Fresh(r)'
  BY <1>2, <1>4, <1>6 DEF Fresh, SameVerdict
<1> QED
  BY <1>1, <1>4, <1>6, <1>7, <1>8, <1>9, BeginDecision

LEMMA OpenReportKeeps ==
  ASSUME DetectionsInv, NEW q \in Request, NEW i \in DOMAIN scans, NEW answer \in Answer,
         OpenReport(q, i, answer)
  PROVE  DetectionsInv'
<1> PICK report : report = reports[i]
  OBVIOUS
<1>0. PICK r : r = [NoReq EXCEPT !.kind = "review", !.at = "open", !.items = {i},
                                 !.answer = answer, !.report = report]
  OBVIOUS
<1>1. /\ Begin(q, r) /\ Disputes(q, i) /\ UNCHANGED <<tables, in_force, decided, contested>>
      /\ report.status # "none"
  BY <1>0 DEF OpenReport
<1>2. scans' = scans /\ reports' = reports
  BY <1>1 DEF tables, disk
<1>3. report \in Report /\ i \in Nat
  BY LoadedRow
<1>4. /\ r.kind = "review" /\ r.at = "open" /\ r.items = {i} /\ r.answer = answer
      /\ r.report = report
  BY <1>0 DEF NoReq
<1>5. r \in RequestRow
  BY <1>0, <1>3, NoReqShape DEF NoReq, RequestRow, Kind, Decision, Place
<1>6. r.kind \in Decision /\ r.kind \notin Source
  BY <1>4 DEF Decision, Source
<1>7. Shape(r)
  BY <1>3, <1>4, <1>5, <1>6 DEF Shape, Source, Answers
<1>8. Anchored(r)'
  BY <1>1, <1>2, <1>4, <1>6 DEF Anchored
<1>9. Fresh(r)'
  BY <1>2, <1>4, <1>6 DEF Fresh
<1> QED
  BY <1>1, <1>4, <1>6, <1>7, <1>8, <1>9, BeginDecision

\* A review loads the scan its report points to.
LEMMA OpenReportedKeeps ==
  ASSUME DetectionsInv, NEW q \in Request, OpenReported(q)
  PROVE  DetectionsInv'
<1>1. /\ req[q].at = "open"
      /\ UNCHANGED <<scans, reports, feedback, settings, files, lost, in_force, decided,
                     disputed, contested, ops>>
  BY DEF OpenReported, tables, disk, history
<1>2. Shape(req[q]) /\ req[q] \in RequestRow /\ Anchored(req[q]) /\ Fresh(req[q])
  BY Parts DEF RequestsInv, Shape
<1>3. req[q].kind = "review"
  BY <1>1, <1>2 DEF Shape, RequestRow, Kind, Source, Decision
<1>4. PICK i \in req[q].items :
          req' = [req EXCEPT ![q].at = "commit", ![q].seen = scans[i]]
  BY DEF OpenReported
<1>5. req[q].items = {i} /\ i \in DOMAIN scans
  BY <1>2, <1>3, <1>4 DEF Shape, Anchored, Decision
<1> PICK row : row = scans[i]
  OBVIOUS
<1>6. row \in ScanRow /\ ModelKnown(i, row.classification)
      /\ row.risk = risk_for(row.classification)
  BY <1>5, LoadedRow
<1>0. PICK r : r = [req[q] EXCEPT !.at = "commit", !.seen = row]
  OBVIOUS
<1>7. req' = [req EXCEPT ![q] = r]
  BY <1>0, <1>4, Parts DEF TypeInv
<1>8. /\ r.kind = "review" /\ r.at = "commit" /\ r.items = {i} /\ r.seen = row
      /\ r.answer = req[q].answer /\ r.report = req[q].report
  BY <1>0, <1>2, <1>3, <1>5 DEF RequestRow
<1>9. r \in RequestRow
  BY <1>0, <1>2, <1>6 DEF RequestRow, Place
<1>10. r.kind \in Decision /\ r.kind \notin Source
  BY <1>8 DEF Decision, Source
<1>11. Shape(r)
  <2>1. r.answer \in Answers(r.kind) /\ \E j \in Nat : r.items = {j}
    BY <1>2, <1>3, <1>5, <1>8 DEF Shape, Decision
  <2> QED
    BY <1>6, <1>8, <1>9, <1>10, <2>1 DEF Shape, Source
<1>12. Anchored(r)'
  <2>1. ModelKnown(i, row.classification)'
    BY <1>1, <1>6 DEF ModelKnown, Verdicts
  <2>2. reports[i].status # "none"
    BY <1>2, <1>3, <1>5 DEF Anchored
  <2> QED
    BY <1>1, <1>5, <1>6, <1>8, <1>10, <2>1, <2>2 DEF Anchored
<1>13. Fresh(r)'
  BY <1>1, <1>2, <1>3, <1>5, <1>8, <1>10 DEF Fresh, SameVerdict
<1>14. \A j \in r.items : Overlap(q, j) => j \in disputed'
  BY <1>1, <1>3, <1>5, <1>8, Parts DEF RequestsInv, OneDecider, Overlap, Decision
<1>15. \A o \in Request : req'[o] = IF o = q THEN r ELSE req[o]
  BY <1>7, Parts, OneRequestMoves
<1>16. PolicyInv'
  BY <1>1, <1>8, <1>10, <1>15, Parts, PolicyStep
<1>17. CapacityInv'
  BY <1>1, <1>7, <1>10, Parts, CapacityStep
<1> QED
  BY <1>1, <1>7, <1>11, <1>12, <1>13, <1>14, <1>16, <1>17, TypeFacts, Quiet

LEMMA OpenPurgeKeeps ==
  ASSUME DetectionsInv, NEW q \in Request, NEW k \in DOMAIN scans, OpenPurge(q, k)
  PROVE  DetectionsInv'
<1> PICK old : old = {i \in 1..k : ~scans[i].body_purged}
  OBVIOUS
<1>0. PICK r : r = [NoReq EXCEPT !.kind = "purge", !.at = "commit", !.items = old]
  OBVIOUS
<1>1. Begin(q, r)
      /\ UNCHANGED <<scans, reports, feedback, settings, files, lost, in_force, decided,
                     disputed, contested>>
  BY <1>0 DEF OpenPurge, tables, disk, history
<1>2. req' = [req EXCEPT ![q] = r] /\ ops' \in 0..MaxOps
  BY <1>1, Parts, BeginEffect
<1>3. old \subseteq DOMAIN scans /\ old \subseteq Nat
  BY Parts, RowsType DEF TypeInv
<1>4. r.kind = "purge" /\ r.at = "commit" /\ r.items = old
  BY <1>0 DEF NoReq
<1>5. r \in RequestRow
  BY <1>0, <1>3, NoReqShape DEF NoReq, RequestRow, Kind, Place
<1>6. r.kind \notin Source /\ r.kind \notin Decision
  BY <1>4 DEF Source, Decision
<1>7. Shape(r)
  BY <1>4, <1>5, <1>6 DEF Shape
<1>8. Anchored(r)' /\ Fresh(r)'
  BY <1>1, <1>3, <1>4, <1>6, NotDeciding
<1>9. \A o \in Request : req'[o] = IF o = q THEN r ELSE req[o]
  BY <1>2, Parts, OneRequestMoves
<1>10. PolicyInv'
  BY <1>1, <1>4, <1>6, <1>9, Parts, PolicyStep
<1>11. CapacityInv'
  BY <1>1, <1>2, <1>6, Parts, CapacityStep
<1> QED
  BY <1>1, <1>2, <1>6, <1>7, <1>8, <1>10, <1>11, TypeFacts, Quiet

-----------------------------------------------------------------------------
\* The commits that write rows.

LEMMA CommitStep ==
  ASSUME DetectionsInv, NEW q \in Request, Ends(q),
         UNCHANGED <<settings, files, lost, disputed, contested, ops>>,
         scans' \in Seq(ScanRow), Len(scans') <= MaxScans, Len(scans) <= Len(scans'),
         reports' \in [1..MaxScans -> Report],
         feedback' \subseteq [scan : 1..Len(scans'), original : Label, corrected : Answer],
         decided' \in [1..MaxScans -> [kind : Decision \cup {"none"},
                                       answer : Answer \cup {"none"}]],
         \A o \in Request \ {q} : Anchored(req[o])' /\ Fresh(req[o])',
         TablesInv', CapacityInv'
  PROVE  DetectionsInv'
<1>1. /\ req' = [req EXCEPT ![q] = NoReq] /\ req' \in [Request -> RequestRow]
      /\ in_force' \in [Request -> SUBSET Pair]
      /\ \A o \in Request \ {q} : in_force'[o] = in_force[o]
  BY Parts, EndsEffect
<1>2. \A o \in Request : req'[o] = IF o = q THEN NoReq ELSE req[o]
  BY <1>1, Parts DEF TypeInv
<1>3. Shape(NoReq) /\ NoReq.kind \notin Decision \cup Source \cup {"policy"}
      /\ NoReq.items = {} /\ NoReq.kind # "upload"
  BY NoReqShape DEF Source, Decision
<1>4. Anchored(NoReq)' /\ Fresh(NoReq)'
  BY <1>3, NotDeciding
<1>5. TypeInv'
  <2>1. Len(scans) \in Nat /\ Len(scans') \in Nat
    BY LenProperties DEF DetectionsInv, TypeInv, TypeOK
  <2>2. 1..Len(scans) \subseteq 1..Len(scans')
    BY <2>1
  <2>3. \A o \in Request : req'[o].at \in Place /\ req'[o].items \subseteq 1..Len(scans')
    BY <1>2, <2>2, NoReqShape DEF DetectionsInv, TypeInv, TypeOK, RequestRow
  <2> QED
    BY <1>1, <2>3, Parts DEF TypeInv, TypeOK
<1>6. ASSUME NEW o \in Request
      PROVE  Shape(req'[o]) /\ Anchored(req[o])' /\ Fresh(req[o])'
  <2>1. CASE o = q
    <3>1. req'[o] = NoReq
      BY <1>2, <2>1
    <3> QED
      BY <1>3, <1>4, <3>1 DEF Anchored, Fresh
  <2>2. CASE o # q
    BY <1>2, <2>2, TypeFacts
  <2> QED
    BY <2>1, <2>2
<1>7. OneDecider'
  <2> SUFFICES ASSUME NEW o \in Request, NEW p \in Request, NEW i \in DOMAIN scans',
                      i \notin disputed',
                      req'[o].kind \in Decision, i \in req'[o].items,
                      req'[p].kind \in Decision, i \in req'[p].items
               PROVE  o = p
    BY DEF OneDecider
  <2>1. o # q /\ p # q
    BY <1>2, <1>3
  <2>2. req'[o] = req[o] /\ req'[p] = req[p]
    BY <1>2, <2>1
  <2>3. i \in DOMAIN scans
    BY <2>2, TypeFacts
  <2> QED
    BY <2>2, <2>3, Parts DEF RequestsInv, OneDecider
<1>8. PolicyInv'
  BY <1>1, <1>2, <1>3, Parts, PolicyStep
<1> QED
  BY <1>5, <1>6, <1>7, <1>8 DEF DetectionsInv, RequestsInv

\* The retention job removes bodies and changes no verdict.
LEMMA CommitPurgeKeeps ==
  ASSUME DetectionsInv, NEW q \in Request, CommitPurge(q)
  PROVE  DetectionsInv'
<1>1. /\ scans' = [i \in DOMAIN scans |->
             IF i \notin req[q].items THEN scans[i]
             ELSE [scans[i] EXCEPT !.body = FALSE, !.body_purged = TRUE]]
      /\ Ends(q)
      /\ UNCHANGED <<reports, feedback, settings, files, lost, decided, disputed, contested, ops>>
  BY DEF CommitPurge, disk
<1>2. Len(scans) \in Nat /\ DOMAIN scans = 1..Len(scans)
      /\ \A i \in DOMAIN scans : scans[i] \in ScanRow
  BY Parts, RowsType DEF TypeInv
<1>3. ASSUME NEW i \in DOMAIN scans
      PROVE  /\ scans'[i] \in ScanRow /\ SameVerdict(scans'[i], scans[i])
             /\ scans'[i].model = scans[i].model
             /\ (scans[i].body_purged => ~scans[i].body)
                    => (scans'[i].body_purged => ~scans'[i].body)
  <2>1. CASE i \notin req[q].items
    <3>1. scans'[i] = scans[i]
      BY <1>1, <2>1
    <3> QED
      BY <1>2, <3>1 DEF SameVerdict
  <2>2. CASE i \in req[q].items
    <3> PICK row : row = scans[i]
      OBVIOUS
    <3>1. scans'[i] = [row EXCEPT !.body = FALSE, !.body_purged = TRUE]
      BY <1>1, <2>2
    <3>2. row \in ScanRow
      BY <1>2
    <3>3. scans'[i] \in ScanRow
      BY <3>1, <3>2 DEF ScanRow
    <3>4. SameVerdict(scans'[i], row) /\ scans'[i].model = row.model
      BY <3>1, <3>2 DEF ScanRow, SameVerdict
    <3>5. ~scans'[i].body
      BY <3>1, <3>2 DEF ScanRow
    <3> QED
      BY <3>3, <3>4, <3>5
  <2> QED
    BY <2>1, <2>2
<1>4. DOMAIN scans' = 1..Len(scans) /\ scans' \in Seq(ScanRow) /\ Len(scans') = Len(scans)
  <2>1. scans' \in [1..Len(scans) -> ScanRow]
    BY <1>1, <1>2, <1>3
  <2> QED
    BY <1>2, <2>1, SeqDef, LenProperties
<1>5. \A i \in DOMAIN scans : Verdicts(i)' = Verdicts(i)
  BY <1>1 DEF Verdicts
<1>6. \A i \in DOMAIN scans, v \in Label : ModelKnown(i, v)' <=> ModelKnown(i, v)
  BY <1>3, <1>5 DEF ModelKnown
<1>0. DOMAIN scans' = DOMAIN scans
      /\ \A i \in DOMAIN scans :
             /\ scans'[i].classification = scans[i].classification
             /\ scans'[i].risk = scans[i].risk /\ scans'[i].status = scans[i].status
             /\ scans'[i].user_feedback = scans[i].user_feedback
             /\ scans'[i].model = scans[i].model
  BY <1>2, <1>3, <1>4 DEF SameVerdict
<1>7. RowsInv'
  <2> SUFFICES ASSUME NEW i \in DOMAIN scans
               PROVE  /\ scans'[i].risk = risk_for(scans'[i].classification)
                      /\ scans'[i].body_purged => ~scans'[i].body
                      /\ ModelKnown(i, scans[i].classification)'
                      /\ decided'[i].kind # "none" => scans'[i].model \in Verdicts(i)'
                      /\ Verdicts(i)' # {} => scans'[i].classification \in Answer
    BY <1>0 DEF RowsInv
  <2>1. /\ scans[i].risk = risk_for(scans[i].classification)
        /\ ModelKnown(i, scans[i].classification)
        /\ decided[i].kind # "none" => scans[i].model \in Verdicts(i)
        /\ Verdicts(i) # {} => scans[i].classification \in Answer
    BY Parts DEF TablesInv, RowsInv
  <2>2. scans[i].body_purged => ~scans[i].body
    BY Parts DEF TablesInv, RowsInv
  <2>3. scans'[i].body_purged => ~scans'[i].body
    BY <1>3, <2>2
  <2>4. scans'[i].risk = scans[i].risk /\ scans'[i].model = scans[i].model
        /\ scans'[i].classification = scans[i].classification
    BY <1>3 DEF SameVerdict
  <2>5. ModelKnown(i, scans[i].classification)'
    BY <1>5, <2>1, <2>4 DEF ModelKnown
  <2> QED
    BY <1>1, <1>5, <2>1, <2>3, <2>4, <2>5
<1>8. TablesInv'
  <2>1. UnusedInv' /\ FilesInv'
    BY <1>1, <1>2, <1>4, Parts DEF TablesInv, UnusedInv, FilesInv
  <2>2. LastDecisionStands'
    <3>1. LastDecisionStands
      BY Parts DEF TablesInv
    <3>2. reports' = reports /\ decided' = decided /\ disputed' = disputed
      BY <1>1
    <3> SUFFICES ASSUME NEW i \in DOMAIN scans \ disputed, decided[i].kind # "none"
                 PROVE  /\ scans'[i].classification = decided[i].answer
                        /\ scans'[i].user_feedback = decided[i].answer
                        /\ scans'[i].risk = risk_for(decided[i].answer)
                        /\ decided[i].kind = "release" => scans'[i].status = "Delivered"
                        /\ decided[i].kind = "review" =>
                               /\ reports[i].status = "reviewed"
                               /\ reports[i].verdict = decided[i].answer
      BY <1>0, <3>2 DEF LastDecisionStands
    <3> QED
      BY <1>0, <3>1 DEF LastDecisionStands
  <2> QED
    BY <1>7, <2>1, <2>2 DEF TablesInv
<1>9. ASSUME NEW o \in Request \ {q}
      PROVE  Anchored(req[o])' /\ Fresh(req[o])'
  <2>1. \A o1 \in Request : req'[o1] = IF o1 = q THEN NoReq ELSE req[o1]
    BY <1>1, Parts, EndsEffect DEF TypeInv
  <2>2. req'[o] = req[o] /\ Anchored(req[o]) /\ Fresh(req[o])
        /\ req[o].items \subseteq DOMAIN scans
    BY <2>1, Parts DEF RequestsInv, Anchored
  <2>3. Anchored(req[o])'
    <3>1. \A i \in req[o].items : ModelKnown(i, req[o].seen.classification)'
              <=> ModelKnown(i, req[o].seen.classification)
      BY <1>0, <1>5, <2>2 DEF ModelKnown
    <3> QED
      BY <1>0, <1>1, <2>2, <3>1 DEF Anchored
  <2>4. Fresh(req[o])'
    <3>1. reports' = reports /\ disputed' = disputed
      BY <1>1
    <3> SUFFICES ASSUME NEW i \in req[o].items \ disputed, req[o].kind \in Decision
                 PROVE  /\ req[o].at = "commit" => SameVerdict(scans'[i], req[o].seen)
                        /\ req[o].kind = "review" => reports[i] = req[o].report
      BY <2>2, <3>1 DEF Fresh
    <3> QED
      BY <1>0, <2>2 DEF Fresh, SameVerdict
  <2> QED
    BY <2>3, <2>4
<1>10. CapacityInv'
  BY <1>1, <1>4, NoReqShape, Parts, EndsEffect, CapacityStep DEF Source
<1>11. feedback' \subseteq [scan : 1..Len(scans'), original : Label, corrected : Answer]
       /\ reports' \in [1..MaxScans -> Report] /\ Len(scans') <= MaxScans
       /\ Len(scans) <= Len(scans')
       /\ decided' \in [1..MaxScans -> [kind : Decision \cup {"none"},
                                        answer : Answer \cup {"none"}]]
  <2>1. /\ feedback \subseteq [scan : 1..Len(scans), original : Label, corrected : Answer]
        /\ reports \in [1..MaxScans -> Report] /\ Len(scans) <= MaxScans
        /\ decided \in [1..MaxScans -> [kind : Decision \cup {"none"},
                                        answer : Answer \cup {"none"}]]
    BY Parts DEF TypeInv, TypeOK
  <2>2. Len(scans') = Len(scans) /\ Len(scans) <= Len(scans)
    BY <1>2, <1>4
  <2>3. feedback' = feedback /\ reports' = reports /\ decided' = decided
    BY <1>1
  <2>4. feedback' \subseteq [scan : 1..Len(scans'), original : Label, corrected : Answer]
    BY <2>1, <2>2, <2>3
  <2> QED
    BY <2>1, <2>2, <2>3, <2>4
<1> QED
  BY <1>1, <1>4, <1>8, <1>9, <1>10, <1>11, CommitStep

\* What the commit of a decision makes of its row, its report and the notes.
DecisionEffect(i, r) ==
    /\ i \in DOMAIN scans /\ i \in 1..MaxScans /\ r.items = {i}
    /\ r.kind \in Decision /\ r.answer \in Answer /\ r.seen \in ScanRow
    /\ DOMAIN scans' = DOMAIN scans
    /\ \A j \in DOMAIN scans : j # i => scans'[j] = scans[j]
    /\ scans'[i] \in ScanRow /\ scans'[i].model = scans[i].model
    /\ scans'[i].classification \in Answer
    /\ scans'[i].risk = risk_for(scans'[i].classification)
    /\ \A f : f \in feedback' <=> f \in feedback \/ f = Noted(r, i)
    /\ scans[i].model = r.seen.classification \/ scans[i].model \in Verdicts(i)
    /\ \A j \in 1..MaxScans : j # i => reports'[j] = reports[j] /\ decided'[j] = decided[j]
    /\ reports'[i].path = reports[i].path
    /\ reports[i].status # "none" <=> reports'[i].status # "none"
    /\ reports' \in [1..MaxScans -> Report]
    /\ decided'[i] = [kind |-> r.kind, answer |-> r.answer]

\* Of a scan nobody disputes, the commit leaves what it decided.
DecisionStands(i, r) ==
    i \notin disputed =>
        /\ scans'[i].classification = r.answer /\ scans'[i].user_feedback = r.answer
        /\ scans'[i].risk = risk_for(r.answer)
        /\ r.kind = "release" => scans'[i].status = "Delivered"
        /\ r.kind = "review" =>
               reports'[i].status = "reviewed" /\ reports'[i].verdict = r.answer

\* The body of the row, and that it was purged, are none of its business.
BodyKept(i) ==
    scans'[i].body = scans[i].body /\ scans'[i].body_purged = scans[i].body_purged

LEMMA DecisionRow ==
  ASSUME NEW row \in ScanRow, NEW seen \in ScanRow, NEW kind \in Decision,
         NEW answer \in Answer, NEW u \in ScanRow,
         u = Updated(row, seen, Judged(seen, kind, answer)),
         row.risk = risk_for(row.classification),
         seen.risk = risk_for(seen.classification),
         \/ row.classification = seen.classification
         \/ row.classification \in Answer
  PROVE  /\ u.model = row.model
         /\ u.classification \in Answer /\ u.risk = risk_for(u.classification)
         /\ SameVerdict(row, seen) =>
                /\ u.classification = answer /\ u.user_feedback = answer
                /\ u.risk = risk_for(answer)
                /\ kind = "release" => u.status = "Delivered"
<1>1. /\ u.model = row.model
      /\ u.classification = IF answer # seen.classification THEN answer
                            ELSE row.classification
      /\ u.user_feedback = IF answer # seen.user_feedback THEN answer
                           ELSE row.user_feedback
      /\ u.risk = IF risk_for(answer) # seen.risk THEN risk_for(answer) ELSE row.risk
      /\ u.status = IF kind = "release" /\ seen.status # "Delivered" THEN "Delivered"
                    ELSE row.status
  BY JudgedColumns
<1>2. answer \in Label /\ seen.classification \in Label /\ row.classification \in Label
  BY DEF ScanRow, Answer, Label
<1>3. risk_for(answer) = risk_for(seen.classification) <=> answer = seen.classification
  BY <1>2, RiskIsOne
<1>4. u.classification \in Answer
  BY <1>1
<1>5. u.risk = risk_for(u.classification)
  BY <1>1, <1>3
<1>6. SameVerdict(row, seen) =>
          /\ u.classification = answer /\ u.user_feedback = answer
          /\ u.risk = risk_for(answer)
          /\ kind = "release" => u.status = "Delivered"
  BY <1>1, <1>3 DEF SameVerdict
<1> QED
  BY <1>1, <1>4, <1>5, <1>6

LEMMA DecisionCommits ==
  ASSUME DetectionsInv, NEW q \in Request, CommitDecision(q)
  PROVE  \E i \in Nat : DecisionEffect(i, req[q]) /\ DecisionStands(i, req[q]) /\ BodyKept(i)
<1>r. PICK r, seen, report, answer, kind :
          /\ r = req[q] /\ seen = r.seen /\ report = r.report
          /\ answer = r.answer /\ kind = r.kind
  OBVIOUS
<1>1. r.at = "commit" /\ r.kind \in Decision
  BY <1>r DEF CommitDecision
<1>2. Shape(r) /\ r \in RequestRow
  BY <1>r, Parts DEF RequestsInv, Shape
<1>3. PICK i \in Nat : r.items = {i}
  BY <1>1, <1>2 DEF Shape
<1>4. seen \in ScanRow /\ report \in Report /\ answer \in Answer /\ kind \in Decision
  BY <1>r, <1>1, <1>2 DEF Shape, RequestRow, Answers, Answer
<1>5. /\ scans' = [scans EXCEPT ![i] = Updated(@, seen, Judged(seen, kind, answer))]
      /\ feedback' = feedback \cup {Noted(r, i)}
      /\ reports' = IF kind # "review" THEN reports
                    ELSE [reports EXCEPT ![i] = Reviewed(@, report, answer)]
      /\ decided' = [decided EXCEPT ![i] = [kind |-> kind, answer |-> answer]]
      /\ UNCHANGED <<settings, files, lost, disputed, contested, ops>>
  BY <1>r, <1>3 DEF CommitDecision, disk
<1>6. Anchored(r) /\ Fresh(r)
  BY <1>r, Parts DEF RequestsInv
<1>7. i \in DOMAIN scans /\ i \in 1..MaxScans /\ scans[i] \in ScanRow /\ reports[i] \in Report
      /\ scans[i].risk = risk_for(scans[i].classification)
  BY <1>3, <1>6, LoadedRow DEF Anchored
<1>8. /\ ModelKnown(i, seen.classification)
      /\ seen.risk = risk_for(seen.classification)
      /\ \/ scans[i].classification = seen.classification
         \/ scans[i].classification \in Answer
      /\ kind = "review" => reports[i].status # "none"
  BY <1>r, <1>1, <1>3, <1>6 DEF Anchored
<1>9. i \notin disputed => SameVerdict(scans[i], seen)
                           /\ (kind = "review" => reports[i] = report)
  BY <1>r, <1>1, <1>3, <1>6 DEF Fresh
<1>row. PICK row : row = scans[i]
  OBVIOUS
<1>10. /\ scans'[i] = Updated(row, seen, Judged(seen, kind, answer))
       /\ DOMAIN scans' = DOMAIN scans
       /\ \A j \in DOMAIN scans : j # i => scans'[j] = scans[j]
  BY <1>row, <1>5, <1>7
<1>11. /\ scans'[i] \in ScanRow /\ scans'[i].model = row.model
       /\ scans'[i].classification \in Answer
       /\ scans'[i].risk = risk_for(scans'[i].classification)
       /\ SameVerdict(row, seen) =>
                /\ scans'[i].classification = answer /\ scans'[i].user_feedback = answer
                /\ scans'[i].risk = risk_for(answer)
                /\ kind = "release" => scans'[i].status = "Delivered"
  <2>1. row \in ScanRow /\ row.risk = risk_for(row.classification)
        /\ (row.classification = seen.classification \/ row.classification \in Answer)
    BY <1>row, <1>7, <1>8
  <2>u. PICK u : u = scans'[i]
    OBVIOUS
  <2>2. u = Updated(row, seen, Judged(seen, kind, answer))
    BY <1>10, <2>u
  <2>4. /\ seen \in ScanRow /\ kind \in Decision /\ answer \in Answer
        /\ seen.risk = risk_for(seen.classification)
    BY <1>4, <1>8
  <2>5. u \in ScanRow
    BY <2>1, <2>2, <2>4, JudgedType
  <2>3. /\ u \in ScanRow /\ u.model = row.model
        /\ u.classification \in Answer /\ u.risk = risk_for(u.classification)
        /\ SameVerdict(row, seen) =>
                /\ u.classification = answer /\ u.user_feedback = answer
                /\ u.risk = risk_for(answer)
                /\ kind = "release" => u.status = "Delivered"
    BY <2>1, <2>2, <2>4, <2>5, DecisionRow
  <2> QED
    BY <2>u, <2>3
<1>12. /\ reports' \in [1..MaxScans -> Report] /\ reports'[i].path = reports[i].path
       /\ reports[i].status # "none" <=> reports'[i].status # "none"
       /\ \A j \in 1..MaxScans : j # i => reports'[j] = reports[j]
       /\ kind = "review" /\ reports[i] = report =>
              reports'[i].status = "reviewed" /\ reports'[i].verdict = answer
  <2>1. reports \in [1..MaxScans -> Report]
    BY Parts DEF TypeInv, TypeOK
  <2>2. CASE kind # "review"
    BY <1>5, <2>1, <2>2
  <2>3. CASE kind = "review"
    <3>r. PICK u, old : u = Reviewed(old, report, answer) /\ old = reports[i]
      OBVIOUS
    <3>o. old \in Report /\ report \in Report /\ answer \in Answer
      BY <1>4, <1>7, <3>r
    <3>u. u \in Report
      BY <3>o, <3>r, ReviewedType
    <3>1. /\ u \in Report /\ u.path = old.path
          /\ u.status = IF report.status # "reviewed" THEN "reviewed" ELSE old.status
          /\ u.verdict = IF report.verdict # answer THEN answer ELSE old.verdict
      BY <3>o, <3>r, <3>u, ReviewedColumns
    <3>2. reports' = [reports EXCEPT ![i] = u]
      BY <1>5, <2>3, <3>r
    <3> QED
      BY <1>7, <1>8, <2>1, <2>3, <3>r, <3>1, <3>2
  <2> QED
    BY <2>2, <2>3
<1>13. /\ decided'[i] = [kind |-> kind, answer |-> answer]
       /\ \A j \in 1..MaxScans : j # i => decided'[j] = decided[j]
  BY <1>5, <1>7, Parts DEF TypeInv
<1>14. DecisionEffect(i, r)
  BY <1>r, <1>row, <1>1, <1>3, <1>4, <1>5, <1>7, <1>8, <1>10, <1>11, <1>12, <1>13
     DEF DecisionEffect, ModelKnown
<1>15. DecisionStands(i, r)
  BY <1>r, <1>row, <1>7, <1>9, <1>11, <1>12 DEF DecisionStands
<1>16. BodyKept(i)
  <2>u. PICK u : u = scans'[i]
    OBVIOUS
  <2>1. row \in ScanRow /\ u \in ScanRow /\ u = Updated(row, seen, Judged(seen, kind, answer))
    BY <1>row, <1>7, <1>10, <1>11, <2>u
  <2>2. u.body = row.body /\ u.body_purged = row.body_purged
    BY <1>4, <2>1, JudgedKeepsBody
  <2> QED
    BY <1>row, <2>u, <2>2 DEF BodyKept
<1> QED
  BY <1>r, <1>14, <1>15, <1>16

LEMMA CommitDecisionKeeps ==
  ASSUME DetectionsInv, NEW q \in Request, CommitDecision(q)
  PROVE  DetectionsInv'
<1>1. PICK i \in Nat :
          DecisionEffect(i, req[q]) /\ DecisionStands(i, req[q]) /\ BodyKept(i)
  BY DecisionCommits
<1>r. PICK r : r = req[q]
  OBVIOUS
<1>2. /\ i \in DOMAIN scans /\ i \in 1..MaxScans /\ r.items = {i}
      /\ r.kind \in Decision /\ r.answer \in Answer /\ r.seen \in ScanRow
      /\ DOMAIN scans' = DOMAIN scans
      /\ \A j \in DOMAIN scans : j # i => scans'[j] = scans[j]
      /\ scans'[i] \in ScanRow /\ scans'[i].model = scans[i].model
      /\ scans'[i].classification \in Answer
      /\ scans'[i].risk = risk_for(scans'[i].classification)
      /\ \A f : f \in feedback' <=> f \in feedback \/ f = Noted(r, i)
      /\ scans[i].model = r.seen.classification \/ scans[i].model \in Verdicts(i)
  BY <1>1, <1>r DEF DecisionEffect
<1>3. /\ \A j \in 1..MaxScans : j # i => reports'[j] = reports[j] /\ decided'[j] = decided[j]
      /\ reports'[i].path = reports[i].path
      /\ reports[i].status # "none" <=> reports'[i].status # "none"
      /\ reports' \in [1..MaxScans -> Report]
      /\ decided'[i] = [kind |-> r.kind, answer |-> r.answer]
  BY <1>1, <1>r DEF DecisionEffect
<1>4. UNCHANGED <<settings, files, lost, disputed, contested, ops>> /\ Ends(q)
      /\ decided' = [decided EXCEPT ![i] = [kind |-> r.kind, answer |-> r.answer]]
  BY <1>2, <1>r DEF CommitDecision, disk
<1>5. Len(scans) \in Nat /\ DOMAIN scans = 1..Len(scans)
      /\ \A j \in DOMAIN scans : scans[j] \in ScanRow /\ j \in 1..MaxScans
  BY Parts, RowsType DEF TypeInv
<1>6. scans' \in Seq(ScanRow) /\ Len(scans') = Len(scans)
  <2>1. scans' \in [1..Len(scans) -> ScanRow]
    <3>1. \A j \in DOMAIN scans : scans'[j] \in ScanRow
      BY <1>2, <1>5
    <3>2. scans' = [j \in DOMAIN scans' |-> scans'[j]]
      <4>1. scans' = [scans EXCEPT ![i] =
                         Updated(@, r.seen, Judged(r.seen, r.kind, r.answer))]
        BY <1>2, <1>r DEF CommitDecision, disk
      <4>2. scans = [j \in DOMAIN scans |-> scans[j]]
        BY Parts DEF TypeInv, TypeOK
      <4> QED
        BY <4>1, <4>2
    <3> QED
      BY <1>2, <1>5, <3>1, <3>2
  <2> QED
    BY <1>5, <2>1, SeqDef, LenProperties
<1>7. Noted(r, i).scan = i /\ Noted(r, i).original = r.seen.classification
      /\ Noted(r, i) \in [scan : 1..Len(scans), original : Label, corrected : Answer]
  BY <1>2, <1>5 DEF Noted, ScanRow
<1>8. /\ scans[i].model \in Verdicts(i)'
      /\ \A j \in DOMAIN scans : j # i => Verdicts(j)' = Verdicts(j)
  <2>1. \A j, v : v \in Verdicts(j) <=> \E f \in feedback : f.scan = j /\ f.original = v
    BY DEF Verdicts
  <2>2. \A j, v : v \in Verdicts(j)' <=> \E f \in feedback' : f.scan = j /\ f.original = v
    BY DEF Verdicts
  <2>3. scans[i].model \in Verdicts(i)'
    BY <1>2, <1>7, <2>1, <2>2
  <2>4. ASSUME NEW j \in DOMAIN scans, j # i
        PROVE  Verdicts(j)' = Verdicts(j)
    <3>1. \A f : f.scan = j => (f \in feedback' <=> f \in feedback)
      BY <1>2, <1>7, <2>4
    <3> QED
      BY <3>1 DEF Verdicts
  <2> QED
    BY <2>3, <2>4
<1>9. RowsInv'
  <2> SUFFICES ASSUME NEW j \in DOMAIN scans
               PROVE  /\ scans'[j].risk = risk_for(scans'[j].classification)
                      /\ scans'[j].body_purged => ~scans'[j].body
                      /\ ModelKnown(j, scans[j].classification)'
                      /\ decided'[j].kind # "none" => scans'[j].model \in Verdicts(j)'
                      /\ Verdicts(j)' # {} => scans'[j].classification \in Answer
    BY <1>2 DEF RowsInv
  <2>1. scans[j].body_purged => ~scans[j].body
    BY Parts DEF TablesInv, RowsInv
  <2>2. CASE j = i
    <3>1. ModelKnown(j, scans[j].classification)'
      BY <1>2, <1>8, <2>2 DEF ModelKnown
    <3>2. scans'[j].body_purged => ~scans'[j].body
      BY <1>1, <2>1, <2>2 DEF BodyKept
    <3> QED
      BY <1>2, <1>8, <2>2, <3>1, <3>2
  <2>3. CASE j # i
    <3>1. scans'[j] = scans[j] /\ decided'[j] = decided[j] /\ Verdicts(j)' = Verdicts(j)
      BY <1>2, <1>3, <1>5, <1>8, <2>3
    <3>2. /\ scans[j].risk = risk_for(scans[j].classification)
          /\ ModelKnown(j, scans[j].classification)
          /\ decided[j].kind # "none" => scans[j].model \in Verdicts(j)
          /\ Verdicts(j) # {} => scans[j].classification \in Answer
      BY Parts DEF TablesInv, RowsInv
    <3>3. ModelKnown(j, scans[j].classification)'
      BY <3>1, <3>2 DEF ModelKnown
    <3>4. scans'[j].body_purged => ~scans'[j].body
      BY <2>1, <3>1
    <3> QED
      BY <3>1, <3>2, <3>3, <3>4
  <2> QED
    BY <2>2, <2>3
<1>10. UnusedInv' /\ FilesInv'
  <2>1. UnusedInv /\ FilesInv
    BY Parts DEF TablesInv
  <2>2. UnusedInv'
    BY <1>2, <1>3, <2>1 DEF UnusedInv
  <2>3. FilesInv'
    <3>1. files' = files /\ lost' = lost
      BY <1>4
    <3> QED
      BY <1>2, <1>3, <2>1, <3>1 DEF FilesInv
  <2> QED
    BY <2>2, <2>3
<1>11. LastDecisionStands'
  <2>1. LastDecisionStands /\ disputed' = disputed
    BY <1>4, Parts DEF TablesInv
  <2> SUFFICES ASSUME NEW j \in DOMAIN scans \ disputed, decided'[j].kind # "none"
               PROVE  /\ scans'[j].classification = decided'[j].answer
                      /\ scans'[j].user_feedback = decided'[j].answer
                      /\ scans'[j].risk = risk_for(decided'[j].answer)
                      /\ decided'[j].kind = "release" => scans'[j].status = "Delivered"
                      /\ decided'[j].kind = "review" =>
                             /\ reports'[j].status = "reviewed"
                             /\ reports'[j].verdict = decided'[j].answer
    BY <1>2, <2>1 DEF LastDecisionStands
  <2>2. CASE j = i
    <3>1. decided'[j].kind = r.kind /\ decided'[j].answer = r.answer
      BY <1>3, <2>2
    <3> QED
      BY <1>1, <1>r, <2>2, <3>1 DEF DecisionStands
  <2>3. CASE j # i
    <3>1. scans'[j] = scans[j] /\ decided'[j] = decided[j] /\ reports'[j] = reports[j]
      BY <1>2, <1>3, <1>5, <2>3
    <3> QED
      BY <2>1, <3>1 DEF LastDecisionStands
  <2> QED
    BY <2>2, <2>3
<1>12. TablesInv'
  BY <1>9, <1>10, <1>11 DEF TablesInv
<1>13. \A o \in Request : req'[o] = IF o = q THEN NoReq ELSE req[o]
  BY <1>4, Parts, EndsEffect DEF TypeInv
<1>14. ASSUME NEW o \in Request \ {q}
       PROVE  Anchored(req[o])' /\ Fresh(req[o])'
  <2>1. req'[o] = req[o] /\ Anchored(req[o]) /\ Fresh(req[o])
        /\ req[o].items \subseteq DOMAIN scans
    BY <1>13, Parts DEF RequestsInv, Anchored
  <2>2. \A j \in req[o].items : reports[j].status # "none" => reports'[j].status # "none"
    BY <1>3, <1>5, <2>1
  <2>3. ASSUME NEW j \in req[o].items, ModelKnown(j, req[o].seen.classification)
        PROVE  ModelKnown(j, req[o].seen.classification)'
    <3>1. CASE j = i
      BY <1>2, <1>8, <2>1, <3>1 DEF ModelKnown
    <3>2. CASE j # i
      BY <1>2, <1>8, <2>1, <2>3, <3>2 DEF ModelKnown
    <3> QED
      BY <3>1, <3>2
  <2>4. ASSUME NEW j \in req[o].items,
               \/ scans[j].classification = req[o].seen.classification
               \/ scans[j].classification \in Answer
        PROVE  \/ scans'[j].classification = req[o].seen.classification
               \/ scans'[j].classification \in Answer
    BY <1>2, <2>1, <2>4
  <2>5. Anchored(req[o])'
    <3>1. files' = files /\ lost' = lost
      BY <1>4
    <3> QED
      BY <1>2, <2>1, <2>2, <2>3, <2>4, <3>1 DEF Anchored
  <2>6. Fresh(req[o])'
    <3>1. disputed' = disputed
      BY <1>4
    <3> SUFFICES ASSUME NEW j \in req[o].items \ disputed, req[o].kind \in Decision
                 PROVE  /\ req[o].at = "commit" => SameVerdict(scans'[j], req[o].seen)
                        /\ req[o].kind = "review" => reports'[j] = req[o].report
      BY <2>1, <3>1 DEF Fresh
    <3>2. j # i
      BY <1>2, <1>r, <2>1, Parts DEF RequestsInv, OneDecider
    <3>3. scans'[j] = scans[j] /\ reports'[j] = reports[j]
      BY <1>2, <1>3, <1>5, <2>1, <3>2
    <3> QED
      BY <2>1, <3>3 DEF Fresh
  <2> QED
    BY <2>5, <2>6
<1>15. CapacityInv'
  BY <1>4, <1>6, NoReqShape, Parts, EndsEffect, CapacityStep DEF Source
<1>16. /\ feedback' \subseteq [scan : 1..Len(scans'), original : Label, corrected : Answer]
       /\ Len(scans') <= MaxScans /\ Len(scans) <= Len(scans')
  <2>1. /\ feedback \subseteq [scan : 1..Len(scans), original : Label, corrected : Answer]
        /\ Len(scans) <= MaxScans
    BY Parts DEF TypeInv, TypeOK
  <2> QED
    BY <1>2, <1>5, <1>6, <1>7, <2>1
<1>17. decided' \in [1..MaxScans -> [kind : Decision \cup {"none"},
                                    answer : Answer \cup {"none"}]]
  BY <1>2, <1>4, Parts DEF TypeInv
<1> QED
  BY <1>3, <1>4, <1>6, <1>12, <1>14, <1>15, <1>16, <1>17, CommitStep

\* A row is stored with the model's verdict.
LEMMA NewScanType ==
  ASSUME NEW r \in RequestRow, r.kind \in Source, r.label \in Label, r.proba \in Proba
  PROVE  /\ NewScan(r) \in ScanRow
         /\ NewScan(r).classification = r.label /\ NewScan(r).model = r.label
         /\ NewScan(r).risk = risk_for(r.label)
<1>1. risk_for(r.label) \in {"High", "Medium", "Low"}
      /\ status_for(r.label) \in {"Quarantined", "Flagged", "Delivered"}
  BY RiskIsOne, StatusType
<1>2. NewScan(r) \in ScanRow
  BY <1>1 DEF NewScan, ScanRow
<1>3. /\ NewScan(r).classification = r.label /\ NewScan(r).model = r.label
      /\ NewScan(r).risk = risk_for(r.label)
  BY DEF NewScan
<1> QED
  BY <1>2, <1>3

LEMMA NewScanKeepsBody ==
  ASSUME NEW r
  PROVE  ~NewScan(r).body_purged
BY DEF NewScan

LEMMA InsertKeeps ==
  ASSUME DetectionsInv, NEW q \in Request, Insert(q)
  PROVE  DetectionsInv'
<1>r. PICK r, i, new : r = req[q] /\ i = Len(scans) + 1 /\ new = NewScan(r)
  OBVIOUS
<1>1. CASE r.broken
  BY <1>r, <1>1, EndedKeeps DEF Insert, disk
<1>2. CASE ~r.broken
  <2>1. /\ r.at = "insert" /\ Ends(q) /\ scans' = Append(scans, new)
        /\ reports' = IF r.kind # "upload" THEN reports
                      ELSE [reports EXCEPT ![i] =
                               [status |-> "pending", verdict |-> "none", path |-> r.path]]
        /\ UNCHANGED <<feedback, settings, files, lost, decided, disputed, contested, ops>>
    BY <1>r, <1>2 DEF Insert, disk
  <2>2. Shape(r) /\ r \in RequestRow /\ Anchored(r)
    BY <1>r, Parts DEF RequestsInv, Shape
  <2>3. r.kind \in Source
    BY <2>1, <2>2 DEF Shape, RequestRow, Kind, Source, Decision
  <2>4. r.label \in Label /\ r.proba \in Proba
    BY <2>1, <2>2, <2>3 DEF Shape
  <2>5. /\ new \in ScanRow /\ new.classification = r.label /\ new.model = r.label
        /\ new.risk = risk_for(r.label)
    BY <1>r, <2>2, <2>3, <2>4, NewScanType
  <2>6. Len(scans) \in Nat /\ DOMAIN scans = 1..Len(scans) /\ scans \in Seq(ScanRow)
        /\ \A j \in DOMAIN scans : scans[j] \in ScanRow /\ j \in 1..MaxScans
    BY Parts, RowsType DEF TypeInv, TypeOK
  <2>7. /\ scans' \in Seq(ScanRow) /\ Len(scans') = i /\ DOMAIN scans' = 1..i
        /\ i \notin DOMAIN scans /\ DOMAIN scans' = DOMAIN scans \cup {i}
        /\ \A j \in DOMAIN scans : scans'[j] = scans[j]
        /\ scans'[i] = new
    <3>1. /\ scans' \in Seq(ScanRow) /\ Len(scans') = i
          /\ \A j \in 1..Len(scans) : scans'[j] = scans[j]
          /\ scans'[i] = new
      BY <1>r, <2>1, <2>5, <2>6, AppendProperties
    <3>2. DOMAIN scans' = 1..i
      BY <3>1, LenProperties
    <3> QED
      BY <1>r, <2>6, <3>1, <3>2
  <2>8. \A o \in Request : req'[o] = IF o = q THEN NoReq ELSE req[o]
    BY <2>1, Parts, EndsEffect DEF TypeInv
  <2>9. CapacityInv' /\ i <= MaxScans
    <3>1. Classifying' = Classifying \ {q} /\ q \in Classifying
      BY <1>r, <2>3, <2>8, NoReqShape DEF Classifying, Source
    <3>2. IsFiniteSet(Classifying) /\ Cardinality(Classifying) \in Nat
          /\ Len(scans) + Cardinality(Classifying) <= MaxScans
      BY Parts, FS_CardinalityType DEF CapacityInv
    <3>3. IsFiniteSet(Classifying') /\ Cardinality(Classifying') = Cardinality(Classifying) - 1
      BY <3>1, <3>2, FS_RemoveElement
    <3>4. Cardinality(Classifying') \in Nat
      BY <3>3, FS_CardinalityType
    <3>5. i <= MaxScans /\ i + Cardinality(Classifying') <= MaxScans
      BY <1>r, <2>6, <3>2, <3>3, <3>4, DetectionsAssumption
    <3> QED
      BY <2>7, <3>3, <3>5 DEF CapacityInv
  <2>10. i \in 1..MaxScans /\ Len(scans) <= i /\ i \in Nat
    BY <1>r, <2>6, <2>9, DetectionsAssumption
  <2>11. /\ reports \in [1..MaxScans -> Report]
         /\ feedback \subseteq [scan : 1..Len(scans), original : Label, corrected : Answer]
         /\ decided \in [1..MaxScans -> [kind : Decision \cup {"none"},
                                        answer : Answer \cup {"none"}]]
    BY Parts DEF TypeInv, TypeOK
  <2>12. /\ reports' \in [1..MaxScans -> Report]
         /\ \A j \in 1..MaxScans : j # i => reports'[j] = reports[j]
         /\ \/ reports'[i] = reports[i]
            \/ reports'[i].path = r.path /\ r.kind = "upload"
    <3>1. r.path \in 0..MaxOps
      BY <2>2 DEF RequestRow
    <3>2. [status |-> "pending", verdict |-> "none", path |-> r.path] \in Report
      BY <3>1 DEF Report
    <3> QED
      BY <2>1, <2>10, <2>11, <3>2
  <2>13. feedback' \subseteq [scan : 1..Len(scans'), original : Label, corrected : Answer]
    <3>1. 1..Len(scans) \subseteq 1..Len(scans')
      BY <1>r, <2>6, <2>7
    <3> QED
      BY <2>1, <2>11, <3>1
  <2>14. /\ reports[i].status = "none" /\ decided[i].kind = "none" /\ Verdicts(i) = {}
    <3>1. reports[i].status = "none" /\ decided[i].kind = "none"
      BY <2>7, <2>10, Parts DEF TablesInv, UnusedInv
    <3>2. \A f \in feedback : f.scan # i
      BY <1>r, <2>6, <2>11
    <3> QED
      BY <3>1, <3>2 DEF Verdicts
  <2>15. \A j : Verdicts(j)' = Verdicts(j)
    BY <2>1 DEF Verdicts
  <2>16. RowsInv'
    <3> SUFFICES ASSUME NEW j \in DOMAIN scans'
                 PROVE  /\ scans'[j].risk = risk_for(scans'[j].classification)
                        /\ scans'[j].body_purged => ~scans'[j].body
                        /\ ModelKnown(j, scans[j].classification)'
                        /\ decided'[j].kind # "none" => scans'[j].model \in Verdicts(j)'
                        /\ Verdicts(j)' # {} => scans'[j].classification \in Answer
      BY DEF RowsInv
    <3>0. decided' = decided
      BY <2>1
    <3>1. CASE j = i
      <4>1. scans'[j].body_purged => ~scans'[j].body
        BY <1>r, <2>7, <3>1, NewScanKeepsBody
      <4>2. ModelKnown(j, scans[j].classification)'
        BY <2>5, <2>7, <3>1 DEF ModelKnown
      <4> QED
        BY <2>5, <2>7, <2>14, <2>15, <3>0, <3>1, <4>1, <4>2
    <3>2. CASE j \in DOMAIN scans
      <4>1. scans[j].body_purged => ~scans[j].body
        BY <3>2, Parts DEF TablesInv, RowsInv
      <4>2. /\ scans[j].risk = risk_for(scans[j].classification)
            /\ ModelKnown(j, scans[j].classification)
            /\ decided[j].kind # "none" => scans[j].model \in Verdicts(j)
            /\ Verdicts(j) # {} => scans[j].classification \in Answer
        BY <3>2, Parts DEF TablesInv, RowsInv
      <4>3. scans'[j] = scans[j] /\ Verdicts(j)' = Verdicts(j)
        BY <2>7, <2>15, <3>2
      <4>4. ModelKnown(j, scans[j].classification)'
        BY <4>2, <4>3 DEF ModelKnown
      <4>5. scans'[j].body_purged => ~scans'[j].body
        BY <4>1, <4>3
      <4> QED
        BY <3>0, <4>2, <4>3, <4>4, <4>5
    <3> QED
      BY <2>7, <3>1, <3>2
  <2>17. UnusedInv' /\ FilesInv'
    <3>1. UnusedInv /\ FilesInv /\ decided' = decided /\ files' = files /\ lost' = lost
      BY <2>1, Parts DEF TablesInv
    <3>2. UnusedInv'
      BY <2>7, <2>12, <3>1 DEF UnusedInv
    <3>3. r.kind = "upload" => r.path \in files
      BY <1>2, <2>1, <2>2 DEF Anchored
    <3>4. FilesInv'
      BY <2>12, <2>14, <3>1, <3>3 DEF FilesInv
    <3> QED
      BY <3>2, <3>4
  <2>18. LastDecisionStands'
    <3>1. LastDecisionStands /\ decided' = decided /\ disputed' = disputed
      BY <2>1, Parts DEF TablesInv
    <3> SUFFICES ASSUME NEW j \in DOMAIN scans' \ disputed, decided[j].kind # "none"
                 PROVE  /\ scans'[j].classification = decided[j].answer
                        /\ scans'[j].user_feedback = decided[j].answer
                        /\ scans'[j].risk = risk_for(decided[j].answer)
                        /\ decided[j].kind = "release" => scans'[j].status = "Delivered"
                        /\ decided[j].kind = "review" =>
                               /\ reports'[j].status = "reviewed"
                               /\ reports'[j].verdict = decided[j].answer
      BY <3>1 DEF LastDecisionStands
    <3>2. j # i /\ j \in DOMAIN scans
      BY <2>7, <2>14
    <3>3. scans'[j] = scans[j] /\ reports'[j] = reports[j]
      BY <2>6, <2>7, <2>12, <3>2
    <3> QED
      BY <3>1, <3>2, <3>3 DEF LastDecisionStands
  <2>19. TablesInv'
    BY <2>16, <2>17, <2>18 DEF TablesInv
  <2>20. ASSUME NEW o \in Request \ {q}
         PROVE  Anchored(req[o])' /\ Fresh(req[o])'
    <3>1. req'[o] = req[o] /\ Anchored(req[o]) /\ Fresh(req[o])
          /\ req[o].items \subseteq DOMAIN scans
      BY <2>8, Parts DEF RequestsInv, Anchored
    <3>2. \A j \in req[o].items : scans'[j] = scans[j] /\ reports'[j] = reports[j]
      BY <2>6, <2>7, <2>12, <3>1
    <3>3. files' = files /\ disputed' = disputed
      BY <2>1
    <3>4. ASSUME NEW j \in req[o].items
          PROVE  ModelKnown(j, req[o].seen.classification)'
                 <=> ModelKnown(j, req[o].seen.classification)
      BY <2>15, <3>1, <3>2 DEF ModelKnown
    <3>5. Anchored(req[o])'
      BY <2>7, <3>1, <3>2, <3>3, <3>4 DEF Anchored
    <3>6. Fresh(req[o])'
      BY <3>1, <3>2, <3>3 DEF Fresh
    <3> QED
      BY <3>5, <3>6
  <2>21. Len(scans') <= MaxScans /\ Len(scans) <= Len(scans')
    BY <2>7, <2>9, <2>10
  <2>22. decided' \in [1..MaxScans -> [kind : Decision \cup {"none"},
                                      answer : Answer \cup {"none"}]]
    BY <2>1, <2>11
  <2> QED
    BY <2>1, <2>7, <2>9, <2>12, <2>13, <2>19, <2>20, <2>21, <2>22, CommitStep
<1> QED
  BY <1>1, <1>2

-----------------------------------------------------------------------------
LEMMA DetectionsStart == Init => DetectionsInv
<1> SUFFICES ASSUME Init
             PROVE  DetectionsInv
  OBVIOUS
<1>1. /\ scans = <<>> /\ feedback = {} /\ settings = <<>> /\ files = {} /\ lost = {}
      /\ reports = [i \in 1..MaxScans |-> NoReport]
      /\ req = [q \in Request |-> NoReq] /\ in_force = [q \in Request |-> {}]
      /\ decided = [i \in 1..MaxScans |-> [kind |-> "none", answer |-> "none"]]
      /\ disputed = {} /\ contested = FALSE /\ ops = 0
  BY DEF Init
<1>2. Len(scans) = 0 /\ DOMAIN scans = {} /\ scans \in Seq(ScanRow) /\ settings \in Seq(Pair)
  BY <1>1
<1>3. NoReport \in Report /\ NoReport.status = "none"
  BY DetectionsAssumption DEF NoReport, Report
<1>4. TypeInv
  <2>1. TypeOK
    <3>1. scans \in Seq(ScanRow) /\ Len(scans) <= MaxScans
      BY <1>2, DetectionsAssumption
    <3>2. reports \in [1..MaxScans -> Report]
      BY <1>1, <1>3
    <3>3. \A q \in Request : req[q].at \in Place /\ req[q].items \subseteq 1..Len(scans)
      BY <1>1, NoReqShape DEF RequestRow
    <3>4. /\ feedback \subseteq [scan : 1..Len(scans), original : Label, corrected : Answer]
          /\ settings = <<>> /\ files \subseteq 1..MaxOps /\ lost \subseteq 1..MaxScans
          /\ disputed \subseteq 1..MaxScans /\ contested \in BOOLEAN
      BY <1>1
    <3>5. ops \in 0..MaxOps
      BY <1>1, DetectionsAssumption
    <3> QED
      BY <3>1, <3>2, <3>3, <3>4, <3>5 DEF TypeOK
  <2> QED
    BY <1>1, <1>2, <2>1, NoReqShape DEF TypeInv
<1>5. NoReq.kind \notin Decision \cup Source \cup {"policy", "upload"}
  BY NoReqShape DEF Source, Decision
<1>6. RequestsInv
  BY <1>1, <1>5, NoReqShape DEF RequestsInv, OneDecider, Anchored, Fresh
<1>7. TablesInv
  BY <1>1, <1>2, <1>3 DEF TablesInv, RowsInv, UnusedInv, FilesInv, LastDecisionStands
<1>8. PolicyInv
  BY <1>1, <1>5 DEF PolicyInv
<1>9. CapacityInv
  <2>1. Classifying = {}
    BY <1>1, <1>5 DEF Classifying
  <2> QED
    BY <1>2, <2>1, FS_EmptySet, DetectionsAssumption DEF CapacityInv
<1> QED
  BY <1>4, <1>6, <1>7, <1>8, <1>9 DEF DetectionsInv

LEMMA DetectionsNext == DetectionsInv /\ [Next]_vars => DetectionsInv'
<1> SUFFICES ASSUME DetectionsInv, [Next]_vars
             PROVE  DetectionsInv'
  OBVIOUS
<1>1. CASE UNCHANGED vars
  <2>1. UNCHANGED <<scans, reports, feedback, settings, files, lost, req, in_force, decided,
                    disputed, contested, ops>>
    BY <1>1 DEF vars, tables, disk, history
  <2>2. TypeInv' /\ PolicyInv' /\ CapacityInv'
    BY <2>1, Parts DEF TypeInv, TypeOK, PolicyInv, CapacityInv, Classifying
  <2>3. RequestsInv'
    BY <2>1, Parts DEF RequestsInv, Anchored, Fresh, OneDecider, ModelKnown, Verdicts
  <2>4. TablesInv'
    BY <2>1, Parts DEF TablesInv, RowsInv, UnusedInv, FilesInv, LastDecisionStands,
       ModelKnown, Verdicts
  <2> QED
    BY <2>2, <2>3, <2>4 DEF DetectionsInv
<1>2. ASSUME NEW q \in Request, RequestStep(q)
      PROVE  DetectionsInv'
  <2>1. ReadSettings(q) => DetectionsInv'
    <3>1. ReadSettings(q) => req[q].kind \in Source \/ req[q].kind = "policy"
      BY DEF ReadSettings
    <3> QED
      BY <3>1, ReadThresholds, ReadPolicy
  <2> QED
    BY <1>2, <2>1, SubmitKeeps, ChangePolicyKeeps, MissSettingsKeeps, CreateSettingsKeeps,
       ReadFailsKeeps, CommitPolicyKeeps, StoreFileKeeps, InsertKeeps, OpenScanKeeps,
       OpenReportKeeps, OpenPurgeKeeps, OpenReportedKeeps, CommitDecisionKeeps,
       CommitPurgeKeeps, DieKeeps DEF RequestStep
<1> QED
  BY <1>1, <1>2, ReplaceWebKeeps DEF Next

\* The inductive invariant of requests, rows, policy and room holds of every
\* state the routes, the passes and the tasks can reach.
THEOREM DetectionsInvariant == Spec => []DetectionsInv
<1> QED
  BY DetectionsStart, DetectionsNext, PTL DEF Spec

\* Every value has its type: no pass, upload or decision stores what the models
\* of models.py do not hold, and the table never outgrows its bound.
THEOREM DetectionsTypes == Spec => []TypeOK
<1>1. DetectionsInv => TypeOK
  BY DEF DetectionsInv, TypeInv
<1> QED
  BY <1>1, DetectionsInvariant, PTL

\* Whoever decided on a scan and in whatever order, a Feedback row holds what
\* the model said of it (submit_feedback, admin_action, review_report).
THEOREM TheModelsLabelIsKept == Spec => []ModelVerdictIsKept
<1>1. DetectionsInv => ModelVerdictIsKept
  <2> SUFFICES ASSUME DetectionsInv, NEW i \in DOMAIN scans, decided[i].kind # "none"
               PROVE  \E f \in feedback : f.scan = i /\ f.original = scans[i].model
    BY DEF ModelVerdictIsKept
  <2>1. scans[i].model \in Verdicts(i)
    BY Parts DEF TablesInv, RowsInv
  <2> QED
    BY <2>1 DEF Verdicts
<1> QED
  BY <1>1, DetectionsInvariant, PTL

\* Unless two decisions on one scan overlapped, the row and its report are as
\* the last decision left them, whatever purges, inserts and deaths came between.
THEOREM TheLastDecisionStands == Spec => []LastDecisionStands
<1>1. DetectionsInv => LastDecisionStands
  BY DEF DetectionsInv, TablesInv
<1> QED
  BY <1>1, DetectionsInvariant, PTL

\* Nothing decided waits in the Needs Review queue, even when decisions
\* overlapped, and every risk badge is the one of its verdict.
THEOREM DecidedScansLeaveTheQueue == Spec => []DecidedLeavesTheQueue
<1>1. DetectionsInv => DecidedLeavesTheQueue
  <2> SUFFICES ASSUME DetectionsInv
               PROVE  DecidedLeavesTheQueue
    OBVIOUS
  <2>1. \A i \in DOMAIN scans : scans[i].risk = risk_for(scans[i].classification)
    BY Parts DEF TablesInv, RowsInv
  <2>2. ASSUME NEW f \in feedback, f.scan \in DOMAIN scans
        PROVE  scans[f.scan].classification # "Needs Review"
    <3>1. Verdicts(f.scan) # {}
      BY <2>2 DEF Verdicts
    <3>2. scans[f.scan].classification \in Answer
      BY <2>2, <3>1, Parts DEF TablesInv, RowsInv
    <3> QED
      BY <3>2 DEF Answer
  <2> QED
    BY <2>1, <2>2 DEF DecidedLeavesTheQueue, NeedsReviewList
<1> QED
  BY <1>1, DetectionsInvariant, PTL

\* A verdict about to be stored is the one of a single policy: one in force at
\* some moment of its request, or the shipped pair if its read of the settings
\* failed (_current_thresholds), whatever else commits or dies meanwhile.
THEOREM OnePolicyPerVerdict == Spec => []VerdictUsesOnePolicy
<1>1. DetectionsInv => VerdictUsesOnePolicy
  <2> SUFFICES ASSUME DetectionsInv, NEW q \in Request,
                      req[q].kind \in Source, req[q].at \in {"file", "insert"}
               PROVE  \E p \in Usable(q) : req[q].label = Decide(req[q].proba, p)
    BY DEF VerdictUsesOnePolicy
  <2> QED
    BY Parts DEF PolicyInv, VerdictOf, Usable
<1> QED
  BY <1>1, DetectionsInvariant, PTL

\* A report without its raw message is one whose container has been replaced:
\* no death of a request, and no replacement between the writing of the file
\* and the commit, leaves another (analyze_and_store, store_file).
THEOREM EveryReportHasItsFile == Spec => []ReportHasItsFile
<1>1. DetectionsInv => ReportHasItsFile
  BY Parts, RowsType DEF TablesInv, FilesInv, ReportHasItsFile, TypeInv
<1> QED
  BY <1>1, DetectionsInvariant, PTL

\* What the retention job removed stays removed: no commit, of a decision that
\* had loaded the row before included, brings a body back (purge_old_bodies).
THEOREM PurgedBodiesStayOut == Spec => PurgeIsOneWay
<1> DEFINE Stays == \A i \in DOMAIN scans : scans[i].body_purged =>
                        scans'[i].body_purged /\ ~scans'[i].body
<1>1. ASSUME DetectionsInv, [Next]_vars
      PROVE  [Stays]_vars
  <2>1. \A i \in DOMAIN scans : scans[i].body_purged => ~scans[i].body
    BY <1>1, Parts DEF TablesInv, RowsInv
  <2>2. ASSUME NEW q \in Request, CommitDecision(q)
        PROVE  Stays
    <3>1. PICK i \in Nat :
              DecisionEffect(i, req[q]) /\ DecisionStands(i, req[q]) /\ BodyKept(i)
      BY <1>1, <2>2, DecisionCommits
    <3>2. ASSUME NEW j \in DOMAIN scans, scans[j].body_purged
          PROVE  scans'[j].body_purged /\ ~scans'[j].body
      <4>1. ~scans[j].body
        BY <2>1, <3>2
      <4>2. CASE j = i
        BY <3>1, <3>2, <4>1, <4>2 DEF BodyKept
      <4>3. CASE j # i
        <5>1. scans'[j] = scans[j]
          BY <3>1, <3>2, <4>3 DEF DecisionEffect
        <5> QED
          BY <3>2, <4>1, <5>1
      <4> QED
        BY <4>2, <4>3
    <3> QED
      BY <3>2
  <2>3. ASSUME NEW q \in Request, CommitPurge(q)
        PROVE  Stays
    <3> SUFFICES ASSUME NEW i \in DOMAIN scans, scans[i].body_purged
                 PROVE  scans'[i].body_purged /\ ~scans'[i].body
      OBVIOUS
    <3>1. scans'[i] = IF i \notin req[q].items THEN scans[i]
                      ELSE [scans[i] EXCEPT !.body = FALSE, !.body_purged = TRUE]
      BY <2>3 DEF CommitPurge
    <3>2. CASE i \notin req[q].items
      <4>1. scans'[i] = scans[i]
        BY <3>1, <3>2
      <4> QED
        BY <2>1, <4>1
    <3>3. CASE i \in req[q].items
      <4> PICK row : row = scans[i]
        OBVIOUS
      <4>1. row \in ScanRow /\ scans'[i] = [row EXCEPT !.body = FALSE, !.body_purged = TRUE]
        BY <1>1, <3>1, <3>3, Parts, RowsType DEF TypeInv
      <4>2. scans'[i].body_purged
        BY <4>1 DEF ScanRow
      <4>3. ~scans'[i].body
        BY <4>1 DEF ScanRow
      <4> QED
        BY <4>2, <4>3
    <3> QED
      BY <3>2, <3>3
  <2>4. ASSUME NEW q \in Request, Insert(q)
        PROVE  Stays
    <3>1. \A i \in DOMAIN scans : scans'[i] = scans[i]
      <4>1. scans \in Seq(ScanRow) /\ Len(scans) \in Nat /\ DOMAIN scans = 1..Len(scans)
        BY <1>1, Parts, RowsType DEF TypeInv, TypeOK
      <4>2. scans' = scans \/ scans' = Append(scans, NewScan(req[q]))
        BY <2>4 DEF Insert
      <4>3. ASSUME NEW new, scans' = Append(scans, new)
            PROVE  \A i \in DOMAIN scans : scans'[i] = scans[i]
        BY <4>1, <4>3
      <4> QED
        BY <4>2, <4>3
    <3> QED
      BY <2>1, <3>1
  <2>5. scans' = scans => Stays
    BY <2>1
  <2> HIDE DEF Stays
  <2>6. UNCHANGED vars => scans' = scans
    BY DEF vars, tables, disk
  <2>7. CASE Next
    <3>1. ASSUME NEW q \in Request, RequestStep(q)
          PROVE  Insert(q) \/ CommitDecision(q) \/ CommitPurge(q) \/ scans' = scans
      BY <3>1 DEF RequestStep, Submit, ChangePolicy, ReadSettings, MissSettings,
         CreateSettings, ReadFails, CommitPolicy, StoreFile, OpenScan, OpenReport,
         OpenPurge, OpenReported, Die, tables
    <3>2. ReplaceWeb => scans' = scans
      BY DEF ReplaceWeb
    <3> QED
      BY <2>2, <2>3, <2>4, <2>5, <2>7, <3>1, <3>2 DEF Next
  <2> QED
    BY <1>1, <2>5, <2>6, <2>7
<1> QED
  BY <1>1, DetectionsInvariant, PTL DEF Spec, PurgeIsOneWay, Stays

-----------------------------------------------------------------------------
\* The order of the cut points, for a shipped pair the route would accept
\* (models.py ships 0.50 and 0.75).

Changing(r) == r.kind = "policy" /\ r.at = "commit"

LEMMA OrderQuiet ==
  ASSUME PolicyOrder, contested => contested', settings' = settings,
         \A o \in Request : Changing(req'[o]) => req'[o] = req[o]
  PROVE  PolicyOrder'
BY DEF PolicyOrder, OnePolicyChange, Changing

\* A request that moves and is not about to commit a policy.
LEMMA OrderMoves ==
  ASSUME DetectionsInv, PolicyOrder, contested' = contested, settings' = settings,
         NEW q \in Request, NEW r, req' = [req EXCEPT ![q] = r], ~Changing(r)
  PROVE  PolicyOrder'
<1>1. \A o \in Request : req'[o] = IF o = q THEN r ELSE req[o]
  BY Parts, OneRequestMoves
<1>2. \A o \in Request : Changing(req'[o]) => req'[o] = req[o]
  BY <1>1
<1> QED
  BY <1>2, OrderQuiet

LEMMA OrderEnds ==
  ASSUME DetectionsInv, PolicyOrder, NEW q \in Request, Ends(q),
         contested' = contested, settings' = settings
  PROVE  PolicyOrder'
<1>1. ~Changing(NoReq)
  BY DEF Changing, NoReq
<1> QED
  BY <1>1, OrderMoves DEF Ends

LEMMA OrderGoes ==
  ASSUME DetectionsInv, PolicyOrder, NEW q \in Request, NEW place, Goes(q, place),
         place # "commit", contested' = contested, settings' = settings
  PROVE  PolicyOrder'
<1>r. PICK r : r = [req[q] EXCEPT !.at = place]
  OBVIOUS
<1>1. req' = [req EXCEPT ![q] = r]
  BY <1>r DEF Goes
<1>2. r.at = place
  BY <1>r, Parts DEF TypeInv, RequestRow
<1>3. ~Changing(r)
  BY <1>2 DEF Changing
<1> QED
  BY <1>1, <1>3, OrderMoves

LEMMA OrderBegins ==
  ASSUME DetectionsInv, PolicyOrder, NEW q \in Request, NEW r, Begin(q, r), ~Changing(r),
         contested' = contested, settings' = settings
  PROVE  PolicyOrder'
BY OrderMoves DEF Begin

LEMMA OrderRead ==
  ASSUME DetectionsInv, PolicyOrder, NEW q \in Request, ReadSettings(q)
  PROVE  PolicyOrder'
<1>1. CASE req[q].kind \in Source
  <2>r. PICK r : r = [req[q] EXCEPT !.at = AfterClassify(req[q].kind),
                                    !.label = Decide(req[q].proba, Thresholds(settings))]
    OBVIOUS
  <2>1. req' = [req EXCEPT ![q] = r] /\ contested' = contested /\ settings' = settings
    BY <1>1, <2>r DEF ReadSettings, Source, tables, disk
  <2>2. r.at = AfterClassify(req[q].kind)
    BY <2>r, Parts DEF TypeInv, RequestRow
  <2>3. ~Changing(r)
    BY <2>2 DEF Changing, AfterClassify
  <2> QED
    BY <2>1, <2>3, OrderMoves
<1>2. CASE req[q].kind = "policy"
  <2>r. PICK r : r = [req[q] EXCEPT !.at = "commit", !.was = settings[1]]
    OBVIOUS
  <2>1. /\ req' = [req EXCEPT ![q] = r] /\ settings' = settings
        /\ contested' = (contested \/ \E o \in Request \ {q} : Changing(req[o]))
    BY <1>2, <2>r DEF ReadSettings, Source, tables, disk, Changing
  <2>2. r.was = settings[1] /\ Changing(r)
    BY <1>2, <2>r, Parts DEF TypeInv, RequestRow, Changing
  <2>3. \A o \in Request : req'[o] = IF o = q THEN r ELSE req[o]
    BY <2>1, Parts, OneRequestMoves
  <2>4. ASSUME ~contested'
        PROVE  OnePolicyChange'
    <3>1. ~contested /\ \A o \in Request : Changing(req[o]) => o = q
      BY <2>1, <2>4
    <3>2. \A o \in Request : Changing(req'[o]) => o = q
      BY <2>3, <3>1
    <3>3. settings # <<>> => Accepted(settings[1])
      BY <3>1 DEF PolicyOrder, OnePolicyChange
    <3> QED
      BY <2>1, <2>2, <2>3, <3>2, <3>3 DEF OnePolicyChange, Changing
  <2> QED
    BY <2>4 DEF PolicyOrder
<1> QED
  BY <1>1, <1>2 DEF ReadSettings

LEMMA OrderCreates ==
  ASSUME DetectionsInv, PolicyOrder, Accepted(Default), NEW q \in Request, CreateSettings(q)
  PROVE  PolicyOrder'
<1>r. PICK r : r = [req[q] EXCEPT !.at = "thresholds"]
  OBVIOUS
<1>1. /\ req' = [req EXCEPT ![q] = r] /\ settings = <<>> /\ settings' = <<Default>>
  BY <1>r DEF CreateSettings, Goes
<1>2. r.at = "thresholds"
  BY <1>r, Parts DEF TypeInv, RequestRow
<1>3. \A o \in Request : req'[o] = IF o = q THEN r ELSE req[o]
  BY <1>1, Parts, OneRequestMoves
<1>4. \A o \in Request : ~Changing(req'[o])
  BY <1>1, <1>2, <1>3, Parts DEF PolicyInv, Changing
<1>5. settings'[1] = Default
  BY <1>1
<1> QED
  BY <1>4, <1>5 DEF PolicyOrder, OnePolicyChange, Changing

LEMMA OrderCommits ==
  ASSUME DetectionsInv, PolicyOrder, NEW q \in Request, CommitPolicy(q)
  PROVE  PolicyOrder'
<1>1. /\ Changing(req[q]) /\ contested' = contested
      /\ settings' = <<Updated(settings[1], req[q].was, req[q].want)>>
      /\ req' = [req EXCEPT ![q] = NoReq]
  BY DEF CommitPolicy, Changing
<1>2. CASE contested
  BY <1>1, <1>2 DEF PolicyOrder
<1>3. CASE ~contested
  <2>1. /\ req[q].was = settings[1] /\ \A o \in Request : Changing(req[o]) => o = q
    BY <1>1, <1>3 DEF PolicyOrder, OnePolicyChange, Changing
  <2>2. Accepted(req[q].want) /\ req[q].want \in Pair
    BY <1>1, TypeFacts DEF Shape, Changing, RequestRow
  <2>3. settings[1] \in Pair
    BY <1>1, Parts DEF PolicyInv, TypeInv, TypeOK, Changing
  <2>4. settings'[1] = req[q].want
    BY <1>1, <2>1, <2>2, <2>3, UpdatedPair
  <2>5. \A o \in Request : req'[o] = IF o = q THEN NoReq ELSE req[o]
    BY <1>1, Parts DEF TypeInv
  <2>6. \A o \in Request : ~Changing(req'[o])
    BY <2>1, <2>5 DEF NoReq, Changing
  <2> QED
    BY <2>2, <2>4, <2>6 DEF PolicyOrder, OnePolicyChange, Changing
<1> QED
  BY <1>2, <1>3

LEMMA OrderNext ==
  ASSUME DetectionsInv, PolicyOrder, Accepted(Default), [Next]_vars
  PROVE  PolicyOrder'
<1>1. CASE UNCHANGED vars
  BY <1>1, OrderQuiet DEF vars, tables, disk, history
<1>2. ASSUME NEW q \in Request, NEW source \in Source, NEW p \in Proba, Submit(q, source, p)
      PROVE  PolicyOrder'
  <2>r. PICK r : r = [NoReq EXCEPT !.kind = source, !.at = "thresholds", !.proba = p,
                                   !.path = IF source = "upload" THEN ops + 1 ELSE 0]
    OBVIOUS
  <2>1. Begin(q, r) /\ contested' = contested /\ settings' = settings /\ ~Changing(r)
    BY <1>2, <2>r DEF Submit, tables, disk, NoReq, Changing
  <2> QED
    BY <2>1, OrderBegins
<1>3. ASSUME NEW q \in Request, NEW want \in Pair, ChangePolicy(q, want)
      PROVE  PolicyOrder'
  <2>r. PICK r : r = [NoReq EXCEPT !.kind = "policy", !.at = "thresholds", !.want = want]
    OBVIOUS
  <2>1. Begin(q, r) /\ contested' = contested /\ settings' = settings /\ ~Changing(r)
    BY <1>3, <2>r DEF ChangePolicy, tables, disk, history, NoReq, Changing
  <2> QED
    BY <2>1, OrderBegins
<1>4. ASSUME NEW q \in Request, MissSettings(q) \/ StoreFile(q)
      PROVE  PolicyOrder'
  BY <1>4, OrderGoes DEF MissSettings, StoreFile, tables, disk, history
<1>5. ASSUME NEW q \in Request, ReadFails(q)
      PROVE  PolicyOrder'
  <2>1. contested' = contested /\ settings' = settings
    BY <1>5, FailsOrEnds
  <2>2. ASSUME NEW broken \in BOOLEAN, req[q].kind \in Source,
               req' = [req EXCEPT ![q] = FellBack(req[q], broken)]
        PROVE  PolicyOrder'
    <3>1. req[q] \in RequestRow
      BY Parts DEF TypeInv
    <3>2. FellBack(req[q], broken).at \in {"file", "insert"}
      BY <2>2, <3>1, FellBackType
    <3>3. ~Changing(FellBack(req[q], broken))
      BY <3>2 DEF Changing
    <3> QED
      BY <2>1, <2>2, <3>3, OrderMoves
  <2> QED
    BY <1>5, <2>1, <2>2, FailsOrEnds, OrderEnds
<1>6. ASSUME NEW q \in Request,
             Insert(q) \/ CommitDecision(q) \/ CommitPurge(q) \/ Die(q)
      PROVE  PolicyOrder'
  <2>1. Ends(q) /\ contested' = contested /\ settings' = settings
    BY <1>6 DEF Insert, CommitDecision, CommitPurge, Die, tables, disk
  <2> QED
    BY <2>1, OrderEnds
<1>7. ASSUME NEW q \in Request, NEW i \in DOMAIN scans, NEW kind \in Decision,
             NEW answer, OpenScan(q, i, kind, answer)
      PROVE  PolicyOrder'
  <2>r. PICK r : r = [NoReq EXCEPT !.kind = kind, !.at = "commit", !.items = {i},
                                   !.answer = answer, !.seen = scans[i]]
    OBVIOUS
  <2>1. Begin(q, r) /\ contested' = contested /\ settings' = settings
    BY <1>7, <2>r DEF OpenScan, tables, disk
  <2>2. ~Changing(r)
    BY <2>r DEF NoReq, Changing, Decision
  <2> QED
    BY <2>1, <2>2, OrderBegins
<1>8. ASSUME NEW q \in Request, NEW i \in DOMAIN scans, NEW answer, OpenReport(q, i, answer)
      PROVE  PolicyOrder'
  <2>r. PICK r : r = [NoReq EXCEPT !.kind = "review", !.at = "open", !.items = {i},
                                   !.answer = answer, !.report = reports[i]]
    OBVIOUS
  <2>1. Begin(q, r) /\ contested' = contested /\ settings' = settings
    BY <1>8, <2>r DEF OpenReport, tables, disk
  <2>2. ~Changing(r)
    BY <2>r DEF NoReq, Changing
  <2> QED
    BY <2>1, <2>2, OrderBegins
<1>9. ASSUME NEW q \in Request, NEW k, OpenPurge(q, k)
      PROVE  PolicyOrder'
  <2>r. PICK r : r = [NoReq EXCEPT !.kind = "purge", !.at = "commit",
                                   !.items = {i \in 1..k : ~scans[i].body_purged}]
    OBVIOUS
  <2>1. Begin(q, r) /\ contested' = contested /\ settings' = settings
    BY <1>9, <2>r DEF OpenPurge, tables, disk, history
  <2>2. ~Changing(r)
    BY <2>r DEF NoReq, Changing
  <2> QED
    BY <2>1, <2>2, OrderBegins
<1>10. ASSUME NEW q \in Request, OpenReported(q)
       PROVE  PolicyOrder'
  <2>1. PICK i \in req[q].items :
            req' = [req EXCEPT ![q].at = "commit", ![q].seen = scans[i]]
    BY <1>10 DEF OpenReported
  <2>r. PICK r : r = [req[q] EXCEPT !.at = "commit", !.seen = scans[i]]
    OBVIOUS
  <2>2. req' = [req EXCEPT ![q] = r]
    BY <2>1, <2>r, Parts DEF TypeInv
  <2>3. req[q].at = "open" /\ contested' = contested /\ settings' = settings
    BY <1>10 DEF OpenReported, tables, disk, history
  <2>4. req[q].kind # "policy"
    BY <2>3, TypeFacts DEF Shape
  <2>5. r.kind = req[q].kind
    BY <2>r, Parts DEF TypeInv, RequestRow
  <2>6. ~Changing(r)
    BY <2>4, <2>5 DEF Changing
  <2> QED
    BY <2>2, <2>3, <2>6, OrderMoves
<1>11. ASSUME NEW q \in Request, RequestStep(q)
       PROVE  PolicyOrder'
  <2>1. {"feedback", "release", "confirm"} \subseteq Decision
    BY DEF Decision
  <2> QED
    BY <1>2, <1>3, <1>4, <1>5, <1>6, <1>7, <1>8, <1>9, <1>10, <1>11, <2>1,
       OrderRead, OrderCreates, OrderCommits DEF RequestStep
<1>12. CASE ReplaceWeb
  <2>1. \A o \in Request : ~Changing(req'[o])
    BY <1>12 DEF ReplaceWeb, Changing, NoReq
  <2>2. contested' = contested /\ settings' = settings
    BY <1>12 DEF ReplaceWeb
  <2> QED
    BY <2>1, <2>2, OrderQuiet
<1> QED
  BY <1>1, <1>11, <1>12 DEF Next

\* The cut points in force are ordered unless two changes of them overlapped:
\* the route's check is enough for every interleaving but that one.
THEOREM PolicyStaysOrdered ==
  ASSUME Accepted(Default)
  PROVE  Spec => []PolicyIsOrdered
<1>1. Init => PolicyOrder
  BY NoReqShape DEF Init, PolicyOrder, OnePolicyChange
<1>2. DetectionsInv /\ PolicyOrder /\ [Next]_vars => PolicyOrder'
  BY OrderNext
<1>3. PolicyOrder => PolicyIsOrdered
  BY DEF PolicyOrder, OnePolicyChange, Accepted, PolicyIsOrdered
<1> QED
  BY <1>1, <1>2, <1>3, DetectionsInvariant, PTL DEF Spec

=============================================================================
