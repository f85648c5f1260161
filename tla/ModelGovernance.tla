-------------------------- MODULE ModelGovernance --------------------------
(***************************************************************************)
(* Which model classifies mail: corrections fold into a new candidate      *)
(* (tasks.retrain_task, ml/train.py), an administrator promotes a version  *)
(* (app.promote_model_version, ml/infer.promote), and every process        *)
(* notices before its next classification (ml/infer._ensure_current).      *)
(*                                                                         *)
(* Web and worker processes run on two hosts, each with a disk of its own  *)
(* that a restart sets back to the image; between them are an object store *)
(* (ml/artifact_store.py) and the database.  A training is a number, and   *)
(* so is a version; the five files of a version are kept together.  Every  *)
(* write of the store, a disk or the database that another process can see *)
(* is a step of its own, with the reads that lead up to it.                *)
(***************************************************************************)
EXTENDS Integers, FiniteSets

CONSTANTS
    Web,            \* gunicorn processes, on the web host
    Trainer,        \* Celery processes, on the worker host
    Classifier,     \* those of them that classify mail in the instance
    Correction,     \* feedback rows, one for each corrected scan
    MaxTrainings,   \* bound: trainings, the shipped model among them
    MaxPromotions,  \* bound: promotions
    Faults,         \* failures that may happen (names below)
    MaxFaults,      \* bound: how many
    MaxEvents       \* bound: trainings, promotions and failures together

FaultNames == {"crash", "restart", "store", "blind"}

ASSUME ModelGovernanceAssumption ==
    /\ Web \cap Trainer = {} /\ Classifier \subseteq Web \cup Trainer
    /\ MaxTrainings \in Nat \ {0}
    /\ MaxPromotions \in Nat /\ MaxFaults \in Nat /\ MaxEvents \in Nat
    /\ Faults \subseteq FaultNames

Proc   == Web \cup Trainer
Host   == {"web", "worker"}
Number == 1..MaxTrainings

HostOf(p) == IF p \in Web THEN "web" ELSE "worker"

VARIABLES
    row_of,          \* model_versions: the training its metrics are of; 0 none
    current,         \* versions whose row has is_current
    feedback,        \* state of each Feedback row
    purged,          \* corrections whose scan has lost its body
    in_store,        \* object store: the training under a version; 0 none
    remote_pointer,  \* object store: current.json; 0 before the first promotion
    on_disk,         \* artifacts directory of each host
    local_pointer,   \* current.json of each host
    loaded,          \* _state["version"] of each process; 0 for None
    loaded_run,      \* the training whose model is in its memory
    at, version, have, batch, folded,  \* locals of a request or task
    trainings, contents,      \* trainings so far; corrections in each
    since, blinded,           \* pointers seen during a classification (history)
    unsettled,  \* the last promotion died, was refused or overlapped (history)
    overlapped, \* requests and tasks that overlap with one of their kind
    contested,  \* versions taken by overlapping trainings (both history)
    promotions_left, faults_left

database == <<row_of, current, feedback, purged>>
store    == <<in_store, remote_pointer>>
disks    == <<on_disk, local_pointer>>
memory   == <<loaded, loaded_run>>
work     == <<version, have, batch, folded>>
learnt   == <<trainings, contents>>
asked    == <<since, blinded>>
history  == <<unsettled, overlapped, contested>>
budgets  == <<promotions_left, faults_left>>
vars == <<database, store, disks, memory, at, work, learnt, asked, history,
          budgets>>

Promoting == {"point", "put", "flag"}
Asking    == {"reload", "use"}
Training  == {"pick", "dump", "upload", "record"}
Place     == {"idle"} \cup Promoting \cup Asking \cup Training

TypeOK ==
    /\ row_of \in [Number -> 0..MaxTrainings]
    /\ current \subseteq Number
    /\ feedback \in [Correction -> {"none", "pending", "used"}]
    /\ purged \subseteq Correction
    /\ in_store \in [Number -> 0..MaxTrainings]
    /\ remote_pointer \in 0..MaxTrainings
    /\ on_disk \in [Host -> [Number -> 0..MaxTrainings]]
    /\ local_pointer \in [Host -> Number]
    /\ loaded \in [Proc -> 0..MaxTrainings]
    /\ loaded_run \in [Proc -> 0..MaxTrainings]
    /\ at \in [Proc -> Place]
    /\ version \in [Proc -> 0..MaxTrainings]
    /\ have \in [Proc -> 0..MaxTrainings]
    /\ batch \in [Proc -> SUBSET Correction]
    /\ folded \in [Proc -> SUBSET Correction]
    /\ trainings \in Number
    /\ contents \in [Number -> SUBSET Correction]
    /\ since \in [Proc -> SUBSET Number] /\ blinded \subseteq Proc
    /\ unsettled \in BOOLEAN
    /\ overlapped \subseteq Proc /\ contested \subseteq Number
    /\ promotions_left \in 0..MaxPromotions /\ faults_left \in 0..MaxFaults

\* The image ships version 1; seed_model_version_row has recorded it.
OnlyShipped == [n \in Number |-> IF n = 1 THEN 1 ELSE 0]

Init ==
    /\ row_of = OnlyShipped /\ current = {1}
    /\ feedback = [c \in Correction |-> "none"] /\ purged = {}
    /\ in_store = [n \in Number |-> 0] /\ remote_pointer = 0
    /\ on_disk = [h \in Host |-> OnlyShipped]
    /\ local_pointer = [h \in Host |-> 1]
    /\ loaded = [p \in Proc |-> 0] /\ loaded_run = [p \in Proc |-> 0]
    /\ at = [p \in Proc |-> "idle"]
    /\ version = [p \in Proc |-> 0] /\ have = [p \in Proc |-> 0]
    /\ batch = [p \in Proc |-> {}] /\ folded = [p \in Proc |-> {}]
    /\ trainings = 1 /\ contents = [n \in Number |-> {}]
    /\ since = [p \in Proc |-> {}] /\ blinded = {}
    /\ unsettled = FALSE /\ overlapped = {} /\ contested = {}
    /\ promotions_left = MaxPromotions /\ faults_left = MaxFaults

\* The bound on events leaves room for another one.
Room ==
    (trainings - 1) + (MaxPromotions - promotions_left) + (MaxFaults - faults_left)
        < MaxEvents

Fault(f) ==
    /\ f \in Faults /\ faults_left > 0 /\ Room
    /\ faults_left' = faults_left - 1
    /\ UNCHANGED promotions_left

Goes(p, place) == at' = [at EXCEPT ![p] = place]

Ends(p) ==
    /\ Goes(p, "idle")
    /\ version' = [version EXCEPT ![p] = 0]
    /\ have' = [have EXCEPT ![p] = 0]
    /\ batch' = [batch EXCEPT ![p] = {}]
    /\ folded' = [folded EXCEPT ![p] = {}]
    /\ overlapped' = overlapped \ {p}

\* History: p begins while the processes of others are at the same kind of work.
Overlaps(p, others) ==
    overlapped' = IF others = {} THEN overlapped \ {p}
                  ELSE overlapped \cup others \cup {p}

Registered == {v \in Number : row_of[v] # 0}

-----------------------------------------------------------------------------
\* Reading and loading.

\* Mutant of Pointer: the store is not asked.
PointerOnDisk(h) == local_pointer[h]

\* _pointer_version: the store's pointer, the disk's before there is one.
Pointer(h) == IF remote_pointer # 0 THEN remote_pointer ELSE local_pointer[h]

\* History: what is or becomes current while a classification runs.
PointerMoves ==
    since' = [p \in Proc |->
        IF at'[p] \in Asking THEN since[p] \cup {Pointer(HostOf(p))'} ELSE {}]

\* Any client error of the store reads as "nothing uploaded yet".
ReadsPointer(p, v) ==
    \/ /\ v = Pointer(HostOf(p))
       /\ UNCHANGED <<budgets, blinded>>
    \/ /\ v = local_pointer[HostOf(p)]
       /\ Fault("blind")
       /\ blinded' = blinded \cup {p}

\* The training a process gets from _load_version: cached on its disk, or
\* downloaded; 0 is an exception.
Fetched(h, v) == IF on_disk[h][v] # 0 THEN on_disk[h][v] ELSE in_store[v]

Caches(h, v) == on_disk' = [on_disk EXCEPT ![h][v] = Fetched(h, v)]

\* Mutant of UpToDate: the version is looked up only once.
UpToDateWhenLoaded(p, v) == loaded[p] # 0

UpToDate(p, v) == loaded[p] = v

\* classify or current_info: _ensure_current reads the pointer.
Ask(p) ==
    /\ p \in Classifier /\ at[p] = "idle"
    /\ \E v \in Number :
         /\ ReadsPointer(p, v)
         /\ Goes(p, IF UpToDate(p, v) THEN "use" ELSE "reload")
    /\ since' = [since EXCEPT ![p] = {Pointer(HostOf(p))}]
    /\ UNCHANGED <<database, store, disks, memory, work, learnt, history>>

\* reload reads the pointer a second time.
Reload(p) ==
    /\ at[p] = "reload"
    /\ \E v \in Number :
         /\ ReadsPointer(p, v)
         /\ Fetched(HostOf(p), v) # 0
         /\ Caches(HostOf(p), v)
         /\ loaded' = [loaded EXCEPT ![p] = v]
         /\ loaded_run' = [loaded_run EXCEPT ![p] = Fetched(HostOf(p), v)]
    /\ Goes(p, "use")
    /\ UNCHANGED <<database, store, local_pointer, work, learnt, since,
                   history>>

\* The download raises and with it the classification.
ReloadFails(p) ==
    /\ at[p] = "reload"
    /\ Fault("store")
    /\ Goes(p, "idle")
    /\ since' = [since EXCEPT ![p] = {}] /\ blinded' = blinded \ {p}
    /\ UNCHANGED <<database, store, disks, memory, work, learnt, history>>

\* The answer is given, with loaded[p] as its model_version.
Answer(p) ==
    /\ at[p] = "use"
    /\ Goes(p, "idle")
    /\ since' = [since EXCEPT ![p] = {}] /\ blinded' = blinded \ {p}
    /\ UNCHANGED <<database, store, disks, memory, work, learnt, history,
                   budgets>>

-----------------------------------------------------------------------------
\* Promotion, and rollback, which is the same.

\* The version has a row, and its files load.
Promote(p, v) ==
    /\ p \in Web /\ at[p] = "idle" /\ promotions_left > 0 /\ Room
    /\ v \in Registered
    /\ Fetched("web", v) # 0
    /\ Caches("web", v)
    /\ version' = [version EXCEPT ![p] = v]
    /\ have' = [have EXCEPT ![p] = Fetched("web", v)]
    /\ Goes(p, "point")
    /\ Overlaps(p, {q \in Web : at[q] \in Promoting})
    /\ promotions_left' = promotions_left - 1
    /\ UNCHANGED <<database, store, local_pointer, memory, batch, folded, learnt,
                   asked, unsettled, contested, faults_left>>

Point(p) ==
    /\ at[p] = "point"
    /\ local_pointer' = [local_pointer EXCEPT !["web"] = version[p]]
    /\ Goes(p, "put")
    /\ UNCHANGED <<database, store, on_disk, memory, work, learnt, blinded,
                   history, budgets>>
    /\ PointerMoves

Put(p) ==
    /\ at[p] = "put"
    /\ remote_pointer' = version[p]
    /\ loaded' = [loaded EXCEPT ![p] = version[p]]
    /\ loaded_run' = [loaded_run EXCEPT ![p] = have[p]]
    /\ Goes(p, "flag")
    /\ UNCHANGED <<database, in_store, disks, work, learnt, blinded, history,
                   budgets>>
    /\ PointerMoves

\* The store refuses: the request ends with an error, the disk's pointer moved.
PutFails(p) ==
    /\ at[p] = "put"
    /\ Fault("store")
    /\ Ends(p)
    /\ unsettled' = TRUE
    /\ UNCHANGED <<database, store, disks, memory, learnt, asked, contested>>

\* UPDATE ... SET is_current = FALSE; then the one row; one transaction.
Flag(p) ==
    /\ at[p] = "flag"
    /\ current' = {version[p]}
    /\ Ends(p)
    /\ unsettled' = (p \in overlapped)
    /\ UNCHANGED <<row_of, feedback, purged, store, disks, memory, learnt,
                   asked, contested, budgets>>

-----------------------------------------------------------------------------
\* Retraining.

\* The corrections not yet used, less those whose scan has lost its body.
Retrain(p) ==
    /\ p \in Trainer /\ at[p] = "idle" /\ trainings < MaxTrainings /\ Room
    /\ batch' = [batch EXCEPT ![p] = {c \in Correction : feedback[c] = "pending"}]
    /\ folded' = [folded EXCEPT
         ![p] = {c \in Correction : feedback[c] = "pending"} \ purged]
    /\ Goes(p, "pick")
    /\ Overlaps(p, {q \in Trainer : at[q] \in Training})
    /\ UNCHANGED <<database, store, disks, memory, version, have, learnt, asked,
                   unsettled, contested, budgets>>

\* Mutant of Taken: the directory alone is asked, as next_version once did.
TakenOnDisk == {v \in Number : on_disk["worker"][v] # 0}

\* Versions next_version knows of: directories and rows.
Taken == {v \in Number : on_disk["worker"][v] # 0} \cup Registered

\* One more than the largest of them.
IsNextVersion(v) == (\A u \in Taken : u < v) /\ v - 1 \in Taken \cup {0}

Pick(p) ==
    /\ at[p] = "pick"
    /\ \E v \in Number :
         /\ IsNextVersion(v)
         /\ version' = [version EXCEPT ![p] = v]
         /\ contested' = IF p \in overlapped THEN contested \cup {v} ELSE contested
    /\ Goes(p, "dump")
    /\ UNCHANGED <<database, store, disks, memory, have, batch, folded, learnt,
                   asked, unsettled, overlapped, budgets>>

Dump(p) ==
    /\ at[p] = "dump" /\ trainings < MaxTrainings /\ Room
    /\ trainings' = trainings + 1
    /\ contents' = [contents EXCEPT ![trainings + 1] = folded[p]]
    /\ on_disk' = [on_disk EXCEPT !["worker"][version[p]] = trainings + 1]
    /\ have' = [have EXCEPT ![p] = trainings + 1]
    /\ Goes(p, "upload")
    /\ UNCHANGED <<database, store, local_pointer, memory, version, batch, folded,
                   asked, history, budgets>>

\* Mutant of Upload: the new version goes live with its upload.
UploadAndPoint(p) ==
    /\ at[p] = "upload"
    /\ in_store' = [in_store EXCEPT ![version[p]] = on_disk["worker"][version[p]]]
    /\ remote_pointer' = version[p]
    /\ Goes(p, "record")
    /\ UNCHANGED <<database, disks, memory, work, learnt, asked, history,
                   budgets>>

Upload(p) ==
    /\ at[p] = "upload"
    /\ in_store' = [in_store EXCEPT ![version[p]] = on_disk["worker"][version[p]]]
    /\ Goes(p, "record")
    /\ UNCHANGED <<database, remote_pointer, disks, memory, work, learnt, asked,
                   history, budgets>>

UploadFails(p) ==
    /\ at[p] = "upload"
    /\ Fault("store")
    /\ Ends(p)
    /\ UNCHANGED <<database, store, disks, memory, learnt, asked, unsettled, contested>>

\* Mutant of Used: corrections given during the training are taken for used.
UsedAllPending(p) ==
    [c \in Correction |-> IF feedback[c] = "pending" THEN "used" ELSE feedback[c]]

Used(p) == [c \in Correction |-> IF c \in batch[p] THEN "used" ELSE feedback[c]]

\* The row and the marks are one transaction.
Record(p) ==
    /\ at[p] = "record" /\ version[p] \notin Registered
    /\ row_of' = [row_of EXCEPT ![version[p]] = have[p]]
    /\ feedback' = Used(p)
    /\ Ends(p)
    /\ UNCHANGED <<current, purged, store, disks, memory, learnt, asked,
                   unsettled, contested, budgets>>

\* The primary key is taken: nothing is recorded and the task fails.
RecordFails(p) ==
    /\ at[p] = "record" /\ version[p] \in Registered
    /\ Ends(p)
    /\ UNCHANGED <<database, store, disks, memory, learnt, asked, unsettled, contested,
                   budgets>>

-----------------------------------------------------------------------------
\* submit_feedback or a review decision.  The retention sweep matters here for
\* the scans of corrections that wait.
Correct(c) ==
    /\ feedback[c] = "none"
    /\ feedback' = [feedback EXCEPT ![c] = "pending"]
    /\ UNCHANGED <<row_of, current, purged, store, disks, memory, at, work,
                   learnt, asked, history, budgets>>

Purge(c) ==
    /\ c \notin purged /\ feedback[c] = "pending"
    /\ purged' = purged \cup {c}
    /\ UNCHANGED <<row_of, current, feedback, store, disks, memory, at, work,
                   learnt, asked, history, budgets>>

\* Processes die, singly or with their host, whose disk is then the image's.
Die(dead) ==
    /\ at' = [p \in Proc |-> IF p \in dead THEN "idle" ELSE at[p]]
    /\ version' = [p \in Proc |-> IF p \in dead THEN 0 ELSE version[p]]
    /\ have' = [p \in Proc |-> IF p \in dead THEN 0 ELSE have[p]]
    /\ batch' = [p \in Proc |-> IF p \in dead THEN {} ELSE batch[p]]
    /\ folded' = [p \in Proc |-> IF p \in dead THEN {} ELSE folded[p]]
    /\ loaded' = [p \in Proc |-> IF p \in dead THEN 0 ELSE loaded[p]]
    /\ loaded_run' = [p \in Proc |-> IF p \in dead THEN 0 ELSE loaded_run[p]]
    /\ blinded' = blinded \ dead
    /\ unsettled' = (unsettled \/ \E p \in dead : at[p] \in Promoting)
    /\ overlapped' = overlapped \ dead
    /\ UNCHANGED <<database, store, learnt, contested>>

Crash(p) ==
    /\ Fault("crash")
    /\ Die({p})
    /\ UNCHANGED disks
    /\ PointerMoves

\* A web host runs seed_model_version_row first: the version it finds current
\* has a row, so nothing is added.
Restart(h) ==
    /\ Fault("restart")
    /\ Die({p \in Proc : HostOf(p) = h})
    /\ on_disk' = [on_disk EXCEPT ![h] = OnlyShipped]
    /\ local_pointer' = [local_pointer EXCEPT ![h] = 1]
    /\ PointerMoves

Act(p) ==
    \/ Ask(p) \/ Reload(p) \/ ReloadFails(p) \/ Answer(p)
    \/ \E v \in Number : Promote(p, v)
    \/ Point(p) \/ Put(p) \/ PutFails(p) \/ Flag(p)
    \/ Retrain(p) \/ Pick(p) \/ Dump(p) \/ Upload(p) \/ UploadFails(p)
    \/ Record(p) \/ RecordFails(p)
    \/ Crash(p)

Next ==
    \/ \E p \in Proc : Act(p)
    \/ \E c \in Correction : Correct(c) \/ Purge(c)
    \/ \E h \in Host : Restart(h)

Spec == Init /\ [][Next]_vars

-----------------------------------------------------------------------------
\* The metrics recorded for a version are those of the model that the store,
\* every disk and every memory hold under its number, though hosts lose their
\* disks and trainings die half done: what was reviewed is what is served.
\* Two trainings at a time may take one number, which is the exception.
RowDescribesModel ==
    \A v \in Registered \ contested :
        /\ in_store[v] \in {0, row_of[v]}
        /\ \A h \in Host : on_disk[h][v] \in {0, row_of[v]}
        /\ \A p \in Proc : loaded[p] = v => loaded_run[p] = row_of[v]

\* A version that is live anywhere has a row, so that a training alone, or one
\* that died half done, never reaches the mail.
OnlyReviewedIsLive ==
    /\ remote_pointer \in Registered \cup {0}
    /\ \A p \in Proc : loaded[p] \in Registered \cup {0}

\* The version shown as current is the one new classifications use, unless
\* the last promotion died, was refused by the store or overlapped another.
CurrentIsServed ==
    ~unsettled /\ (\A p \in Web : at[p] \notin Promoting) =>
        \A h \in Host : current = {Pointer(h)}

\* A classification uses a version that was current at some time while it
\* ran: a process does not go on with the version it loaded long ago.
AnswersAreFresh ==
    \A p \in Proc \ blinded : at[p] = "use" => loaded[p] \in since[p]

\* A correction marked as used went into a recorded version, or its scan had
\* no body left; one given while a training runs waits for the next.  And
\* trainings that do not overlap never count a correction twice.
CorrectionsFoldedOnce ==
    /\ \A c \in Correction : feedback[c] = "used" =>
          c \in purged \/ \E v \in Registered : c \in contents[row_of[v]]
    /\ \A v, w \in Registered \ contested :
          v # w => contents[row_of[v]] \cap contents[row_of[w]] = {}
=============================================================================
