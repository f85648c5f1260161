----------------------- MODULE ModelGovernanceProofs -----------------------
(***************************************************************************)
(* What ModelGovernance guarantees for any number of processes, trainings, *)
(* corrections and failures.                                               *)
(***************************************************************************)
EXTENDS ModelGovernance, TLAPS

-----------------------------------------------------------------------------
\* Types.

LEMMA HostType == \A p : HostOf(p) \in Host
BY DEF HostOf, Host

LEMMA OneIsNumber == 1 \in Number
BY ModelGovernanceAssumption DEF Number

LEMMA PointerType == TypeOK => \A h \in Host : Pointer(h) \in Number
BY ModelGovernanceAssumption DEF TypeOK, Pointer, Number

LEMMA PointerMovesType ==
  ASSUME TypeOK, PointerMoves,
         remote_pointer' \in 0..MaxTrainings, local_pointer' \in [Host -> Number]
  PROVE  since' \in [Proc -> SUBSET Number]
<1>1. \A p \in Proc : Pointer(HostOf(p))' \in Number
  BY HostType, ModelGovernanceAssumption DEF Pointer, Number
<1> QED
  BY <1>1 DEF TypeOK, PointerMoves

LEMMA FetchedType ==
  TypeOK => \A h \in Host, v \in Number : Fetched(h, v) \in 0..MaxTrainings
BY DEF TypeOK, Fetched

LEMMA ReadsPointerType ==
  ASSUME TypeOK, NEW p \in Proc, NEW v \in Number, ReadsPointer(p, v)
  PROVE  faults_left' \in 0..MaxFaults /\ promotions_left' \in 0..MaxPromotions
         /\ blinded' \subseteq Proc
BY ModelGovernanceAssumption DEF TypeOK, ReadsPointer, Fault, budgets

LEMMA FaultType ==
  ASSUME TypeOK, NEW f, Fault(f)
  PROVE  faults_left' \in 0..MaxFaults /\ promotions_left' \in 0..MaxPromotions
BY ModelGovernanceAssumption DEF TypeOK, Fault

LEMMA EndsType ==
  ASSUME TypeOK, NEW p \in Proc, Ends(p)
  PROVE  /\ at' \in [Proc -> Place]
         /\ version' \in [Proc -> 0..MaxTrainings]
         /\ have' \in [Proc -> 0..MaxTrainings]
         /\ batch' \in [Proc -> SUBSET Correction]
         /\ folded' \in [Proc -> SUBSET Correction]
         /\ overlapped' \subseteq Proc
BY ModelGovernanceAssumption DEF TypeOK, Ends, Goes, Place

LEMMA DieType ==
  ASSUME TypeOK, NEW dead \in SUBSET Proc, Die(dead)
  PROVE  /\ at' \in [Proc -> Place]
         /\ version' \in [Proc -> 0..MaxTrainings]
         /\ have' \in [Proc -> 0..MaxTrainings]
         /\ batch' \in [Proc -> SUBSET Correction]
         /\ folded' \in [Proc -> SUBSET Correction]
         /\ loaded' \in [Proc -> 0..MaxTrainings]
         /\ loaded_run' \in [Proc -> 0..MaxTrainings]
         /\ blinded' \subseteq Proc
         /\ unsettled' \in BOOLEAN
         /\ overlapped' \subseteq Proc
<1>1. /\ at' \in [Proc -> Place]
      /\ version' \in [Proc -> 0..MaxTrainings]
      /\ have' \in [Proc -> 0..MaxTrainings]
      /\ loaded' \in [Proc -> 0..MaxTrainings]
      /\ loaded_run' \in [Proc -> 0..MaxTrainings]
  BY ModelGovernanceAssumption DEF TypeOK, Die, Place
<1>2. /\ batch' \in [Proc -> SUBSET Correction]
      /\ folded' \in [Proc -> SUBSET Correction]
  BY DEF TypeOK, Die
<1>3. blinded' \subseteq Proc /\ overlapped' \subseteq Proc
  BY DEF TypeOK, Die
<1>4. unsettled' \in BOOLEAN
  BY DEF Die
<1> QED
  BY <1>1, <1>2, <1>3, <1>4

\* What a promotion carries, which TypeOK does not say: a version to point at.
Carried == \A p \in Proc : at[p] \in Promoting => version[p] # 0

TypeInv == TypeOK /\ Carried

LEMMA TypeInit == Init => TypeInv
<1> SUFFICES ASSUME Init PROVE TypeInv
  OBVIOUS
<1>1. OnlyShipped \in [Number -> 0..MaxTrainings] /\ 1 \in 1..MaxTrainings
  BY ModelGovernanceAssumption DEF OnlyShipped, Number
<1>2. /\ row_of \in [Number -> 0..MaxTrainings]
      /\ in_store \in [Number -> 0..MaxTrainings]
      /\ on_disk \in [Host -> [Number -> 0..MaxTrainings]]
      /\ local_pointer \in [Host -> Number]
  BY <1>1, OneIsNumber, ModelGovernanceAssumption DEF Init
<1>3. current \subseteq Number /\ trainings \in Number
  BY OneIsNumber DEF Init
<1>4. /\ feedback \in [Correction -> {"none", "pending", "used"}]
      /\ purged \subseteq Correction
      /\ at \in [Proc -> Place]
      /\ batch \in [Proc -> SUBSET Correction]
      /\ folded \in [Proc -> SUBSET Correction]
      /\ contents \in [Number -> SUBSET Correction]
      /\ since \in [Proc -> SUBSET Number] /\ blinded \subseteq Proc
      /\ unsettled \in BOOLEAN
      /\ overlapped \subseteq Proc /\ contested \subseteq Number
  BY DEF Init, Place
<1>5. /\ loaded \in [Proc -> 0..MaxTrainings]
      /\ loaded_run \in [Proc -> 0..MaxTrainings]
      /\ version \in [Proc -> 0..MaxTrainings]
      /\ have \in [Proc -> 0..MaxTrainings]
      /\ remote_pointer \in 0..MaxTrainings
      /\ promotions_left \in 0..MaxPromotions /\ faults_left \in 0..MaxFaults
  BY ModelGovernanceAssumption DEF Init
<1>6. Carried
  BY DEF Init, Carried, Promoting
<1> QED
  BY <1>2, <1>3, <1>4, <1>5, <1>6 DEF TypeInv, TypeOK

\* Classifications.
LEMMA TypeAsking ==
  ASSUME TypeOK, NEW p \in Proc,
         Ask(p) \/ Reload(p) \/ ReloadFails(p) \/ Answer(p)
  PROVE  TypeOK'
<1> USE DEF TypeOK
<1>1. CASE Ask(p)
  <2>1. PICK v \in Number :
          /\ ReadsPointer(p, v)
          /\ Goes(p, IF UpToDate(p, v) THEN "use" ELSE "reload")
    BY <1>1 DEF Ask
  <2>2. at' \in [Proc -> Place]
    BY <2>1 DEF Goes, Place, Asking
  <2>3. since' \in [Proc -> SUBSET Number]
    BY <1>1, PointerType, HostType DEF Ask
  <2> QED
    BY <1>1, <2>1, <2>2, <2>3, ReadsPointerType
       DEF Ask, database, store, disks, memory, work, learnt, history
<1>2. CASE Reload(p)
  <2>1. PICK v \in Number :
          /\ ReadsPointer(p, v)
          /\ Caches(HostOf(p), v)
          /\ loaded' = [loaded EXCEPT ![p] = v]
          /\ loaded_run' = [loaded_run EXCEPT ![p] = Fetched(HostOf(p), v)]
    BY <1>2 DEF Reload
  <2>2. Fetched(HostOf(p), v) \in 0..MaxTrainings
    BY FetchedType, HostType
  <2>3. on_disk' \in [Host -> [Number -> 0..MaxTrainings]]
    BY <2>1, <2>2, HostType DEF Caches
  <2>4. at' \in [Proc -> Place]
    BY <1>2 DEF Reload, Goes, Place, Asking
  <2>5. loaded' \in [Proc -> 0..MaxTrainings]
    BY <2>1, ModelGovernanceAssumption DEF Number
  <2>6. loaded_run' \in [Proc -> 0..MaxTrainings]
    BY <2>1, <2>2
  <2> QED
    BY <1>2, <2>1, <2>3, <2>4, <2>5, <2>6, ReadsPointerType
       DEF Reload, database, store, work, learnt, history
<1>3. CASE ReloadFails(p)
  BY <1>3, FaultType DEF ReloadFails, Goes, Place, database, store, disks,
                         memory, work, learnt, history
<1>4. CASE Answer(p)
  BY <1>4 DEF Answer, Goes, Place, database, store, disks, memory, work,
              learnt, history, budgets
<1> QED
  BY <1>1, <1>2, <1>3, <1>4

\* Promotions.
LEMMA TypePromoting ==
  ASSUME TypeInv, NEW p \in Proc,
         \/ \E v \in Number : Promote(p, v)
         \/ Point(p) \/ Put(p) \/ PutFails(p) \/ Flag(p)
  PROVE  TypeOK'
<1> USE DEF TypeInv, TypeOK
<1>0. at[p] \in Promoting => version[p] \in Number
  BY DEF Carried, Number
<1>1. ASSUME NEW v \in Number, Promote(p, v)
      PROVE  TypeOK'
  <2>1. Fetched("web", v) \in 0..MaxTrainings /\ "web" \in Host
    BY FetchedType DEF Host
  <2>2. on_disk' \in [Host -> [Number -> 0..MaxTrainings]]
    BY <1>1, <2>1 DEF Promote, Caches
  <2>3. at' \in [Proc -> Place]
    BY <1>1 DEF Promote, Goes, Place, Promoting
  <2>4. /\ version' \in [Proc -> 0..MaxTrainings]
        /\ have' \in [Proc -> 0..MaxTrainings]
    <3>1. version' \in [Proc -> 0..MaxTrainings]
      BY <1>1, ModelGovernanceAssumption DEF Promote, Number
    <3>2. have' \in [Proc -> 0..MaxTrainings]
      BY <1>1, <2>1 DEF Promote
    <3> QED
      BY <3>1, <3>2
  <2>5. overlapped' \subseteq Proc
    BY <1>1 DEF Promote, Overlaps, Proc
  <2>6. promotions_left' \in 0..MaxPromotions
    BY <1>1, ModelGovernanceAssumption DEF Promote
  <2> QED
    BY <1>1, <2>2, <2>3, <2>4, <2>5, <2>6
       DEF Promote, database, store, memory, learnt, asked
<1>2. CASE Point(p)
  <2>1. version[p] \in Number
    BY <1>0, <1>2 DEF Point, Promoting
  <2>2. local_pointer' \in [Host -> Number]
    BY <1>2, <2>1 DEF Point
  <2>3. at' \in [Proc -> Place]
    BY <1>2 DEF Point, Goes, Place, Promoting
  <2>4. remote_pointer' \in 0..MaxTrainings
    BY <1>2 DEF Point, store
  <2>5. since' \in [Proc -> SUBSET Number]
    BY <1>2, <2>2, <2>4, PointerMovesType DEF Point
  <2> QED
    BY <1>2, <2>2, <2>3, <2>4, <2>5
       DEF Point, database, store, memory, work, learnt, history, budgets
<1>3. CASE Put(p)
  <2>1. remote_pointer' \in 0..MaxTrainings
    BY <1>3 DEF Put
  <2>2. at' \in [Proc -> Place]
    BY <1>3 DEF Put, Goes, Place, Promoting
  <2>3. since' \in [Proc -> SUBSET Number]
    BY <1>3, <2>1, PointerMovesType DEF Put, disks
  <2>4. /\ loaded' \in [Proc -> 0..MaxTrainings]
        /\ loaded_run' \in [Proc -> 0..MaxTrainings]
    BY <1>3 DEF Put
  <2> QED
    BY <1>3, <2>1, <2>2, <2>3, <2>4
       DEF Put, database, disks, work, learnt, history, budgets
<1>4. CASE PutFails(p)
  BY <1>4, FaultType, EndsType DEF PutFails, database, store, disks, memory,
                                   learnt, asked
<1>5. CASE Flag(p)
  <2>1. current' \subseteq Number
    BY <1>0, <1>5 DEF Flag, Promoting
  <2> QED
    BY <1>5, <2>1, EndsType DEF Flag, store, disks, memory, learnt, asked,
                                budgets
<1> QED
  BY <1>1, <1>2, <1>3, <1>4, <1>5

\* Retraining.
LEMMA TypeTraining ==
  ASSUME TypeOK, NEW p \in Proc,
         \/ Retrain(p) \/ Pick(p) \/ Dump(p) \/ Upload(p) \/ UploadFails(p)
         \/ Record(p) \/ RecordFails(p)
  PROVE  TypeOK'
<1> USE DEF TypeOK
<1>0. "worker" \in Host
  BY DEF Host
<1>1. CASE Retrain(p)
  <2>1. at' \in [Proc -> Place]
    BY <1>1 DEF Retrain, Goes, Place, Training
  <2>2. overlapped' \subseteq Proc
    BY <1>1 DEF Retrain, Overlaps, Proc
  <2>3. /\ batch' \in [Proc -> SUBSET Correction]
        /\ folded' \in [Proc -> SUBSET Correction]
    BY <1>1 DEF Retrain
  <2> QED
    BY <1>1, <2>1, <2>2, <2>3 DEF Retrain, database, store, disks, memory,
                                  learnt, asked, budgets
<1>2. CASE Pick(p)
  <2>1. at' \in [Proc -> Place]
    BY <1>2 DEF Pick, Goes, Place, Training
  <2>2. PICK v \in Number :
          /\ version' = [version EXCEPT ![p] = v]
          /\ contested' = IF p \in overlapped THEN contested \cup {v}
                          ELSE contested
    BY <1>2 DEF Pick
  <2>3. version' \in [Proc -> 0..MaxTrainings] /\ contested' \subseteq Number
    BY <2>2, ModelGovernanceAssumption DEF Number
  <2> QED
    BY <1>2, <2>1, <2>3 DEF Pick, database, store, disks, memory, learnt,
                            asked, budgets
<1>3. CASE Dump(p)
  <2>1. trainings' \in Number /\ trainings + 1 \in 0..MaxTrainings
    BY <1>3, ModelGovernanceAssumption DEF Dump, Number
  <2>2. at' \in [Proc -> Place]
    BY <1>3 DEF Dump, Goes, Place, Training
  <2>3. contents' \in [Number -> SUBSET Correction]
    BY <1>3 DEF Dump
  <2>4. on_disk' \in [Host -> [Number -> 0..MaxTrainings]]
    BY <1>0, <1>3, <2>1 DEF Dump
  <2>5. have' \in [Proc -> 0..MaxTrainings]
    BY <1>3, <2>1 DEF Dump
  <2> QED
    BY <1>3, <2>1, <2>2, <2>3, <2>4, <2>5
       DEF Dump, database, store, memory, asked, history, budgets
<1>4. CASE Upload(p)
  <2>1. at' \in [Proc -> Place]
    BY <1>4 DEF Upload, Goes, Place, Training
  <2>2. in_store' \in [Number -> 0..MaxTrainings]
    <3>1. CASE version[p] \in Number
      BY <1>0, <1>4, <3>1 DEF Upload
    <3>2. CASE version[p] \notin Number
      BY <1>4, <3>2 DEF Upload
    <3> QED
      BY <3>1, <3>2
  <2> QED
    BY <1>4, <2>1, <2>2 DEF Upload, database, disks, memory, work, learnt,
                            asked, history, budgets
<1>5. CASE UploadFails(p)
  BY <1>5, FaultType, EndsType DEF UploadFails, database, store, disks, memory,
                                   learnt, asked
<1>6. CASE Record(p)
  <2>1. row_of' \in [Number -> 0..MaxTrainings]
    BY <1>6 DEF Record
  <2>2. feedback' \in [Correction -> {"none", "pending", "used"}]
    BY <1>6 DEF Record, Used
  <2> QED
    BY <1>6, <2>1, <2>2, EndsType DEF Record, store, disks, memory, learnt,
                                      asked, budgets
<1>7. CASE RecordFails(p)
  BY <1>7, EndsType DEF RecordFails, database, store, disks, memory, learnt,
                        asked, budgets
<1> QED
  BY <1>1, <1>2, <1>3, <1>4, <1>5, <1>6, <1>7

\* Corrections, and processes that die.
LEMMA TypeElsewhere ==
  ASSUME TypeOK,
         \/ \E c \in Correction : Correct(c) \/ Purge(c)
         \/ \E p \in Proc : Crash(p)
         \/ \E h \in Host : Restart(h)
         \/ UNCHANGED vars
  PROVE  TypeOK'
<1> USE DEF TypeOK
<1>1. ASSUME NEW c \in Correction, Correct(c) \/ Purge(c)
      PROVE  TypeOK'
  BY <1>1 DEF Correct, Purge, store, disks, memory, work, learnt, asked,
              history, budgets
<1>2. ASSUME NEW p \in Proc, Crash(p)
      PROVE  TypeOK'
  <2>1. Die({p}) /\ {p} \in SUBSET Proc
    BY <1>2 DEF Crash
  <2>2. since' \in [Proc -> SUBSET Number]
    BY <1>2, PointerMovesType DEF Crash, Die, disks, store
  <2> QED
    BY <1>2, <2>1, <2>2, DieType, FaultType
       DEF Crash, Die, database, store, disks, learnt
<1>3. ASSUME NEW h \in Host, Restart(h)
      PROVE  TypeOK'
  <2>1. OnlyShipped \in [Number -> 0..MaxTrainings]
    BY ModelGovernanceAssumption DEF OnlyShipped, Number
  <2>2. /\ on_disk' \in [Host -> [Number -> 0..MaxTrainings]]
        /\ local_pointer' \in [Host -> Number]
    BY <1>3, <2>1, OneIsNumber DEF Restart
  <2>3. Die({q \in Proc : HostOf(q) = h})
    BY <1>3 DEF Restart
  <2>4. since' \in [Proc -> SUBSET Number]
    BY <1>3, <2>2, PointerMovesType DEF Restart, Die, store
  <2> QED
    BY <1>3, <2>2, <2>3, <2>4, DieType, FaultType
       DEF Restart, Die, database, store, learnt
<1>4. CASE UNCHANGED vars
  BY <1>4 DEF vars, database, store, disks, memory, work, learnt, asked,
              history, budgets
<1> QED
  BY <1>1, <1>2, <1>3, <1>4

\* A promotion goes on with the version it began with.
LEMMA CarriedNext ==
  ASSUME TypeInv, [Next]_vars
  PROVE  Carried'
<1> USE DEF TypeInv, TypeOK
<1> SUFFICES ASSUME NEW p \in Proc, at'[p] \in Promoting
             PROVE  version'[p] # 0
  BY DEF Carried
<1>1. CASE at'[p] = at[p] /\ version'[p] = version[p]
  BY <1>1 DEF Carried
<1>2. CASE at[p] \in Promoting /\ version'[p] = version[p]
  BY <1>2 DEF Carried
<1>3. ASSUME NEW v \in Number, Promote(p, v)
      PROVE  version'[p] # 0
  BY <1>3 DEF Promote, Number
<1>4. ASSUME Act(p), \A v \in Number : ~Promote(p, v)
      PROVE  version'[p] # 0
  <2>1. CASE Point(p) \/ Put(p)
    BY <1>2, <2>1 DEF Point, Put, work, Promoting
  <2>2. CASE Crash(p)
    BY <2>2 DEF Crash, Die, Promoting
  <2>3. CASE \/ Ask(p) \/ Reload(p) \/ ReloadFails(p) \/ Answer(p)
    BY <2>3 DEF Ask, Reload, ReloadFails, Answer, Goes, Promoting
  <2>4. CASE PutFails(p) \/ Flag(p) \/ UploadFails(p) \/ Record(p)
             \/ RecordFails(p)
    BY <2>4 DEF PutFails, Flag, UploadFails, Record, RecordFails, Ends, Goes,
                Promoting
  <2>5. CASE Retrain(p) \/ Pick(p) \/ Dump(p) \/ Upload(p)
    BY <2>5 DEF Retrain, Pick, Dump, Upload, Goes, Promoting
  <2> QED
    BY <1>4, <2>1, <2>2, <2>3, <2>4, <2>5 DEF Act
<1>5. ASSUME NEW q \in Proc \ {p}, Act(q)
      PROVE  version'[p] # 0
  <2>1. at'[p] = at[p] /\ version'[p] = version[p]
    <3>1. CASE Ask(q) \/ Reload(q) \/ ReloadFails(q) \/ Answer(q)
      BY <1>5, <3>1 DEF Ask, Reload, ReloadFails, Answer, Goes, work
    <3>2. CASE (\E v \in Number : Promote(q, v)) \/ Point(q) \/ Put(q)
               \/ PutFails(q) \/ Flag(q)
      BY <1>5, <3>2 DEF Promote, Point, Put, PutFails, Flag, Ends, Goes, work
    <3>3. CASE Retrain(q) \/ Pick(q) \/ Dump(q) \/ Upload(q) \/ UploadFails(q)
               \/ Record(q) \/ RecordFails(q)
      BY <1>5, <3>3 DEF Retrain, Pick, Dump, Upload, UploadFails, Record,
                        RecordFails, Ends, Goes, work
    <3>4. CASE Crash(q)
      BY <1>5, <3>4 DEF Crash, Die
    <3> QED
      BY <1>5, <3>1, <3>2, <3>3, <3>4 DEF Act
  <2> QED
    BY <1>1, <2>1
<1>6. ASSUME NEW c \in Correction, Correct(c) \/ Purge(c)
      PROVE  version'[p] # 0
  BY <1>1, <1>6 DEF Correct, Purge, work
<1>7. ASSUME NEW h \in Host, Restart(h)
      PROVE  version'[p] # 0
  BY <1>1, <1>7 DEF Restart, Die, Promoting
<1>8. CASE UNCHANGED vars
  BY <1>1, <1>8 DEF vars, work
<1> QED
  BY <1>3, <1>4, <1>5, <1>6, <1>7, <1>8 DEF Next

LEMMA TypeNext == TypeInv /\ [Next]_vars => TypeInv'
<1> SUFFICES ASSUME TypeInv, [Next]_vars
             PROVE  TypeInv'
  OBVIOUS
<1>1. ASSUME NEW p \in Proc, Act(p)
      PROVE  TypeOK'
  BY <1>1, TypeAsking, TypePromoting, TypeTraining, TypeElsewhere
     DEF Act, TypeInv
<1>2. TypeOK'
  BY <1>1, TypeElsewhere DEF Next, TypeInv
<1> QED
  BY <1>2, CarriedNext DEF TypeInv

\* The type invariant of model governance.
THEOREM TypeCorrect == Spec => []TypeOK
<1>1. TypeInv => TypeOK
  BY DEF TypeInv
<1> QED
  BY <1>1, TypeInit, TypeNext, PTL DEF Spec

-----------------------------------------------------------------------------
\* Who is at what kind of work, and who knows of an overlap.
Posted ==
    \A p \in Proc : /\ at[p] \in Promoting => p \in Web
                    /\ at[p] \in Training => p \in Trainer

\* Two processes at the same kind of work are both down as overlapping.
OverlapsAreKnown ==
    \A p, q \in Proc :
        /\ p # q
        /\ \/ at[p] \in Promoting /\ at[q] \in Promoting
           \/ at[p] \in Training /\ at[q] \in Training
        => p \in overlapped

WorkInv == Posted /\ OverlapsAreKnown

\* What another process does leaves the locals of p alone, unless p dies.
LEMMA OthersLocals ==
  ASSUME TypeInv, [Next]_vars, NEW p \in Proc, ~Act(p)
  PROVE  \/ UNCHANGED <<at[p], version[p], have[p], loaded[p], loaded_run[p],
                        batch[p], folded[p]>>
         \/ at'[p] = "idle" /\ loaded'[p] = 0
<1> USE DEF TypeInv, TypeOK
<1> DEFINE Same == UNCHANGED <<at[p], version[p], have[p], loaded[p],
                               loaded_run[p], batch[p], folded[p]>>
<1>1. ASSUME NEW q \in Proc \ {p}, Act(q)
      PROVE  Same
  <2>1. CASE Ask(q) \/ Reload(q) \/ ReloadFails(q) \/ Answer(q)
    BY <1>1, <2>1 DEF Ask, Reload, ReloadFails, Answer, Goes, work, memory
  <2>2. CASE (\E v \in Number : Promote(q, v)) \/ Point(q) \/ Put(q)
             \/ PutFails(q) \/ Flag(q)
    BY ZenonT(40), <1>1, <2>2 DEF Promote, Point, Put, PutFails, Flag, Ends, Goes, work,
                      memory
  <2>3. CASE Retrain(q) \/ Pick(q) \/ Dump(q) \/ Upload(q) \/ UploadFails(q)
             \/ Record(q) \/ RecordFails(q)
    BY <1>1, <2>3 DEF Retrain, Pick, Dump, Upload, UploadFails, Record,
                      RecordFails, Ends, Goes, work, memory
  <2>4. CASE Crash(q)
    BY <1>1, <2>4 DEF Crash, Die
  <2> QED
    BY <1>1, <2>1, <2>2, <2>3, <2>4 DEF Act
<1>2. ASSUME NEW c \in Correction, Correct(c) \/ Purge(c)
      PROVE  Same
  BY <1>2 DEF Correct, Purge, work, memory
<1>3. ASSUME NEW h \in Host, Restart(h)
      PROVE  Same \/ (at'[p] = "idle" /\ loaded'[p] = 0)
  BY <1>3 DEF Restart, Die
<1>4. CASE UNCHANGED vars
  BY <1>4 DEF vars, work, memory
<1> QED
  BY <1>1, <1>2, <1>3, <1>4 DEF Next

\* Work of either kind is begun by the action that stands at its head.
LEMMA WorkBegins ==
  ASSUME TypeInv, [Next]_vars, NEW p \in Proc
  PROVE  /\ at'[p] \in Promoting =>
              at[p] \in Promoting \/ \E v \in Number : Promote(p, v)
         /\ at'[p] \in Training => at[p] \in Training \/ Retrain(p)
<1> USE DEF TypeInv, TypeOK
<1>1. CASE at'[p] = at[p] \/ at'[p] = "idle"
  BY <1>1 DEF Promoting, Training
<1>2. CASE Act(p)
  <2>1. CASE Ask(p) \/ Reload(p) \/ ReloadFails(p) \/ Answer(p)
    BY <2>1 DEF Ask, Reload, ReloadFails, Answer, Goes, Promoting, Training
  <2>2. CASE \E v \in Number : Promote(p, v)
    BY <2>2 DEF Promote, Goes, Promoting, Training
  <2>3. CASE Point(p) \/ Put(p)
    BY <2>3 DEF Point, Put, Goes, Promoting, Training
  <2>4. CASE PutFails(p) \/ Flag(p) \/ UploadFails(p) \/ Record(p)
             \/ RecordFails(p)
    BY <1>1, <2>4 DEF PutFails, Flag, UploadFails, Record, RecordFails, Ends,
                      Goes
  <2>5. CASE Retrain(p) \/ Pick(p) \/ Dump(p) \/ Upload(p)
    BY <2>5 DEF Retrain, Pick, Dump, Upload, Goes, Promoting, Training
  <2>6. CASE Crash(p)
    BY <1>1, <2>6 DEF Crash, Die
  <2> QED
    BY <1>2, <2>1, <2>2, <2>3, <2>4, <2>5, <2>6 DEF Act
<1>3. CASE ~Act(p)
  BY <1>1, <1>3, OthersLocals
<1> QED
  BY <1>2, <1>3

\* An overlap is forgotten only when its process is done, or dies.
LEMMA OverlapStays ==
  ASSUME TypeInv, Posted, [Next]_vars, NEW p \in Proc, p \in overlapped,
         at[p] \in Promoting \cup Training, at'[p] # "idle"
  PROVE  p \in overlapped'
<1> USE DEF TypeInv, TypeOK
<1>1. CASE UNCHANGED overlapped
  BY <1>1
<1>2. ASSUME NEW q \in Proc, NEW v \in Number, Promote(q, v)
      PROVE  p \in overlapped'
  BY <1>2 DEF Promote, Overlaps, Promoting, Training
<1>3. ASSUME NEW q \in Proc, Retrain(q)
      PROVE  p \in overlapped'
  BY <1>3 DEF Retrain, Overlaps, Promoting, Training
<1>4. ASSUME NEW q \in Proc, Ends(q)
      PROVE  p \in overlapped'
  BY <1>4 DEF Ends, Goes
<1>5. ASSUME NEW q \in Proc, Act(q), \A v \in Number : ~Promote(q, v), ~Retrain(q)
      PROVE  p \in overlapped'
  <2>1. CASE \/ Ask(q) \/ Reload(q) \/ ReloadFails(q) \/ Answer(q) \/ Point(q)
             \/ Put(q) \/ Pick(q) \/ Dump(q) \/ Upload(q)
    BY <1>1, <2>1 DEF Ask, Reload, ReloadFails, Answer, Point, Put, Pick, Dump,
                      Upload, history
  <2>2. CASE PutFails(q) \/ Flag(q) \/ UploadFails(q) \/ Record(q)
             \/ RecordFails(q)
    BY <1>4, <2>2 DEF PutFails, Flag, UploadFails, Record, RecordFails
  <2>3. CASE Crash(q)
    BY <2>3 DEF Crash, Die
  <2> QED
    BY <1>5, <2>1, <2>2, <2>3 DEF Act
<1>6. ASSUME NEW c \in Correction, Correct(c) \/ Purge(c)
      PROVE  p \in overlapped'
  BY <1>1, <1>6 DEF Correct, Purge, history
<1>7. ASSUME NEW h \in Host, Restart(h)
      PROVE  p \in overlapped'
  BY <1>7 DEF Restart, Die
<1>8. CASE UNCHANGED vars
  BY <1>1, <1>8 DEF vars, history
<1> QED
  BY <1>2, <1>3, <1>5, <1>6, <1>7, <1>8 DEF Next

\* Whoever begins sees who is at it already, and they learn of it.
LEMMA BeginnersOverlap ==
  ASSUME TypeInv, Posted, NEW p \in Proc, NEW q \in Proc, p # q,
         \/ at'[q] \in Promoting /\ \E v \in Number : Promote(p, v)
         \/ at'[q] \in Training /\ Retrain(p)
  PROVE  p \in overlapped' /\ q \in overlapped'
<1> USE DEF TypeInv, TypeOK
<1>1. ASSUME NEW v \in Number, Promote(p, v), at'[q] \in Promoting
      PROVE  p \in overlapped' /\ q \in overlapped'
  <2>1. at'[q] = at[q]
    BY <1>1 DEF Promote, Goes
  <2>2. q \in {r \in Web : at[r] \in Promoting}
    BY <1>1, <2>1 DEF Posted
  <2> QED
    BY <1>1, <2>2 DEF Promote, Overlaps
<1>2. CASE Retrain(p) /\ at'[q] \in Training
  <2>1. at'[q] = at[q]
    BY <1>2 DEF Retrain, Goes
  <2>2. q \in {r \in Trainer : at[r] \in Training}
    BY <1>2, <2>1 DEF Posted
  <2> QED
    BY <1>2, <2>2 DEF Retrain, Overlaps
<1> QED
  BY <1>1, <1>2

LEMMA WorkNext == TypeInv /\ WorkInv /\ [Next]_vars => WorkInv'
<1> SUFFICES ASSUME TypeInv, WorkInv, [Next]_vars
             PROVE  WorkInv'
  OBVIOUS
<1>1. Posted'
  <2> SUFFICES ASSUME NEW p \in Proc
               PROVE  /\ at'[p] \in Promoting => p \in Web
                      /\ at'[p] \in Training => p \in Trainer
    BY DEF Posted
  <2> QED
    BY WorkBegins DEF WorkInv, Posted, Promote, Retrain
<1>2. OverlapsAreKnown'
  <2> SUFFICES ASSUME NEW p \in Proc, NEW q \in Proc, p # q,
                      \/ at'[p] \in Promoting /\ at'[q] \in Promoting
                      \/ at'[p] \in Training /\ at'[q] \in Training
               PROVE  p \in overlapped'
    BY DEF OverlapsAreKnown
  <2>1. at'[p] # "idle" /\ (at'[p] \in Promoting => at'[p] \notin Training)
    BY DEF Promoting, Training
  <2>2. CASE \/ at[p] \in Promoting /\ at[q] \in Promoting
             \/ at[p] \in Training /\ at[q] \in Training
    BY <2>1, <2>2, OverlapStays DEF WorkInv, OverlapsAreKnown
  <2>3. CASE at'[p] \in Promoting /\ at'[q] \in Promoting
    BY <2>2, <2>3, WorkBegins, BeginnersOverlap DEF WorkInv
  <2>4. CASE at'[p] \in Training /\ at'[q] \in Training
    BY <2>2, <2>4, WorkBegins, BeginnersOverlap DEF WorkInv
  <2> QED
    BY <2>3, <2>4
<1> QED
  BY <1>1, <1>2 DEF WorkInv

-----------------------------------------------------------------------------
\* What is recorded is what is served.  Trainings may overlap: what is said of
\* versions and their models leaves out the numbers that two of them have taken.
RecordsAgree ==
    /\ row_of[1] = 1 /\ 1 \notin contested /\ \A h \in Host : on_disk[h][1] = 1
    /\ \A v \in Registered \ contested :
        /\ in_store[v] = row_of[v] \/ (v = 1 /\ in_store[v] = 0)
        /\ \A h \in Host : on_disk[h][v] \in {0, row_of[v]}
    /\ \A v \in Number : on_disk["web"][v] # 0 => v \in Registered

PointersAgree ==
    /\ remote_pointer \in Registered \cup {0}
    /\ \A h \in Host : local_pointer[h] \in Registered

LoadedAgrees(p) ==
    loaded[p] # 0 =>
        /\ loaded[p] \in Registered
        /\ loaded[p] \notin contested => loaded_run[p] = row_of[loaded[p]]

PromotionAgrees(p) ==
    at[p] \in Promoting =>
        /\ version[p] \in Registered
        /\ version[p] \notin contested => have[p] = row_of[version[p]]

\* The number a training works on is nobody else's and has no row.
Numbered == {"dump", "upload", "record"}

NumberAgrees(p) ==
    at[p] \in Numbered =>
        /\ version[p] \in Number
        /\ version[p] \in Registered => version[p] \in contested
        /\ \A q \in Proc \ {p} :
              at[q] \in Numbered /\ version[q] = version[p] => version[p] \in contested

FilesAgree(p) ==
    /\ at[p] \in {"upload", "record"} =>
          /\ have[p] # 0
          /\ version[p] \in contested \/ on_disk["worker"][version[p]] = have[p]
    /\ at[p] = "record" => version[p] \in contested \/ in_store[version[p]] = have[p]

ModelInv ==
    /\ WorkInv /\ RecordsAgree /\ PointersAgree
    /\ \A p \in Proc : /\ LoadedAgrees(p) /\ PromotionAgrees(p)
                       /\ NumberAgrees(p) /\ FilesAgree(p)

\* What a process fetches of a recorded version is the model recorded.
LEMMA FetchedIsRecorded ==
  ASSUME TypeInv, RecordsAgree
  PROVE  \A h \in Host, v \in Registered \ contested :
            Fetched(h, v) # 0 => Fetched(h, v) = row_of[v]
BY DEF Fetched, RecordsAgree, Registered

LEMMA PointedIsRecorded ==
  ASSUME TypeInv, PointersAgree
  PROVE  \A h \in Host : Pointer(h) \in Registered /\ local_pointer[h] \in Registered
BY DEF Pointer, PointersAgree

LEMMA ReadsRecorded ==
  ASSUME TypeInv, PointersAgree, NEW p \in Proc, NEW v \in Number,
         ReadsPointer(p, v)
  PROVE  v \in Registered
BY PointedIsRecorded, HostType DEF ReadsPointer

LEMMA ModelInit == Init => ModelInv
<1> SUFFICES ASSUME Init PROVE ModelInv
  OBVIOUS
<1>1. Registered = {1} /\ OnlyShipped[1] = 1 /\ row_of[1] = 1
  BY OneIsNumber DEF Init, OnlyShipped, Registered
<1>2. WorkInv
  BY DEF Init, WorkInv, Posted, OverlapsAreKnown, Promoting, Training
<1>3. RecordsAgree
  BY <1>1, OneIsNumber DEF Init, RecordsAgree, OnlyShipped, Host
<1>4. PointersAgree
  BY <1>1 DEF Init, PointersAgree
<1> QED
  BY <1>2, <1>3, <1>4 DEF Init, ModelInv, LoadedAgrees, PromotionAgrees,
                          NumberAgrees, FilesAgree, Promoting, Numbered

\* The ways a step can write rows, the store or a disk.
Caching == \E h \in Host, v \in Registered :
               /\ Fetched(h, v) # 0 /\ Caches(h, v)
               /\ UNCHANGED <<row_of, in_store>>

Wiping == \E h \in Host :
              /\ Restart(h)
              /\ on_disk' = [on_disk EXCEPT ![h] = OnlyShipped]
              /\ UNCHANGED <<row_of, in_store>>

LEMMA DataStep ==
  ASSUME TypeInv, PointersAgree, [Next]_vars
  PROVE  \/ UNCHANGED <<row_of, in_store, on_disk>>
         \/ Caching
         \/ \E p \in Proc : Dump(p) \/ Upload(p) \/ Record(p)
         \/ Wiping
<1>1. ASSUME NEW p \in Proc, Reload(p)
      PROVE  Caching
  <2>1. PICK v \in Number :
          /\ ReadsPointer(p, v)
          /\ Fetched(HostOf(p), v) # 0
          /\ Caches(HostOf(p), v)
    BY <1>1 DEF Reload
  <2>2. v \in Registered
    BY <2>1, ReadsRecorded
  <2> QED
    BY <1>1, <2>1, <2>2, HostType DEF Reload, Caching, database, store
<1>2. ASSUME NEW p \in Proc, NEW v \in Number, Promote(p, v)
      PROVE  Caching
  BY <1>2 DEF Promote, Caching, database, store, Host
<1>3. ASSUME NEW h \in Host, Restart(h)
      PROVE  Wiping
  BY <1>3 DEF Restart, Wiping, Die, database, store
<1>4. ASSUME NEW p \in Proc, Act(p), \A v \in Number : ~Promote(p, v), ~Reload(p),
             ~Dump(p), ~Upload(p), ~Record(p)
      PROVE  UNCHANGED <<row_of, in_store, on_disk>>
  BY <1>4 DEF Act, Ask, ReloadFails, Answer, Point, Put, PutFails, Flag, Retrain,
              Pick, UploadFails, RecordFails, Crash, Die, database, store, disks
<1>5. ASSUME NEW c \in Correction, Correct(c) \/ Purge(c)
      PROVE  UNCHANGED <<row_of, in_store, on_disk>>
  BY <1>5 DEF Correct, Purge, store, disks
<1>6. CASE UNCHANGED vars
  BY <1>6 DEF vars, database, store, disks
<1> QED
  BY <1>1, <1>2, <1>3, <1>4, <1>5, <1>6 DEF Next

\* What has a row keeps it.
LEMMA RecordedStable ==
  ASSUME TypeInv, PointersAgree, [Next]_vars
  PROVE  \A v \in Registered : v \in Registered' /\ row_of'[v] = row_of[v]
<1>1. CASE UNCHANGED row_of
  BY <1>1 DEF Registered
<1>2. ASSUME NEW p \in Proc, Record(p)
      PROVE  \A v \in Registered : v \in Registered' /\ row_of'[v] = row_of[v]
  BY <1>2 DEF Record, Registered, TypeInv, TypeOK
<1> QED
  BY <1>1, <1>2, DataStep DEF Caching, Wiping, Dump, Upload, database

\* A number becomes contested before it can have a row.
LEMMA ContestedStable ==
  ASSUME TypeInv, [Next]_vars
  PROVE  /\ \A v \in Registered : v \in contested' <=> v \in contested
         /\ contested \subseteq contested'
<1> USE DEF TypeInv, TypeOK
<1>1. CASE UNCHANGED contested
  BY <1>1
<1>2. ASSUME NEW p \in Proc, Pick(p)
      PROVE  /\ \A v \in Registered : v \in contested' <=> v \in contested
             /\ contested \subseteq contested'
  <2>1. PICK v \in Number :
          /\ IsNextVersion(v)
          /\ contested' = IF p \in overlapped THEN contested \cup {v}
                          ELSE contested
    BY <1>2 DEF Pick
  <2>2. v \notin Registered
    <3>1. \A u \in Number : ~(u < u)
      BY ModelGovernanceAssumption DEF Number
    <3> QED
      BY <2>1, <3>1 DEF IsNextVersion, Taken
  <2> QED
    BY <2>1, <2>2
<1>3. ASSUME NEW p \in Proc, Act(p), ~Pick(p)
      PROVE  UNCHANGED contested
  BY <1>3 DEF Act, Ask, Reload, ReloadFails, Answer, Promote, Point, Put,
     PutFails, Flag, Retrain, Dump, Upload, UploadFails, Record, RecordFails,
     Crash, Die, history
<1>4. ASSUME NEW c \in Correction, Correct(c) \/ Purge(c)
      PROVE  UNCHANGED contested
  BY <1>4 DEF Correct, Purge, history
<1>5. ASSUME NEW h \in Host, Restart(h)
      PROVE  UNCHANGED contested
  BY <1>5 DEF Restart, Die
<1>6. CASE UNCHANGED vars
  BY <1>6 DEF vars, history
<1> QED
  BY <1>1, <1>2, <1>3, <1>4, <1>5, <1>6 DEF Next

LEMMA RecordsAgreeNext ==
  ASSUME TypeInv, ModelInv, [Next]_vars
  PROVE  RecordsAgree'
<1> USE DEF TypeInv, TypeOK
<1>0. /\ RecordsAgree /\ PointersAgree /\ 1 \in Registered
      /\ \A v \in Registered : v \in contested' <=> v \in contested
      /\ contested \subseteq contested'
  BY OneIsNumber, ContestedStable DEF ModelInv, RecordsAgree, Registered
<1>1. CASE UNCHANGED <<row_of, in_store, on_disk>>
  BY <1>0, <1>1 DEF RecordsAgree, Registered
<1>2. CASE Caching
  <2>1. PICK h \in Host, v \in Registered :
          /\ Fetched(h, v) # 0 /\ Caches(h, v)
          /\ UNCHANGED <<row_of, in_store>>
    BY <1>2 DEF Caching
  <2>2. v \notin contested => Fetched(h, v) = row_of[v]
    BY <1>0, <2>1, FetchedIsRecorded
  <2>3. v = 1 => Fetched(h, v) = 1
    BY <1>0, <2>2 DEF RecordsAgree
  <2>4. /\ Registered' = Registered
        /\ on_disk' = [on_disk EXCEPT ![h][v] = Fetched(h, v)]
    BY <2>1 DEF Registered, Caches
  <2>5. \A k \in Host, w \in Number :
          on_disk'[k][w] = IF k = h /\ w = v THEN Fetched(h, v) ELSE on_disk[k][w]
    BY <2>4
  <2>6. \A w \in Registered \ contested, k \in Host : on_disk'[k][w] \in {0, row_of[w]}
    BY <1>0, <2>2, <2>5 DEF RecordsAgree, Registered
  <2>7. \A k \in Host : on_disk'[k][1] = 1
    BY <1>0, <2>3, <2>5, OneIsNumber DEF RecordsAgree
  <2>8. \A w \in Number : on_disk'["web"][w] # 0 => w \in Registered
    BY <1>0, <2>1, <2>5 DEF RecordsAgree, Host
  <2> QED
    BY <1>0, <2>1, <2>4, <2>6, <2>7, <2>8 DEF RecordsAgree
<1>3. ASSUME NEW p \in Proc, Dump(p)
      PROVE  RecordsAgree'
  <2>1. /\ version[p] \in Number
        /\ version[p] \in Registered => version[p] \in contested
    BY <1>3 DEF Dump, ModelInv, NumberAgrees, Numbered
  <2>2. /\ Registered' = Registered /\ UNCHANGED <<row_of, in_store>>
        /\ on_disk' = [on_disk EXCEPT !["worker"][version[p]] = trainings + 1]
    BY <1>3 DEF Dump, Registered, database, store
  <2>3. version[p] # 1
    BY <1>0, <2>1 DEF RecordsAgree
  <2>4. \A h \in Host, v \in Number : v # version[p] => on_disk'[h][v] = on_disk[h][v]
    BY <2>2
  <2>5. \A v \in Number : on_disk'["web"][v] = on_disk["web"][v]
    BY <2>2 DEF Host
  <2>6. \A v \in Registered \ contested : v \in Number /\ v # version[p]
    BY <2>1 DEF Registered
  <2>7. \A v \in Registered \ contested, h \in Host : on_disk'[h][v] \in {0, row_of[v]}
    BY <1>0, <2>4, <2>6 DEF RecordsAgree
  <2>8. \A h \in Host : on_disk'[h][1] = 1
    BY <1>0, <2>3, <2>4, OneIsNumber DEF RecordsAgree
  <2> QED
    BY <1>0, <2>2, <2>5, <2>7, <2>8 DEF RecordsAgree
<1>4. ASSUME NEW p \in Proc, Upload(p)
      PROVE  RecordsAgree'
  <2>1. /\ version[p] \in Number
        /\ version[p] \in Registered => version[p] \in contested
    BY <1>4 DEF Upload, ModelInv, NumberAgrees, Numbered
  <2>2. Registered' = Registered /\ UNCHANGED <<row_of, on_disk>>
    BY <1>4 DEF Upload, Registered, database, disks
  <2>3. \A v \in Registered \ contested : in_store'[v] = in_store[v]
    BY <1>4, <2>1 DEF Upload, Registered
  <2> QED
    BY <1>0, <2>2, <2>3 DEF RecordsAgree
<1>5. ASSUME NEW p \in Proc, Record(p)
      PROVE  RecordsAgree'
  <2>1. /\ version[p] \in Number \ Registered /\ have[p] # 0
        /\ version[p] \in contested \/ on_disk["worker"][version[p]] = have[p]
        /\ version[p] \in contested \/ in_store[version[p]] = have[p]
    BY <1>5 DEF Record, ModelInv, NumberAgrees, FilesAgree, Numbered
  <2>2. /\ row_of' = [row_of EXCEPT ![version[p]] = have[p]]
        /\ UNCHANGED <<in_store, on_disk>>
    BY <1>5 DEF Record, store, disks
  <2>3. Registered' = Registered \cup {version[p]}
    BY <2>1, <2>2 DEF Registered
  <2>4. on_disk["web"][version[p]] = 0
    BY <1>0, <2>1 DEF RecordsAgree
  <2>5. \A v \in Registered : row_of'[v] = row_of[v]
    BY <2>1, <2>2 DEF Registered
  <2>6. row_of'[version[p]] = have[p]
    BY <2>1, <2>2
  <2>7. ASSUME NEW v \in Registered \ contested
        PROVE  /\ in_store'[v] = row_of'[v] \/ (v = 1 /\ in_store'[v] = 0)
               /\ \A h \in Host : on_disk'[h][v] \in {0, row_of'[v]}
    BY <1>0, <2>2, <2>5 DEF RecordsAgree
  <2>8. ASSUME version[p] \notin contested'
        PROVE  /\ in_store'[version[p]] = row_of'[version[p]]
               /\ \A h \in Host : on_disk'[h][version[p]] \in {0, row_of'[version[p]]}
    BY <1>0, <2>1, <2>2, <2>4, <2>6, <2>8 DEF Host
  <2>9. \A v \in Registered' \ contested' : v \in Registered \ contested \/ v = version[p]
    BY <1>0, <2>3
  <2>10. /\ row_of'[1] = 1 /\ 1 \notin contested'
         /\ \A h \in Host : on_disk'[h][1] = 1
    BY <1>0, <2>2, <2>5 DEF RecordsAgree
  <2>11. \A v \in Number : on_disk'["web"][v] # 0 => v \in Registered'
    BY <1>0, <2>2, <2>3 DEF RecordsAgree
  <2> HIDE DEF TypeInv, TypeOK
  <2> QED
    BY <2>7, <2>8, <2>9, <2>10, <2>11 DEF RecordsAgree
<1>6. CASE Wiping
  <2>1. PICK h \in Host :
          /\ on_disk' = [on_disk EXCEPT ![h] = OnlyShipped]
          /\ UNCHANGED <<row_of, in_store>>
    BY <1>6 DEF Wiping
  <2>2. Registered' = Registered
    BY <2>1 DEF Registered
  <2>3. \A k \in Host, v \in Number :
          on_disk'[k][v] \in {on_disk[k][v], IF v = 1 THEN 1 ELSE 0}
    BY <2>1 DEF OnlyShipped
  <2> QED
    BY <1>0, <2>1, <2>2, <2>3, OneIsNumber DEF RecordsAgree, Registered, Host
<1> QED
  BY <1>0, <1>1, <1>2, <1>3, <1>4, <1>5, <1>6, DataStep

LEMMA PointersAgreeNext ==
  ASSUME TypeInv, ModelInv, [Next]_vars
  PROVE  PointersAgree'
<1> USE DEF TypeInv, TypeOK
<1>0. /\ PointersAgree /\ 1 \in Registered
      /\ \A v \in Registered : v \in Registered'
  BY OneIsNumber, RecordedStable DEF ModelInv, RecordsAgree, Registered
<1>1. CASE UNCHANGED <<remote_pointer, local_pointer>>
  BY <1>0, <1>1 DEF PointersAgree
<1>2. ASSUME NEW p \in Proc, Point(p)
      PROVE  PointersAgree'
  <2>1. version[p] \in Registered
    BY <1>2 DEF Point, ModelInv, PromotionAgrees, Promoting
  <2>2. /\ UNCHANGED remote_pointer
        /\ local_pointer' = [local_pointer EXCEPT !["web"] = version[p]]
    BY <1>2 DEF Point, store
  <2> QED
    BY <1>0, <2>1, <2>2 DEF PointersAgree
<1>3. ASSUME NEW p \in Proc, Put(p)
      PROVE  PointersAgree'
  <2>1. version[p] \in Registered
    BY <1>3 DEF Put, ModelInv, PromotionAgrees, Promoting
  <2> QED
    BY <1>0, <1>3, <2>1 DEF Put, PointersAgree, disks
<1>4. ASSUME NEW h \in Host, Restart(h)
      PROVE  PointersAgree'
  BY <1>0, <1>4 DEF Restart, Die, PointersAgree, store
<1>5. ASSUME NEW p \in Proc, Act(p), ~Point(p), ~Put(p)
      PROVE  UNCHANGED <<remote_pointer, local_pointer>>
  BY <1>5 DEF Act, Ask, Reload, ReloadFails, Answer, Promote, PutFails, Flag,
              Retrain, Pick, Dump, Upload, UploadFails, Record, RecordFails,
              Crash, Die, store, disks
<1>6. ASSUME NEW c \in Correction, Correct(c) \/ Purge(c)
      PROVE  UNCHANGED <<remote_pointer, local_pointer>>
  BY <1>6 DEF Correct, Purge, store, disks
<1>7. CASE UNCHANGED vars
  BY <1>1, <1>7 DEF vars, store, disks
<1> QED
  BY <1>1, <1>2, <1>3, <1>4, <1>5, <1>6, <1>7 DEF Next

LEMMA LoadedAgreesNext ==
  ASSUME TypeInv, ModelInv, [Next]_vars, NEW p \in Proc
  PROVE  LoadedAgrees(p)'
<1> USE DEF TypeInv, TypeOK
<1>0. /\ LoadedAgrees(p)
      /\ \A v \in Registered : v \in Registered' /\ row_of'[v] = row_of[v]
      /\ \A v \in Registered : v \in contested' <=> v \in contested
  BY RecordedStable, ContestedStable DEF ModelInv
<1>1. CASE UNCHANGED <<loaded[p], loaded_run[p]>>
  BY <1>0, <1>1 DEF LoadedAgrees
<1>2. CASE loaded'[p] = 0
  BY <1>2 DEF LoadedAgrees
<1>3. CASE Reload(p)
  <2>1. PICK v \in Number :
          /\ ReadsPointer(p, v)
          /\ Fetched(HostOf(p), v) # 0
          /\ loaded' = [loaded EXCEPT ![p] = v]
          /\ loaded_run' = [loaded_run EXCEPT ![p] = Fetched(HostOf(p), v)]
    BY <1>3 DEF Reload
  <2>2. v \in Registered
    BY <2>1, ReadsRecorded DEF ModelInv
  <2>3. v \notin contested => Fetched(HostOf(p), v) = row_of[v]
    BY <2>1, <2>2, FetchedIsRecorded, HostType DEF ModelInv
  <2> QED
    BY <1>0, <2>1, <2>2, <2>3 DEF LoadedAgrees
<1>4. CASE Put(p)
  <2>1. /\ version[p] \in Registered
        /\ version[p] \notin contested => have[p] = row_of[version[p]]
    BY <1>4 DEF Put, ModelInv, PromotionAgrees, Promoting
  <2>2. loaded'[p] = version[p] /\ loaded_run'[p] = have[p]
    BY <1>4 DEF Put
  <2> QED
    BY <1>0, <2>1, <2>2 DEF LoadedAgrees
<1>5. ASSUME Act(p), ~Reload(p), ~Put(p)
      PROVE  LoadedAgrees(p)'
  <2>1. CASE Crash(p)
    BY <1>2, <2>1 DEF Crash, Die
  <2>2. CASE ~Crash(p)
    BY <1>1, <1>5, <2>2 DEF Act, Ask, ReloadFails, Answer, Promote, Point,
       PutFails, Flag, Retrain, Pick, Dump, Upload, UploadFails, Record,
       RecordFails, memory
  <2> QED
    BY <2>1, <2>2
<1> QED
  BY <1>1, <1>2, <1>3, <1>4, <1>5, OthersLocals

LEMMA PromotionAgreesNext ==
  ASSUME TypeInv, ModelInv, [Next]_vars, NEW p \in Proc
  PROVE  PromotionAgrees(p)'
<1> USE DEF TypeInv, TypeOK
<1>0. /\ PromotionAgrees(p)
      /\ \A v \in Registered : v \in Registered' /\ row_of'[v] = row_of[v]
      /\ \A v \in Registered : v \in contested' <=> v \in contested
  BY RecordedStable, ContestedStable DEF ModelInv
<1>1. CASE UNCHANGED <<at[p], version[p], have[p]>>
  BY <1>0, <1>1 DEF PromotionAgrees
<1>2. CASE at'[p] \notin Promoting
  BY <1>2 DEF PromotionAgrees
<1>3. ASSUME NEW v \in Number, Promote(p, v)
      PROVE  PromotionAgrees(p)'
  <2>1. v \in Registered /\ (v \notin contested => Fetched("web", v) = row_of[v])
    BY <1>3, FetchedIsRecorded DEF Promote, ModelInv, Host
  <2>2. version'[p] = v /\ have'[p] = Fetched("web", v)
    BY <1>3 DEF Promote
  <2> QED
    BY <1>0, <2>1, <2>2 DEF PromotionAgrees
<1>4. CASE Point(p) \/ Put(p)
  BY <1>0, <1>4 DEF Point, Put, work, PromotionAgrees, Promoting
<1>5. ASSUME Act(p), at[p] \in Promoting, at'[p] \in Promoting
      PROVE  Point(p) \/ Put(p)
  <2>1. ~(PutFails(p) \/ Flag(p) \/ Crash(p))
    BY <1>5 DEF PutFails, Flag, Crash, Die, Ends, Goes, Promoting
  <2> QED
    BY <1>5, <2>1 DEF Act, Ask, Reload, ReloadFails, Answer, Promote, Retrain,
       Pick, Dump, Upload, UploadFails, Record, RecordFails, Promoting
<1> QED
  BY <1>1, <1>2, <1>3, <1>4, <1>5, OthersLocals, WorkBegins DEF Promoting

\* A number is taken in one place, and kept until the training ends.
LEMMA NumberKept ==
  ASSUME TypeInv, [Next]_vars, NEW p \in Proc, at'[p] \in Numbered
  PROVE  Pick(p) \/ (at[p] \in Numbered /\ version'[p] = version[p])
<1> USE DEF TypeInv, TypeOK
<1>1. CASE Dump(p) \/ Upload(p)
  BY <1>1 DEF Dump, Upload, Numbered, work
<1>2. ASSUME Act(p), ~Pick(p), ~Dump(p), ~Upload(p)
      PROVE  at'[p] \notin Numbered
  <2>1. CASE Ask(p) \/ Reload(p) \/ ReloadFails(p) \/ Answer(p)
    BY <2>1 DEF Ask, Reload, ReloadFails, Answer, Goes, Numbered
  <2>2. CASE (\E v \in Number : Promote(p, v)) \/ Point(p) \/ Put(p) \/ Retrain(p)
    BY <2>2 DEF Promote, Point, Put, Retrain, Goes, Numbered
  <2>3. CASE PutFails(p) \/ Flag(p) \/ UploadFails(p) \/ Record(p)
             \/ RecordFails(p)
    BY <2>3 DEF PutFails, Flag, UploadFails, Record, RecordFails, Ends, Goes,
                Numbered
  <2>4. CASE Crash(p)
    BY <2>4 DEF Crash, Die, Numbered
  <2> QED
    BY <1>2, <2>1, <2>2, <2>3, <2>4 DEF Act
<1>3. CASE ~Act(p)
  BY <1>3, OthersLocals DEF Numbered
<1> QED
  BY <1>1, <1>2, <1>3

\* Two trainings that hold one number know it, whichever of them was second.
LEMMA PickContests ==
  ASSUME TypeInv, ModelInv, [Next]_vars, NEW p \in Proc, Pick(p)
  PROVE  /\ version'[p] \in Number \ Registered /\ UNCHANGED row_of
         /\ \A q \in Proc \ {p} : at[q] \in Training => version'[p] \in contested'
<1> USE DEF TypeInv, TypeOK
<1>1. PICK v \in Number :
        /\ IsNextVersion(v)
        /\ version' = [version EXCEPT ![p] = v]
        /\ contested' = IF p \in overlapped THEN contested \cup {v} ELSE contested
  BY DEF Pick
<1>2. v \notin Registered
  <2>1. \A u \in Number : ~(u < u)
    BY ModelGovernanceAssumption DEF Number
  <2> QED
    BY <1>1, <2>1 DEF IsNextVersion, Taken
<1>3. version'[p] = v
  BY <1>1
<1>4. ASSUME NEW q \in Proc \ {p}, at[q] \in Training
      PROVE  v \in contested'
  <2>1. p \in overlapped
    BY <1>4 DEF ModelInv, WorkInv, OverlapsAreKnown, Pick, Training
  <2> QED
    BY <1>1, <2>1
<1> QED
  BY <1>2, <1>3, <1>4 DEF Pick, database

LEMMA NumberAgreesNext ==
  ASSUME TypeInv, ModelInv, [Next]_vars, NEW p \in Proc
  PROVE  NumberAgrees(p)'
<1> SUFFICES ASSUME at'[p] \in Numbered
             PROVE  NumberAgrees(p)'
  BY DEF NumberAgrees
<1>0. /\ \A q \in Proc : NumberAgrees(q)
      /\ contested \subseteq contested'
      /\ \A q \in Proc : at[q] \in Numbered => at[q] \in Training
  BY ContestedStable DEF ModelInv, Numbered, Training
<1>1. CASE Pick(p)
  <2>1. /\ version'[p] \in Number \ Registered /\ Registered' = Registered
        /\ \A q \in Proc \ {p} : at[q] \in Training => version'[p] \in contested'
    BY <1>1, PickContests DEF Registered
  <2>2. \A q \in Proc \ {p} : at'[q] = at[q]
    BY <1>1 DEF Pick, Goes, TypeInv, TypeOK
  <2> QED
    BY <1>0, <2>1, <2>2 DEF NumberAgrees
<1>2. CASE at[p] \in Numbered /\ version'[p] = version[p]
  <2>1. ASSUME version[p] \in Registered'
        PROVE  version[p] \in contested'
    <3>1. CASE version[p] \in Registered
      BY <1>0, <1>2, <3>1 DEF NumberAgrees
    <3>2. CASE version[p] \notin Registered
      <4>1. PICK q \in Proc : Record(q)
        BY <2>1, <3>2, DataStep DEF ModelInv, Registered, Caching, Wiping, Dump,
                                    Upload, database
      <4>2. version[q] = version[p]
        BY <2>1, <3>2, <4>1 DEF Record, Registered, TypeInv, TypeOK
      <4>3. q # p
        BY <1>2, <4>1 DEF Record, Ends, Goes, Numbered, TypeInv, TypeOK
      <4> QED
        BY <1>0, <1>2, <4>1, <4>2, <4>3 DEF NumberAgrees, Record, Numbered
    <3> QED
      BY <3>1, <3>2
  <2>2. ASSUME NEW q \in Proc \ {p}, at'[q] \in Numbered, version'[q] = version[p]
        PROVE  version[p] \in contested'
    <3>1. CASE Pick(q)
      BY <1>0, <1>2, <2>2, <3>1, PickContests
    <3>2. CASE at[q] \in Numbered /\ version'[q] = version[q]
      BY <1>0, <1>2, <2>2, <3>2 DEF NumberAgrees
    <3> QED
      BY <2>2, <3>1, <3>2, NumberKept
  <2>3. version[p] \in Number
    BY <1>0, <1>2 DEF NumberAgrees
  <2> QED
    BY <1>2, <2>1, <2>2, <2>3 DEF NumberAgrees
<1> QED
  BY <1>1, <1>2, NumberKept

\* A number nobody else has: no other process writes its files.
LEMMA FilesKept ==
  ASSUME TypeInv, ModelInv, [Next]_vars, NEW p \in Proc, ~Act(p),
         at[p] \in Numbered, version[p] \notin contested, ~Restart("worker")
  PROVE  /\ on_disk'["worker"][version[p]] = on_disk["worker"][version[p]]
         /\ in_store'[version[p]] = in_store[version[p]]
<1> USE DEF TypeInv, TypeOK
<1>0. /\ version[p] \in Number \ Registered
      /\ \A q \in Proc \ {p} : at[q] \in Numbered => version[q] # version[p]
  BY DEF ModelInv, NumberAgrees
<1>1. CASE UNCHANGED <<row_of, in_store, on_disk>>
  BY <1>1
<1>2. CASE Caching
  BY <1>0, <1>2 DEF Caching, Caches, Host
<1>3. CASE Wiping
  BY <1>3 DEF Wiping, Host
<1>4. ASSUME NEW q \in Proc, Dump(q) \/ Upload(q) \/ Record(q)
      PROVE  /\ on_disk'["worker"][version[p]] = on_disk["worker"][version[p]]
             /\ in_store'[version[p]] = in_store[version[p]]
  <2>1. q # p /\ at[q] \in Numbered
    BY <1>4 DEF Act, Dump, Upload, Record, Numbered
  <2>2. version[q] # version[p]
    BY <1>0, <2>1
  <2>3. CASE Dump(q)
    BY <2>2, <2>3 DEF Dump, store, Host
  <2>4. CASE Upload(q)
    BY <2>2, <2>4 DEF Upload, disks
  <2>5. CASE Record(q)
    BY <2>5 DEF Record, store, disks
  <2> QED
    BY <1>4, <2>3, <2>4, <2>5
<1> QED
  BY <1>1, <1>2, <1>3, <1>4, DataStep DEF ModelInv

LEMMA FilesAgreeNext ==
  ASSUME TypeInv, ModelInv, [Next]_vars, NEW p \in Proc
  PROVE  FilesAgree(p)'
<1> USE DEF TypeInv, TypeOK
<1>0. FilesAgree(p) /\ contested \subseteq contested'
  BY ContestedStable DEF ModelInv
<1>1. CASE Dump(p)
  <2>1. version[p] \in Number
    BY <1>1 DEF Dump, ModelInv, NumberAgrees, Numbered
  <2>2. at'[p] = "upload" /\ version'[p] = version[p] /\ have'[p] = trainings + 1
    BY <1>1 DEF Dump, Goes
  <2>3. on_disk'["worker"][version[p]] = trainings + 1
    BY <1>1, <2>1 DEF Dump, Host
  <2>4. trainings + 1 # 0
    BY ModelGovernanceAssumption DEF Number
  <2> QED
    BY <2>2, <2>3, <2>4 DEF FilesAgree
<1>2. CASE Upload(p)
  <2>1. /\ version[p] \in Number /\ have[p] # 0
        /\ version[p] \in contested \/ on_disk["worker"][version[p]] = have[p]
    BY <1>0, <1>2 DEF Upload, ModelInv, NumberAgrees, FilesAgree, Numbered
  <2>2. /\ at'[p] = "record" /\ version'[p] = version[p] /\ have'[p] = have[p]
        /\ UNCHANGED <<on_disk, contested>>
    BY <1>2 DEF Upload, Goes, work, disks, history
  <2>3. in_store'[version[p]] = on_disk["worker"][version[p]]
    BY <1>2, <2>1 DEF Upload
  <2> QED
    BY <2>1, <2>2, <2>3 DEF FilesAgree
<1>3. ASSUME at'[p] \in {"upload", "record"}, Act(p)
      PROVE  Dump(p) \/ Upload(p)
  <2>1. ~(Ask(p) \/ Reload(p) \/ ReloadFails(p) \/ Answer(p) \/ Pick(p) \/ Retrain(p))
    BY <1>3 DEF Ask, Reload, ReloadFails, Answer, Pick, Retrain, Goes
  <2>2. ~((\E v \in Number : Promote(p, v)) \/ Point(p) \/ Put(p))
    BY <1>3 DEF Promote, Point, Put, Goes
  <2>3. ~(PutFails(p) \/ Flag(p) \/ UploadFails(p) \/ Record(p) \/ RecordFails(p))
    BY <1>3 DEF PutFails, Flag, UploadFails, Record, RecordFails, Ends, Goes
  <2>4. ~Crash(p)
    BY <1>3 DEF Crash, Die
  <2> QED
    BY <1>3, <2>1, <2>2, <2>3, <2>4 DEF Act
<1>4. ASSUME at'[p] \in {"upload", "record"}, ~Act(p)
      PROVE  FilesAgree(p)'
  <2>1. UNCHANGED <<at[p], version[p], have[p]>>
    BY <1>4, OthersLocals
  <2>2. p \in Trainer /\ at[p] \in Numbered
    BY <1>4, <2>1 DEF ModelInv, WorkInv, Posted, Training, Numbered
  <2>3. ~Restart("worker")
    <3>1. HostOf(p) = "worker"
      BY <2>2, ModelGovernanceAssumption DEF HostOf
    <3> QED
      BY <1>4, <3>1 DEF Restart, Die
  <2>4. CASE version[p] \notin contested
    BY <1>0, <1>4, <2>1, <2>2, <2>3, <2>4, FilesKept DEF FilesAgree
  <2>5. CASE version[p] \in contested
    BY <1>0, <1>4, <2>1, <2>5 DEF FilesAgree
  <2> QED
    BY <2>4, <2>5
<1>5. CASE at'[p] \notin {"upload", "record"}
  BY <1>5 DEF FilesAgree
<1> QED
  BY <1>1, <1>2, <1>3, <1>4, <1>5

LEMMA ModelNext == TypeInv /\ ModelInv /\ [Next]_vars => ModelInv'
<1> SUFFICES ASSUME TypeInv, ModelInv, [Next]_vars
             PROVE  ModelInv'
  OBVIOUS
<1>1. WorkInv' /\ RecordsAgree' /\ PointersAgree'
  BY WorkNext, RecordsAgreeNext, PointersAgreeNext DEF ModelInv
<1>2. ASSUME NEW p \in Proc
      PROVE  /\ LoadedAgrees(p)' /\ PromotionAgrees(p)'
             /\ NumberAgrees(p)' /\ FilesAgree(p)'
  BY LoadedAgreesNext, PromotionAgreesNext, NumberAgreesNext, FilesAgreeNext
<1> QED
  BY <1>1, <1>2 DEF ModelInv

LEMMA ModelInvariant == Spec => [](TypeInv /\ ModelInv)
BY TypeInit, TypeNext, ModelInit, ModelNext, PTL DEF Spec

\* Whatever crashes, restarts, is refused or overlaps: the metrics an
\* administrator reviews are those of the model that will be served, except
\* under a number that two trainings took at once.
THEOREM ReviewedIsServed == Spec => []RowDescribesModel
<1>1. TypeInv /\ ModelInv => RowDescribesModel
  <2> SUFFICES ASSUME TypeInv, ModelInv, NEW v \in Registered \ contested
               PROVE  /\ in_store[v] \in {0, row_of[v]}
                      /\ \A h \in Host : on_disk[h][v] \in {0, row_of[v]}
                      /\ \A p \in Proc : loaded[p] = v => loaded_run[p] = row_of[v]
    BY DEF RowDescribesModel
  <2>1. v # 0
    BY ModelGovernanceAssumption DEF Registered, Number
  <2> QED
    BY <2>1 DEF ModelInv, RecordsAgree, LoadedAgrees
<1> QED
  BY <1>1, ModelInvariant, PTL

\* A model goes live only by a promotion: what every process has loaded, and
\* what the pointer names, has a row, whatever dies or overlaps.
THEOREM OnlyReviewed == Spec => []OnlyReviewedIsLive
<1>1. TypeInv /\ ModelInv => OnlyReviewedIsLive
  BY DEF ModelInv, PointersAgree, LoadedAgrees, OnlyReviewedIsLive
<1> QED
  BY <1>1, ModelInvariant, PTL

-----------------------------------------------------------------------------
\* How fresh an answer is.  The history since[p] of a classification holds
\* every pointer its host had from the question on, the present one included.
FreshFor(p) ==
    /\ at[p] \in Asking => Pointer(HostOf(p)) \in since[p]
    /\ at[p] = "use" /\ p \notin blinded => loaded[p] \in since[p]

FreshInv == \A p \in Proc : FreshFor(p)

\* Nothing of what FreshFor speaks of changes; or p stops asking.
LEMMA FreshKept ==
  ASSUME TypeInv, NEW p \in Proc, FreshFor(p),
         \/ at'[p] \notin Asking
         \/ /\ UNCHANGED <<remote_pointer, local_pointer, at[p], loaded[p]>>
            /\ since'[p] = since[p] /\ (p \in blinded <=> p \in blinded')
  PROVE  FreshFor(p)'
BY DEF FreshFor, Pointer, Asking

\* When a pointer moves, every classification under way sees it.
LEMMA FreshMoves ==
  ASSUME TypeInv, NEW p \in Proc, FreshFor(p), PointerMoves,
         UNCHANGED <<at[p], loaded[p]>>, p \in blinded <=> p \in blinded'
  PROVE  FreshFor(p)'
<1>1. since'[p] = IF at'[p] \in Asking
                  THEN since[p] \cup {Pointer(HostOf(p))'} ELSE {}
  BY DEF PointerMoves
<1> QED
  BY <1>1 DEF FreshFor, Asking

LEMMA FreshNext == TypeInv /\ FreshInv /\ [Next]_vars => FreshInv'
<1> SUFFICES ASSUME TypeInv, FreshInv, [Next]_vars, NEW p \in Proc
             PROVE  FreshFor(p)'
  BY DEF FreshInv
<1> USE DEF TypeInv, TypeOK
<1>0. FreshFor(p)
  BY DEF FreshInv
<1>1. CASE Ask(p)
  <2>1. PICK v \in Number :
          /\ ReadsPointer(p, v)
          /\ Goes(p, IF UpToDate(p, v) THEN "use" ELSE "reload")
    BY <1>1 DEF Ask
  <2>2. /\ since'[p] = {Pointer(HostOf(p))} /\ loaded' = loaded
        /\ Pointer(HostOf(p))' = Pointer(HostOf(p))
    BY <1>1 DEF Ask, memory, store, disks, Pointer
  <2>3. p \notin blinded' => v = Pointer(HostOf(p))
    BY <2>1 DEF ReadsPointer
  <2>4. at'[p] = "use" => loaded[p] = v
    BY <2>1 DEF Goes, UpToDate
  <2> QED
    BY <2>2, <2>3, <2>4 DEF FreshFor
<1>2. CASE Reload(p)
  <2>1. PICK v \in Number :
          ReadsPointer(p, v) /\ loaded' = [loaded EXCEPT ![p] = v]
    BY <1>2 DEF Reload
  <2>2. /\ since' = since /\ loaded'[p] = v
        /\ Pointer(HostOf(p))' = Pointer(HostOf(p))
    BY <1>2, <2>1 DEF Reload, store, Pointer
  <2>3. p \notin blinded' => v = Pointer(HostOf(p))
    BY <2>1 DEF ReadsPointer
  <2>4. at[p] \in Asking
    BY <1>2 DEF Reload, Asking
  <2> QED
    BY <1>0, <2>2, <2>3, <2>4 DEF FreshFor
<1>3. ASSUME NEW q \in Proc \ {p}, Ask(q) \/ Reload(q)
      PROVE  FreshFor(p)'
  <2>1. CASE Ask(q)
    <3>1. p \in blinded <=> p \in blinded'
      BY <2>1 DEF Ask, ReadsPointer
    <3>2. at'[p] = at[p] /\ since'[p] = since[p]
      BY <2>1 DEF Ask, Goes
    <3> QED
      BY <1>0, <2>1, <3>1, <3>2, FreshKept DEF Ask, store, disks, memory
  <2>2. CASE Reload(q)
    <3>1. p \in blinded <=> p \in blinded'
      BY <2>2 DEF Reload, ReadsPointer
    <3>2. at'[p] = at[p] /\ loaded'[p] = loaded[p]
      BY <2>2 DEF Reload, Goes
    <3> QED
      BY <1>0, <2>2, <3>1, <3>2, FreshKept DEF Reload, store
  <2> QED
    BY <1>3, <2>1, <2>2
<1>4. ASSUME NEW q \in Proc, ReloadFails(q) \/ Answer(q)
      PROVE  FreshFor(p)'
  <2>1. CASE q = p
    BY <1>0, <1>4, <2>1, FreshKept DEF ReloadFails, Answer, Goes, Asking
  <2>2. CASE q # p
    BY <1>0, <1>4, <2>2, FreshKept DEF ReloadFails, Answer, Goes, store, disks,
                                       memory
  <2> QED
    BY <2>1, <2>2
<1>5. ASSUME NEW q \in Proc, Point(q) \/ Put(q)
      PROVE  FreshFor(p)'
  <2>1. CASE q = p
    BY <1>0, <1>5, <2>1, FreshKept DEF Point, Put, Goes, Asking
  <2>2. CASE q # p
    BY <1>0, <1>5, <2>2, FreshMoves DEF Point, Put, Goes, memory
  <2> QED
    BY <2>1, <2>2
<1>6. ASSUME NEW dead \in SUBSET Proc, Die(dead), PointerMoves
      PROVE  FreshFor(p)'
  <2>1. CASE p \in dead
    BY <1>0, <1>6, <2>1, FreshKept DEF Die, Asking
  <2>2. CASE p \notin dead
    BY <1>0, <1>6, <2>2, FreshMoves DEF Die
  <2> QED
    BY <2>1, <2>2
<1>7. ASSUME NEW q \in Proc,
             \/ \E v \in Number : Promote(q, v)
             \/ Retrain(q) \/ Pick(q) \/ Dump(q) \/ Upload(q)
      PROVE  FreshFor(p)'
  <2>1. UNCHANGED <<remote_pointer, local_pointer, loaded, since, blinded>>
    BY <1>7 DEF Promote, Retrain, Pick, Dump, Upload, store, disks, memory, asked
  <2>2. q = p => at'[p] \notin Asking
    BY <1>7 DEF Promote, Retrain, Pick, Dump, Upload, Goes, Asking
  <2>3. q # p => at'[p] = at[p]
    BY <1>7 DEF Promote, Retrain, Pick, Dump, Upload, Goes
  <2> QED
    BY <1>0, <2>1, <2>2, <2>3, FreshKept
<1>8. ASSUME NEW q \in Proc,
             PutFails(q) \/ Flag(q) \/ UploadFails(q) \/ Record(q) \/ RecordFails(q)
      PROVE  FreshFor(p)'
  <2>1. UNCHANGED <<remote_pointer, local_pointer, loaded, since, blinded>>
    BY <1>8 DEF PutFails, Flag, UploadFails, Record, RecordFails, store, disks,
                memory, asked
  <2>2. q = p => at'[p] \notin Asking
    BY <1>8 DEF PutFails, Flag, UploadFails, Record, RecordFails, Ends, Goes,
                Asking
  <2>3. q # p => at'[p] = at[p]
    BY <1>8 DEF PutFails, Flag, UploadFails, Record, RecordFails, Ends, Goes
  <2> QED
    BY <1>0, <2>1, <2>2, <2>3, FreshKept
<1>9. ASSUME NEW c \in Correction, Correct(c) \/ Purge(c)
      PROVE  FreshFor(p)'
  BY <1>0, <1>9, FreshKept DEF Correct, Purge, store, disks, memory, asked
<1>10. CASE UNCHANGED vars
  BY <1>0, <1>10, FreshKept DEF vars, store, disks, memory, asked
<1>11. ASSUME NEW q \in Proc, Act(q)
       PROVE  FreshFor(p)'
  BY <1>1, <1>2, <1>3, <1>4, <1>5, <1>6, <1>7, <1>8, <1>11 DEF Act, Crash
<1>12. ASSUME NEW h \in Host, Restart(h)
       PROVE  FreshFor(p)'
  BY <1>6, <1>12 DEF Restart
<1> QED
  BY <1>9, <1>10, <1>11, <1>12 DEF Next

\* A classification answers with a version that was current while it ran, on
\* its own host, whatever is promoted, crashes or restarts meanwhile.
THEOREM FreshAnswers == Spec => []AnswersAreFresh
<1>1. Init => FreshInv
  BY DEF Init, FreshInv, FreshFor, Asking
<1>2. FreshInv => AnswersAreFresh
  BY DEF FreshInv, FreshFor, AnswersAreFresh
<1> QED
  BY <1>1, <1>2, TypeInit, TypeNext, FreshNext, PTL DEF Spec

-----------------------------------------------------------------------------
\* What is shown as current.
Quiet == \A p \in Web : at[p] \notin Promoting

\* A promotion that nothing overlaps still finds its own pointer when it sets
\* the flag; and the worker's disk never has a pointer but the image's.
FlagAgrees ==
    \A p \in Proc : at[p] = "flag" /\ p \notin overlapped => remote_pointer = version[p]

ServedInv ==
    CurrentIsServed /\ FlagAgrees /\ local_pointer["worker"] = 1

LEMMA WorkerPointer ==
  ASSUME TypeInv, local_pointer["worker"] = 1, [Next]_vars
  PROVE  local_pointer'["worker"] = 1
<1> USE DEF TypeInv, TypeOK
<1>1. CASE UNCHANGED local_pointer
  BY <1>1
<1>2. ASSUME NEW p \in Proc, Point(p)
      PROVE  local_pointer'["worker"] = 1
  BY <1>2 DEF Point, Host
<1>3. ASSUME NEW h \in Host, Restart(h)
      PROVE  local_pointer'["worker"] = 1
  BY <1>3 DEF Restart, Host
<1>4. ASSUME NEW p \in Proc, Act(p), ~Point(p)
      PROVE  UNCHANGED local_pointer
  BY <1>4 DEF Act, Ask, Reload, ReloadFails, Answer, Promote, Put, PutFails,
     Flag, Retrain, Pick, Dump, Upload, UploadFails, Record, RecordFails, Crash,
     disks
<1>5. ASSUME NEW c \in Correction, Correct(c) \/ Purge(c)
      PROVE  UNCHANGED local_pointer
  BY <1>5 DEF Correct, Purge, disks
<1>6. CASE UNCHANGED vars
  BY <1>1, <1>6 DEF vars, disks
<1> QED
  BY <1>1, <1>2, <1>3, <1>4, <1>5, <1>6 DEF Next

LEMMA FlagAgreesNext ==
  ASSUME TypeInv, WorkInv, FlagAgrees, [Next]_vars
  PROVE  FlagAgrees'
<1> USE DEF TypeInv, TypeOK
<1> SUFFICES ASSUME NEW p \in Proc, at'[p] = "flag", p \notin overlapped'
             PROVE  remote_pointer' = version'[p]
  BY DEF FlagAgrees
<1>1. CASE Put(p)
  BY <1>1 DEF Put, work
<1>2. CASE ~Put(p)
  <2>1. at[p] = "flag" /\ version'[p] = version[p]
    <3>1. CASE Act(p)
      <4>1. ~(Ask(p) \/ Reload(p) \/ ReloadFails(p) \/ Answer(p) \/ Point(p))
        BY DEF Ask, Reload, ReloadFails, Answer, Point, Goes
      <4>2. ~((\E v \in Number : Promote(p, v)) \/ Retrain(p) \/ Pick(p)
              \/ Dump(p) \/ Upload(p))
        BY DEF Promote, Retrain, Pick, Dump, Upload, Goes
      <4>3. ~(PutFails(p) \/ Flag(p) \/ UploadFails(p) \/ Record(p)
              \/ RecordFails(p))
        BY DEF PutFails, Flag, UploadFails, Record, RecordFails, Ends, Goes
      <4>4. ~Crash(p)
        BY DEF Crash, Die
      <4> QED
        BY <1>2, <3>1, <4>1, <4>2, <4>3, <4>4 DEF Act
    <3>2. CASE ~Act(p)
      BY <3>2, OthersLocals
    <3> QED
      BY <3>1, <3>2
  <2>2. p \notin overlapped
    BY <2>1, OverlapStays DEF WorkInv, Promoting
  <2>3. remote_pointer = version[p]
    BY <2>1, <2>2 DEF FlagAgrees
  <2>4. ASSUME NEW q \in Proc, Put(q)
        PROVE  FALSE
    <3>1. q # p /\ at[q] \in Promoting /\ at[p] \in Promoting
      BY <2>1, <2>4 DEF Put, Promoting
    <3> QED
      BY <2>2, <3>1 DEF WorkInv, OverlapsAreKnown
  <2>5. UNCHANGED remote_pointer
    BY ZenonT(40), <2>4 DEF Next, Act, Ask, Reload, ReloadFails, Answer, Promote, Point,
       PutFails, Flag, Retrain, Pick, Dump, Upload, UploadFails, Record,
       RecordFails, Crash, Restart, Correct, Purge, Die, vars, store
  <2> QED
    BY <2>1, <2>3, <2>5
<1> QED
  BY <1>1, <1>2

\* How a step can leave nobody promoting and nothing unsettled.
LEMMA SettledStep ==
  ASSUME TypeInv, WorkInv, [Next]_vars, ~unsettled', Quiet'
  PROVE  \/ \E p \in Proc : Flag(p)
         \/ /\ Quiet /\ ~unsettled /\ UNCHANGED <<current, remote_pointer>>
            /\ UNCHANGED local_pointer \/ \E h \in Host : Restart(h)
<1> USE DEF TypeInv, TypeOK
<1> DEFINE Still == Quiet /\ ~unsettled /\ UNCHANGED <<current, remote_pointer>>
<1>1. ASSUME NEW q \in Proc,
             Ask(q) \/ Reload(q) \/ ReloadFails(q) \/ Answer(q)
      PROVE  Still /\ UNCHANGED local_pointer
  <2>1. /\ UNCHANGED <<unsettled, current, remote_pointer, local_pointer>>
        /\ at[q] \notin Promoting /\ \A p \in Proc \ {q} : at'[p] = at[p]
    BY <1>1 DEF Ask, Reload, ReloadFails, Answer, Goes, history, database, store,
                disks, Promoting
  <2> QED
    BY <2>1 DEF Quiet, Proc
<1>2. ASSUME NEW q \in Proc,
             \/ \E v \in Number : Promote(q, v)
             \/ Point(q) \/ Put(q)
      PROVE  FALSE
  <2>1. at'[q] \in Promoting
    BY <1>2 DEF Promote, Point, Put, Goes, Promoting
  <2>2. q \in Web
    BY <1>2 DEF Promote, Point, Put, WorkInv, Posted, Promoting
  <2> QED
    BY <2>1, <2>2 DEF Quiet
<1>3. ASSUME NEW q \in Proc,
             Retrain(q) \/ Pick(q) \/ Dump(q) \/ Upload(q)
      PROVE  Still /\ UNCHANGED local_pointer
  <2>1. /\ UNCHANGED <<unsettled, current, remote_pointer, local_pointer>>
        /\ at[q] \notin Promoting /\ \A p \in Proc \ {q} : at'[p] = at[p]
    BY <1>3 DEF Retrain, Pick, Dump, Upload, Goes, history, database, store,
                disks, Promoting
  <2> QED
    BY <2>1 DEF Quiet, Proc
<1>4. ASSUME NEW q \in Proc, UploadFails(q) \/ Record(q) \/ RecordFails(q)
      PROVE  Still /\ UNCHANGED local_pointer
  <2>1. /\ UNCHANGED <<unsettled, current, remote_pointer, local_pointer>>
        /\ at[q] \notin Promoting /\ \A p \in Proc \ {q} : at'[p] = at[p]
    BY <1>4 DEF UploadFails, Record, RecordFails, Ends, Goes, database, store,
                disks, Promoting
  <2> QED
    BY <2>1 DEF Quiet, Proc
<1>5. ASSUME NEW q \in Proc, PutFails(q)
      PROVE  FALSE
  BY <1>5 DEF PutFails
<1>6. ASSUME NEW dead \in SUBSET Proc, Die(dead)
      PROVE  Still
  <2>1. /\ ~unsettled /\ (\A p \in dead : at[p] \notin Promoting)
        /\ UNCHANGED <<current, remote_pointer>>
    BY <1>6 DEF Die, database, store
  <2>2. \A p \in Proc \ dead : at'[p] = at[p]
    BY <1>6 DEF Die
  <2> QED
    BY <2>1, <2>2 DEF Quiet, Proc
<1>7. ASSUME NEW c \in Correction, Correct(c) \/ Purge(c)
      PROVE  Still /\ UNCHANGED local_pointer
  BY <1>7 DEF Correct, Purge, Quiet, history, store, disks
<1>8. CASE UNCHANGED vars
  BY <1>8 DEF vars, Quiet, history, database, store, disks
<1>9. ASSUME NEW q \in Proc, Crash(q)
      PROVE  Still /\ UNCHANGED local_pointer
  BY <1>6, <1>9 DEF Crash, disks
<1>10. ASSUME NEW h \in Host, Restart(h)
       PROVE  Still
  BY <1>6, <1>10 DEF Restart
<1>11. ASSUME NEW q \in Proc, Act(q), ~Flag(q)
       PROVE  Still /\ UNCHANGED local_pointer
  BY <1>1, <1>2, <1>3, <1>4, <1>5, <1>9, <1>11 DEF Act
<1> QED
  BY <1>7, <1>8, <1>10, <1>11 DEF Next

LEMMA ServedNext ==
  TypeInv /\ WorkInv /\ ServedInv /\ [Next]_vars => ServedInv'
<1> SUFFICES ASSUME TypeInv, WorkInv, ServedInv, [Next]_vars
             PROVE  ServedInv'
  OBVIOUS
<1> USE DEF TypeInv, TypeOK
<1>1. FlagAgrees' /\ local_pointer'["worker"] = 1
  BY FlagAgreesNext, WorkerPointer DEF ServedInv
<1>2. CurrentIsServed'
  <2> SUFFICES ASSUME ~unsettled', Quiet', NEW h \in Host
               PROVE  current' = {Pointer(h)'}
    BY DEF CurrentIsServed, Quiet
  <2>1. ASSUME NEW p \in Proc, Flag(p)
        PROVE  current' = {Pointer(h)'}
    <3>1. p \notin overlapped /\ at[p] = "flag"
      BY <2>1 DEF Flag
    <3>2. remote_pointer = version[p] /\ version[p] # 0
      BY <3>1 DEF ServedInv, FlagAgrees, Carried, Promoting
    <3>3. current' = {version[p]} /\ remote_pointer' = remote_pointer
      BY <2>1 DEF Flag, store
    <3> QED
      BY <3>2, <3>3 DEF Pointer
  <2>2. ASSUME Quiet, ~unsettled, UNCHANGED <<current, remote_pointer>>,
               UNCHANGED local_pointer \/ \E k \in Host : Restart(k)
        PROVE  current' = {Pointer(h)'}
    <3>1. \A k \in Host : current = {Pointer(k)}
      BY <2>2 DEF ServedInv, CurrentIsServed, Quiet
    <3>2. CASE remote_pointer # 0
      BY <2>2, <3>1, <3>2 DEF Pointer
    <3>3. CASE remote_pointer = 0
      <4>1. \A k \in Host : current = {local_pointer[k]}
        BY <3>1, <3>3 DEF Pointer
      <4>2. current = {1}
        BY <4>1 DEF ServedInv, Host
      <4>3. local_pointer[h] = 1
        BY <4>1, <4>2
      <4>4. local_pointer'[h] = 1
        BY <2>2, <4>3 DEF Restart
      <4> QED
        BY <2>2, <3>3, <4>2, <4>4 DEF Pointer
    <3> QED
      BY <3>2, <3>3
  <2> QED
    BY <2>1, <2>2, SettledStep
<1> QED
  BY <1>1, <1>2 DEF ServedInv

\* The version the console shows as current is the one that is served, on
\* every host, from the end of a promotion on that nothing overlapped.
THEOREM ShownIsServed == Spec => []CurrentIsServed
<1>1. Init => ServedInv
  <2> SUFFICES ASSUME Init PROVE ServedInv
    OBVIOUS
  <2> QED
    BY DEF Init, ServedInv, CurrentIsServed, FlagAgrees, Pointer, Host
<1>2. ServedInv => CurrentIsServed
  BY DEF ServedInv
<1>3. ModelInv => WorkInv
  BY DEF ModelInv
<1>4. Spec => []ServedInv
  BY <1>1, <1>3, ModelInvariant, ServedNext, PTL DEF Spec
<1> QED
  BY <1>2, <1>4, PTL

-----------------------------------------------------------------------------
\* What becomes of corrections.  A training is tainted once it shares its time,
\* and then perhaps its number, with another.
Tainted(p) ==
    \/ at[p] = "pick" /\ p \in overlapped
    \/ at[p] \in Numbered /\ version[p] \in contested

\* A training has the corrections it took, but for those without a body.
FoldsAgree(p) ==
    /\ at[p] \in Training =>
          folded[p] \subseteq batch[p] /\ batch[p] \ folded[p] \subseteq purged
    /\ at[p] \in {"upload", "record"} =>
          have[p] \in 1..trainings /\ contents[have[p]] = folded[p]

RowsHold ==
    \A v \in Registered :
        /\ row_of[v] \in 1..trainings
        /\ \A c \in contents[row_of[v]] : feedback[c] = "used"

UsedIsFolded ==
    \A c \in Correction : feedback[c] = "used" =>
        c \in purged \/ \E v \in Registered : c \in contents[row_of[v]]

OneUntainted ==
    \A p, q \in Proc :
        p # q /\ at[p] \in Training /\ at[q] \in Training => Tainted(p) \/ Tainted(q)

\* What an untainted training is folding in, no row has.
Apart(p) ==
    at[p] \in Training /\ ~Tainted(p) =>
        \A v \in Registered \ contested : folded[p] \cap contents[row_of[v]] = {}

Disjoint ==
    \A v, w \in Registered \ contested :
        v # w => contents[row_of[v]] \cap contents[row_of[w]] = {}

FoldInv ==
    /\ RowsHold /\ UsedIsFolded /\ OneUntainted /\ Disjoint
    /\ \A p \in Proc : FoldsAgree(p) /\ Apart(p)

\* A training already over keeps its corrections; and a mark is not taken back.
LEMMA LearntStep ==
  ASSUME TypeInv, [Next]_vars
  PROVE  /\ 1..trainings \subseteq 1..trainings'
         /\ \A n \in 1..trainings : contents'[n] = contents[n]
<1> USE DEF TypeInv, TypeOK
<1>1. CASE UNCHANGED learnt
  BY <1>1 DEF learnt
<1>2. ASSUME NEW p \in Proc, Dump(p)
      PROVE  /\ 1..trainings \subseteq 1..trainings'
             /\ \A n \in 1..trainings : contents'[n] = contents[n]
  <2>1. trainings' = trainings + 1 /\ trainings \in 1..MaxTrainings
    BY <1>2 DEF Dump, Number
  <2>2. 1..trainings \subseteq 1..trainings'
    BY <2>1, ModelGovernanceAssumption
  <2>3. \A n \in 1..trainings : n \in Number /\ n # trainings + 1
    BY <2>1, ModelGovernanceAssumption DEF Number
  <2>4. \A n \in Number : n # trainings + 1 => contents'[n] = contents[n]
    BY <1>2 DEF Dump
  <2> QED
    BY <2>2, <2>3, <2>4
<1>3. ASSUME NEW p \in Proc, Act(p), ~Dump(p)
      PROVE  UNCHANGED learnt
  BY <1>3 DEF Act, Ask, Reload, ReloadFails, Answer, Promote, Point, Put,
     PutFails, Flag, Retrain, Pick, Upload, UploadFails, Record, RecordFails,
     Crash, Die
<1>4. ASSUME NEW c \in Correction, Correct(c) \/ Purge(c)
      PROVE  UNCHANGED learnt
  BY <1>4 DEF Correct, Purge
<1>5. ASSUME NEW h \in Host, Restart(h)
      PROVE  UNCHANGED learnt
  BY <1>5 DEF Restart, Die
<1>6. CASE UNCHANGED vars
  BY <1>1, <1>6 DEF vars
<1> QED
  BY <1>1, <1>2, <1>3, <1>4, <1>5, <1>6 DEF Next

LEMMA MarksStep ==
  ASSUME TypeInv, [Next]_vars
  PROVE  /\ purged \subseteq purged'
         /\ \A c \in Correction :
               /\ feedback[c] = "used" => feedback'[c] = "used"
               /\ feedback'[c] = "used" =>
                     \/ feedback[c] = "used"
                     \/ \E p \in Proc : Record(p) /\ c \in batch[p]
<1> USE DEF TypeInv, TypeOK
<1> DEFINE Goal == /\ purged \subseteq purged'
                   /\ \A c \in Correction :
                         /\ feedback[c] = "used" => feedback'[c] = "used"
                         /\ feedback'[c] = "used" =>
                               \/ feedback[c] = "used"
                               \/ \E p \in Proc : Record(p) /\ c \in batch[p]
<1>1. CASE UNCHANGED <<feedback, purged>>
  BY <1>1
<1>2. ASSUME NEW p \in Proc, Record(p)
      PROVE  Goal
  <2>1. /\ UNCHANGED purged
        /\ \A c \in Correction :
              feedback'[c] = IF c \in batch[p] THEN "used" ELSE feedback[c]
    BY <1>2 DEF Record, Used
  <2> QED
    BY <1>2, <2>1
<1>3. ASSUME NEW c \in Correction, Correct(c)
      PROVE  Goal
  BY <1>3 DEF Correct
<1>4. ASSUME NEW c \in Correction, Purge(c)
      PROVE  Goal
  BY <1>4 DEF Purge
<1>5. ASSUME NEW p \in Proc, Act(p), ~Record(p)
      PROVE  UNCHANGED <<feedback, purged>>
  BY <1>5 DEF Act, Ask, Reload, ReloadFails, Answer, Promote, Point, Put,
     PutFails, Flag, Retrain, Pick, Dump, Upload, UploadFails, RecordFails,
     Crash, Die, database
<1>6. ASSUME NEW h \in Host, Restart(h)
      PROVE  UNCHANGED <<feedback, purged>>
  BY <1>6 DEF Restart, Die, database
<1>7. CASE UNCHANGED vars
  BY <1>7 DEF vars, database
<1> QED
  BY <1>1, <1>2, <1>3, <1>4, <1>5, <1>6, <1>7 DEF Next

\* A row is an old one, or the one that a training has just recorded.
LEMMA RowStep ==
  ASSUME TypeInv, ModelInv, [Next]_vars, NEW v \in Registered'
  PROVE  \/ v \in Registered /\ row_of'[v] = row_of[v]
         \/ \E p \in Proc : /\ Record(p) /\ v = version[p]
                            /\ row_of'[v] = have[p]
<1> USE DEF TypeInv, TypeOK
<1>1. CASE v \in Registered
  BY <1>1, RecordedStable DEF ModelInv
<1>2. CASE v \notin Registered
  <2>1. PICK p \in Proc : Record(p)
    BY <1>2, DataStep DEF ModelInv, Registered, Caching, Wiping, Dump, Upload,
                          database
  <2>2. version[p] \in Number
    BY <2>1 DEF Record, ModelInv, NumberAgrees, Numbered
  <2> QED
    BY <1>2, <2>1, <2>2 DEF Record, Registered
<1> QED
  BY <1>1, <1>2

\* What a training holds does not change under it.
LEMMA TrainingKept ==
  ASSUME TypeInv, [Next]_vars, NEW p \in Proc, at[p] \in Training,
         at'[p] \in Training
  PROVE  /\ UNCHANGED <<batch[p], folded[p]>>
         /\ UNCHANGED <<at[p], version[p], have[p]>> \/ Pick(p) \/ Dump(p) \/ Upload(p)
<1> USE DEF TypeInv, TypeOK
<1>1. CASE Pick(p) \/ Dump(p) \/ Upload(p)
  BY <1>1 DEF Pick, Dump, Upload, work
<1>2. ASSUME Act(p), ~Pick(p), ~Dump(p), ~Upload(p)
      PROVE  FALSE
  <2>1. ~(Ask(p) \/ Reload(p) \/ ReloadFails(p) \/ Answer(p))
    BY DEF Ask, Reload, ReloadFails, Answer, Training
  <2>2. ~((\E v \in Number : Promote(p, v)) \/ Point(p) \/ Put(p) \/ Retrain(p)
          \/ PutFails(p) \/ Flag(p))
    BY DEF Promote, Point, Put, Retrain, PutFails, Flag, Training
  <2>3. ~(UploadFails(p) \/ Record(p) \/ RecordFails(p))
    BY DEF UploadFails, Record, RecordFails, Ends, Goes, Training
  <2>4. ~Crash(p)
    BY DEF Crash, Die, Training
  <2> QED
    BY <1>2, <2>1, <2>2, <2>3, <2>4 DEF Act
<1>3. CASE ~Act(p)
  BY <1>3, OthersLocals DEF Training
<1> QED
  BY <1>1, <1>2, <1>3

LEMMA FoldsAgreeNext ==
  ASSUME TypeInv, FoldInv, [Next]_vars, NEW p \in Proc
  PROVE  FoldsAgree(p)'
<1> USE DEF TypeInv, TypeOK
<1>0. /\ FoldsAgree(p) /\ purged \subseteq purged'
      /\ 1..trainings \subseteq 1..trainings'
      /\ \A n \in 1..trainings : contents'[n] = contents[n]
  BY MarksStep, LearntStep DEF FoldInv
<1>1. CASE at'[p] \notin Training
  BY <1>1 DEF FoldsAgree, Training
<1>2. CASE Retrain(p)
  BY <1>2 DEF Retrain, Goes, FoldsAgree, database
<1>3. CASE at[p] \in Training /\ at'[p] \in Training
  <2>1. /\ folded'[p] \subseteq batch'[p]
        /\ batch'[p] \ folded'[p] \subseteq purged'
    BY <1>0, <1>3, TrainingKept DEF FoldsAgree
  <2>2. ASSUME at'[p] \in {"upload", "record"}
        PROVE  have'[p] \in 1..trainings' /\ contents'[have'[p]] = folded'[p]
    <3>1. CASE Dump(p)
      <4>1. /\ have'[p] = trainings + 1 /\ trainings' = trainings + 1
            /\ trainings + 1 \in Number
        BY <3>1, ModelGovernanceAssumption DEF Dump, Number
      <4>2. contents'[trainings + 1] = folded[p] /\ folded'[p] = folded[p]
        BY <3>1, <4>1 DEF Dump
      <4>3. trainings + 1 \in 1..(trainings + 1)
        BY <4>1, ModelGovernanceAssumption DEF Number
      <4> QED
        BY <4>1, <4>2, <4>3
    <3>2. CASE Upload(p) \/ UNCHANGED <<at[p], version[p], have[p]>>
      <4>1. at[p] \in {"upload", "record"} /\ have'[p] = have[p]
        BY <2>2, <3>2 DEF Upload, work
      <4> QED
        BY <1>0, <1>3, <4>1, TrainingKept DEF FoldsAgree
    <3>3. ~Pick(p)
      BY <2>2 DEF Pick, Goes
    <3> QED
      BY <1>3, <3>1, <3>2, <3>3, TrainingKept
  <2> QED
    BY <2>1, <2>2 DEF FoldsAgree
<1> QED
  BY <1>1, <1>2, <1>3, WorkBegins

LEMMA RowsHoldNext ==
  ASSUME TypeInv, ModelInv, FoldInv, [Next]_vars
  PROVE  RowsHold'
<1> USE DEF TypeInv, TypeOK
<1> SUFFICES ASSUME NEW v \in Registered'
             PROVE  /\ row_of'[v] \in 1..trainings'
                    /\ \A c \in contents'[row_of'[v]] : feedback'[c] = "used"
  BY DEF RowsHold
<1>0. /\ 1..trainings \subseteq 1..trainings'
      /\ \A n \in 1..trainings : contents'[n] = contents[n]
      /\ \A c \in Correction : feedback[c] = "used" => feedback'[c] = "used"
  BY MarksStep, LearntStep
<1>3. \A n \in 1..trainings : contents[n] \subseteq Correction
  <2>1. \A n \in 1..trainings : n \in Number
    BY ModelGovernanceAssumption DEF Number
  <2> QED
    BY <2>1
<1>1. CASE v \in Registered /\ row_of'[v] = row_of[v]
  <2>1. row_of[v] \in 1..trainings /\ \A c \in contents[row_of[v]] : feedback[c] = "used"
    BY <1>1 DEF FoldInv, RowsHold
  <2> QED
    BY <1>0, <1>1, <1>3, <2>1
<1>2. ASSUME NEW p \in Proc, Record(p), v = version[p], row_of'[v] = have[p]
      PROVE  /\ row_of'[v] \in 1..trainings'
             /\ \A c \in contents'[row_of'[v]] : feedback'[c] = "used"
  <2>1. /\ have[p] \in 1..trainings /\ contents[have[p]] = folded[p]
        /\ folded[p] \subseteq batch[p]
    BY <1>2 DEF Record, FoldInv, FoldsAgree, Training
  <2>2. \A c \in batch[p] : feedback'[c] = "used"
    BY <1>2 DEF Record, Used
  <2> QED
    BY <1>0, <1>2, <2>1, <2>2
<1> QED
  BY <1>1, <1>2, RowStep

LEMMA UsedIsFoldedNext ==
  ASSUME TypeInv, ModelInv, FoldInv, [Next]_vars
  PROVE  UsedIsFolded'
<1> USE DEF TypeInv, TypeOK
<1> SUFFICES ASSUME NEW c \in Correction, feedback'[c] = "used"
             PROVE  c \in purged' \/ \E v \in Registered' : c \in contents'[row_of'[v]]
  BY DEF UsedIsFolded
<1>0. /\ purged \subseteq purged'
      /\ \A n \in 1..trainings : contents'[n] = contents[n]
  BY MarksStep, LearntStep
<1>1. CASE feedback[c] = "used"
  <2>1. CASE c \in purged
    BY <1>0, <2>1
  <2>2. ASSUME NEW v \in Registered, c \in contents[row_of[v]]
        PROVE  v \in Registered' /\ c \in contents'[row_of'[v]]
    <3>1. v \in Registered' /\ row_of'[v] = row_of[v]
      BY <2>2, RecordedStable DEF ModelInv
    <3>2. row_of[v] \in 1..trainings
      BY <2>2 DEF FoldInv, RowsHold
    <3> QED
      BY <1>0, <2>2, <3>1, <3>2
  <2> QED
    BY <1>1, <2>1, <2>2 DEF FoldInv, UsedIsFolded
<1>2. ASSUME NEW p \in Proc, Record(p), c \in batch[p]
      PROVE  c \in purged' \/ \E v \in Registered' : c \in contents'[row_of'[v]]
  <2>1. /\ have[p] \in 1..trainings /\ contents[have[p]] = folded[p]
        /\ batch[p] \ folded[p] \subseteq purged
    BY <1>2 DEF Record, FoldInv, FoldsAgree, Training
  <2>2. version[p] \in Number
    BY <1>2 DEF Record, ModelInv, NumberAgrees, Numbered
  <2>3. row_of'[version[p]] = have[p]
    BY <1>2, <2>2 DEF Record
  <2>4. version[p] \in Registered'
    BY <2>1, <2>2, <2>3, ModelGovernanceAssumption DEF Registered
  <2>5. CASE c \in folded[p]
    BY <1>0, <2>1, <2>3, <2>4, <2>5
  <2>6. CASE c \notin folded[p]
    BY <1>0, <1>2, <2>1, <2>6
  <2> QED
    BY <2>5, <2>6
<1> QED
  BY <1>1, <1>2, MarksStep

LEMMA TaintedStays ==
  ASSUME TypeInv, ModelInv, [Next]_vars, NEW p \in Proc,
         at[p] \in Training, at'[p] \in Training, Tainted(p)
  PROVE  Tainted(p)'
<1> USE DEF TypeInv, TypeOK
<1>0. contested \subseteq contested'
  BY ContestedStable
<1>1. CASE at[p] = "pick" /\ p \in overlapped
  <2>1. CASE Pick(p)
    <3>1. PICK v \in Number :
            /\ version' = [version EXCEPT ![p] = v]
            /\ contested' = IF p \in overlapped THEN contested \cup {v}
                            ELSE contested
      BY <2>1 DEF Pick
    <3>2. at'[p] = "dump"
      BY <2>1 DEF Pick, Goes
    <3> QED
      BY <1>1, <3>1, <3>2 DEF Tainted, Numbered
  <2>2. CASE ~Pick(p)
    <3>1. at'[p] = "pick"
      BY <1>1, <2>2, TrainingKept DEF Dump, Upload
    <3>2. p \in overlapped'
      BY <1>1, <3>1, OverlapStays DEF ModelInv, WorkInv, Training
    <3> QED
      BY <3>1, <3>2 DEF Tainted
  <2> QED
    BY <2>1, <2>2
<1>2. CASE at[p] \in Numbered /\ version[p] \in contested
  <2>1. at'[p] \in Numbered /\ version'[p] = version[p]
    BY <1>2, TrainingKept DEF Pick, Dump, Upload, Goes, work, Numbered
  <2> QED
    BY <1>0, <1>2, <2>1 DEF Tainted
<1> QED
  BY <1>1, <1>2 DEF Tainted

LEMMA OneUntaintedNext ==
  ASSUME TypeInv, ModelInv, FoldInv, [Next]_vars
  PROVE  OneUntainted'
<1> SUFFICES ASSUME NEW p \in Proc, NEW q \in Proc, p # q,
                    at'[p] \in Training, at'[q] \in Training
             PROVE  Tainted(p)' \/ Tainted(q)'
  BY DEF OneUntainted
<1>1. CASE at[p] \in Training /\ at[q] \in Training
  BY <1>1, TaintedStays DEF FoldInv, OneUntainted
<1>2. ASSUME NEW r \in {p, q}, Retrain(r)
      PROVE  Tainted(p)' \/ Tainted(q)'
  <2>1. at'[r] = "pick"
    BY <1>2 DEF Retrain, Goes, TypeInv, TypeOK
  <2>2. r \in overlapped'
    BY <1>2, BeginnersOverlap DEF ModelInv, WorkInv
  <2> QED
    BY <2>1, <2>2 DEF Tainted
<1> QED
  BY <1>1, <1>2, WorkBegins

\* A row that an untainted training leaves names the version it took.
LEMMA RecordsUntainted ==
  ASSUME TypeInv, ModelInv, FoldInv, [Next]_vars, NEW p \in Proc, Record(p),
         version[p] \notin contested'
  PROVE  /\ at[p] \in Training /\ ~Tainted(p)
         /\ have[p] \in 1..trainings /\ contents[have[p]] = folded[p]
<1>1. version[p] \notin contested
  BY ContestedStable
<1>2. at[p] = "record"
  BY DEF Record
<1> QED
  BY <1>1, <1>2 DEF FoldInv, FoldsAgree, Training, Tainted

LEMMA ApartNext ==
  ASSUME TypeInv, ModelInv, FoldInv, [Next]_vars, NEW p \in Proc
  PROVE  Apart(p)'
<1> SUFFICES ASSUME at'[p] \in Training, ~Tainted(p)', NEW v \in Registered',
                    v \notin contested'
             PROVE  folded'[p] \cap contents'[row_of'[v]] = {}
  BY DEF Apart
<1> USE DEF TypeInv, TypeOK
<1>0. /\ contested \subseteq contested'
      /\ \A n \in 1..trainings : contents'[n] = contents[n]
  BY ContestedStable, LearntStep
<1>1. CASE Retrain(p)
  <2>1. v \in Registered /\ row_of'[v] = row_of[v] /\ contents' = contents
    BY <1>1 DEF Retrain, database, Registered, learnt
  <2>2. \A c \in contents[row_of[v]] : feedback[c] = "used"
    BY <2>1 DEF FoldInv, RowsHold
  <2>3. \A c \in folded'[p] : feedback[c] = "pending"
    BY <1>1 DEF Retrain
  <2> QED
    BY <2>1, <2>2, <2>3
<1>2. CASE at[p] \in Training
  <2>1. ~Tainted(p) /\ folded'[p] = folded[p]
    BY <1>2, TaintedStays, TrainingKept
  <2>2. CASE v \in Registered /\ row_of'[v] = row_of[v]
    <3>1. row_of[v] \in 1..trainings
      BY <2>2 DEF FoldInv, RowsHold
    <3>2. folded[p] \cap contents[row_of[v]] = {}
      BY <1>0, <1>2, <2>1, <2>2 DEF FoldInv, Apart
    <3> QED
      BY <1>0, <2>1, <2>2, <3>1, <3>2
  <2>3. ASSUME NEW q \in Proc, Record(q), v = version[q]
        PROVE  FALSE
    <3>1. at[q] \in Training /\ ~Tainted(q)
      BY <2>3, RecordsUntainted
    <3>2. q # p
      BY <2>3 DEF Record, Ends, Goes, Training
    <3> QED
      BY <1>2, <2>1, <3>1, <3>2 DEF FoldInv, OneUntainted
  <2> QED
    BY <2>2, <2>3, RowStep
<1> QED
  BY <1>1, <1>2, WorkBegins

LEMMA DisjointNext ==
  ASSUME TypeInv, ModelInv, FoldInv, [Next]_vars
  PROVE  Disjoint'
<1> USE DEF TypeInv, TypeOK
<1>0. /\ contested \subseteq contested'
      /\ \A n \in 1..trainings : contents'[n] = contents[n]
      /\ \A v \in Registered : row_of[v] \in 1..trainings
  BY ContestedStable, LearntStep DEF FoldInv, RowsHold
<1> DEFINE Old(v) == v \in Registered \ contested /\ row_of'[v] = row_of[v]
           New(v) == \E p \in Proc : /\ Record(p) /\ v = version[p]
                                     /\ row_of'[v] = have[p]
<1> SUFFICES ASSUME NEW v \in Registered' \ contested',
                    NEW w \in Registered' \ contested', v # w
             PROVE  contents'[row_of'[v]] \cap contents'[row_of'[w]] = {}
  BY DEF Disjoint
<1>1. (Old(v) \/ New(v)) /\ (Old(w) \/ New(w))
  BY <1>0, RowStep
<1>2. ASSUME NEW u, Old(u)
      PROVE  contents'[row_of'[u]] = contents[row_of[u]]
  <2>1. row_of[u] \in 1..trainings /\ row_of'[u] = row_of[u]
    BY <1>0, <1>2
  <2> QED
    BY <1>0, <2>1
<1>3. CASE Old(v) /\ Old(w)
  BY <1>2, <1>3 DEF FoldInv, Disjoint
<1>4. ASSUME NEW x \in Registered' \ contested', NEW y, New(x), Old(y)
      PROVE  contents'[row_of'[x]] \cap contents'[row_of'[y]] = {}
  <2>1. PICK p \in Proc : Record(p) /\ x = version[p] /\ row_of'[x] = have[p]
    BY <1>4
  <2>2. /\ at[p] \in Training /\ ~Tainted(p)
        /\ have[p] \in 1..trainings /\ contents[have[p]] = folded[p]
    BY <1>4, <2>1, RecordsUntainted
  <2>3. folded[p] \cap contents[row_of[y]] = {}
    BY <1>4, <2>2 DEF FoldInv, Apart
  <2>4. contents'[row_of'[x]] = folded[p]
    BY <1>0, <2>1, <2>2
  <2> QED
    BY <1>2, <1>4, <2>3, <2>4
<1>5. CASE New(v) /\ New(w)
  <2>1. PICK p \in Proc : Record(p) /\ v = version[p]
    BY <1>5
  <2>2. PICK q \in Proc : Record(q) /\ w = version[q]
    BY <1>5
  <2>3. p # q /\ at[p] = "record" /\ at[q] = "record"
    BY <2>1, <2>2 DEF Record
  <2>4. at'[p] = "idle" /\ at'[q] = at[q]
    BY <2>1, <2>3 DEF Record, Ends, Goes
  <2>5. at'[q] = "idle"
    BY <2>2 DEF Record, Ends, Goes
  <2> QED
    BY <2>3, <2>4, <2>5
<1> HIDE DEF Old, New
<1>6. CASE New(v) /\ Old(w)
  BY <1>4, <1>6
<1>7. CASE Old(v) /\ New(w)
  BY <1>4, <1>7
<1> QED
  BY <1>1, <1>3, <1>5, <1>6, <1>7

LEMMA FoldNext ==
  TypeInv /\ ModelInv /\ FoldInv /\ [Next]_vars => FoldInv'
<1> SUFFICES ASSUME TypeInv, ModelInv, FoldInv, [Next]_vars
             PROVE  FoldInv'
  OBVIOUS
<1>1. \A p \in Proc : FoldsAgree(p)' /\ Apart(p)'
  BY FoldsAgreeNext, ApartNext
<1> QED
  BY <1>1, RowsHoldNext, UsedIsFoldedNext, OneUntaintedNext, DisjointNext
     DEF FoldInv

LEMMA FoldInit == Init => FoldInv
<1> SUFFICES ASSUME Init PROVE FoldInv
  OBVIOUS
<1>1. Registered = {1} /\ row_of[1] = 1
  BY OneIsNumber DEF Init, OnlyShipped, Registered
<1>2. RowsHold
  BY <1>1, OneIsNumber DEF Init, RowsHold
<1>3. UsedIsFolded /\ Disjoint
  BY <1>1 DEF Init, UsedIsFolded, Disjoint
<1>4. OneUntainted /\ \A p \in Proc : FoldsAgree(p) /\ Apart(p)
  BY DEF Init, OneUntainted, FoldsAgree, Apart, Training
<1> QED
  BY <1>2, <1>3, <1>4 DEF FoldInv

\* No correction is marked as used unless a recorded version learnt from it or
\* its text is gone, however trainings overlap, fail or die; and versions that
\* no two trainings took at once never have a correction in common.
THEOREM FoldedOnce == Spec => []CorrectionsFoldedOnce
<1>1. FoldInv => CorrectionsFoldedOnce
  BY DEF FoldInv, UsedIsFolded, Disjoint, CorrectionsFoldedOnce
<1>2. Spec => []FoldInv
  BY FoldInit, FoldNext, ModelInvariant, PTL DEF Spec
<1> QED
  BY <1>1, <1>2, PTL
=============================================================================
