---------------------------- MODULE GmailProofs ----------------------------
(***************************************************************************)
(* What the sync passes of GmailSync guarantee for any number of messages, *)
(* passes and failures; then what GmailReview does for any number of       *)
(* administrators, while the passes go on.                                 *)
(***************************************************************************)
EXTENDS GmailReview, FiniteSetTheorems, SequenceTheorems, TLAPS

-----------------------------------------------------------------------------
\* What the row constructors build is a row.
LEMMA NewRowType == \A v \in Verdict : NewRow(v) \in PassRow
BY DEF Verdict, NewRow, PassRow, Row, StatusFor, ScanStatus, MailboxAction

LEMMA ActionType == \A v \in Verdict : ActionFor(v) \in MailboxAction \ {"none"}
BY DEF Verdict, ActionFor, MailboxAction

LEMMA BlankRowType == BlankRow \in PassRow /\ BlankRow \in Row
BY NewRowType DEF BlankRow, Verdict, PassRow

LEMMA DraftIsRow == PassTypeOK => \A p \in Proc : draft[p] \in Row
BY DEF PassTypeOK, PassRow

\* The row of a pass after its label call.
LEMMA ActedRow ==
  \A row \in PassRow :
      /\ [row EXCEPT !.mailbox_action = ActionFor(row.classification)] \in PassRow
      /\ FailedRow(row) \in PassRow
<1> SUFFICES ASSUME NEW row \in PassRow
             PROVE  /\ [row EXCEPT !.mailbox_action = ActionFor(row.classification)] \in PassRow
                    /\ FailedRow(row) \in PassRow
  OBVIOUS
<1>1. row \in Row /\ row.classification \in Verdict
  BY DEF PassRow, Row
<1>2. ActionFor(row.classification) \in MailboxAction
  BY <1>1, ActionType
<1>3. [row EXCEPT !.mailbox_action = ActionFor(row.classification)] \in PassRow
  BY <1>1, <1>2 DEF PassRow, Row
<1>4. FailedRow(row) \in PassRow
  BY <1>1 DEF PassRow, Row, FailedRow
<1> QED
  BY <1>3, <1>4

LEMMA RelabelledType ==
  \A ls \in SUBSET Label, v \in Verdict :
      Relabelled(ls, ActionFor(v)) \in SUBSET Label
BY DEF Relabelled, ActionFor, Verdict, Label

LEMMA PassTypeInit == Init => PassTypeOK
BY GmailSyncAssumption, BlankRowType
   DEF Init, PassTypeOK, Label, Step, AuditEvent

\* Locals that a pass drops return to their types.
LEMMA ForgetPassType ==
  ASSUME PassTypeOK, NEW p \in Proc, ForgetPass(p)
  PROVE  /\ pc' \in [Proc -> Step]
         /\ base' \in [Proc -> Nat] /\ upto' \in [Proc -> Nat]
         /\ via' \in [Proc -> {"history", "list"}]
         /\ todo' \in [Proc -> SUBSET Msg]
         /\ left_out' \in [Proc -> SUBSET Msg]
         /\ current' \in [Proc -> Msg \cup {NoMsg}]
         /\ draft' \in [Proc -> PassRow]
BY BlankRowType DEF PassTypeOK, ForgetPass, GoTo, Step

LEMMA FaultType == faults_left \in Nat /\ (\E f : Fault(f)) => faults_left' \in Nat
BY DEF Fault

LEMMA PassTypeNext == PassTypeOK /\ [Next]_vars => PassTypeOK'
<1> SUFFICES ASSUME PassTypeOK, [Next]_vars
             PROVE  PassTypeOK'
  OBVIOUS
<1> USE DEF PassTypeOK
<1>1. ASSUME NEW m \in Msg, Arrive(m)
      PROVE  PassTypeOK'
  BY <1>1 DEF Arrive, records, batch, inHand, passedOver, Label
<1>2. ASSUME NEW p \in Proc, Begin(p)
      PROVE  PassTypeOK'
  BY <1>2 DEF Begin, GoTo, Step, mailbox, records, batch, inHand, passedOver
<1>3. ASSUME NEW p \in Proc, PassStep(p)
      PROVE  PassTypeOK'
  <2>1. CASE Connect(p)
    BY <2>1 DEF Connect, GoTo, Step, NoFault, mailbox, records, inHand, passedOver
  <2>2. CASE \/ ConnectFails(p) \/ ConnectRefused(p) \/ DiscoverFails(p)
             \/ \E m \in Msg : ProcessRaises(p, m)
    <3>1. faults_left' \in Nat
      BY <2>2, FaultType DEF ConnectFails, ConnectRefused, GrantRefused, NoFault,
                             DiscoverFails, ProcessRaises
    <3> QED
      BY <2>2, <3>1 DEF ConnectFails, ConnectRefused, DiscoverFails, ProcessRaises,
                        GoTo, Step, mailbox, records, batch, inHand, passedOver
  <2>3. CASE ListHistory(p)
    BY <2>3 DEF ListHistory, Discovered, GoTo, Step, NoFault, FirstOnes, AddedSince,
                mailbox, records, inHand, passedOver
  <2>4. CASE ListRecent(p)
    BY <2>4 DEF ListRecent, Discovered, GoTo, Step, NoFault, Fault, FirstOnes,
                RecentInbox, Inbox, mailbox, records, inHand, passedOver
  <2>5. ASSUME NEW m \in Msg, NEW v \in Verdict, Classify(p, m, v)
        PROVE  PassTypeOK'
    BY <2>5, NewRowType DEF Classify, GoTo, Step, NoFault, mailbox, records,
                            batch, passedOver
  <2>6. ASSUME NEW m \in Msg, RetrieveFails(p, m)
        PROVE  PassTypeOK'
    BY <2>6 DEF RetrieveFails, Fault, Drop, AuditEvent, mailbox, inHand, passedOver
  <2>7. ASSUME NEW m \in Msg, ClassifyFails(p, m)
        PROVE  PassTypeOK'
    <3>1. faults_left' \in Nat
      BY <2>7, FaultType DEF ClassifyFails
    <3>2. labels' \in [Msg -> SUBSET Label]
      <4>1. CASE UNCHANGED labels
        BY <4>1
      <4>2. CASE labels' = [labels EXCEPT
                   ![m] = labels[m] \cup {"ScanFailed"}]
        BY <4>2 DEF Label
      <4> QED
        BY <2>7, <4>1, <4>2 DEF ClassifyFails
    <3>3. audit' \subseteq AuditEvent \X Msg
      BY <2>7 DEF ClassifyFails, AuditEvent
    <3> QED
      BY <2>7, <3>1, <3>2, <3>3 DEF ClassifyFails, Drop, inHand, passedOver
  <2>8. CASE Act(p)
    <3> DEFINE action == ActionFor(draft[p].classification)
    <3>1. \A ls \in SUBSET Label : Relabelled(ls, action) \in SUBSET Label
      BY RelabelledType, DraftIsRow DEF Row
    <3>2. draft' \in [Proc -> PassRow]
      BY <2>8, ActedRow DEF Act
    <3>3. labels' \in [Msg -> SUBSET Label]
      BY <2>8, <3>1 DEF Act
    <3> QED
      BY <2>8, <3>2, <3>3 DEF Act, GoTo, Step, NoFault, records, batch, passedOver
  <2>9. CASE ActFails(p)
    <3> DEFINE action == ActionFor(draft[p].classification)
    <3>1. \A ls \in SUBSET Label : Relabelled(ls, action) \in SUBSET Label
      BY RelabelledType, DraftIsRow DEF Row
    <3>2. draft' \in [Proc -> PassRow]
      BY <2>9, ActedRow DEF ActFails
    <3>3. labels' \in [Msg -> SUBSET Label]
      <4>1. CASE UNCHANGED labels
        BY <4>1
      <4>2. CASE labels' = [labels EXCEPT
                   ![current[p]] = Relabelled(labels[current[p]], action)]
        BY <4>2, <3>1
      <4> QED
        BY <2>9, <4>1, <4>2 DEF ActFails
    <3>4. faults_left' \in Nat
      BY <2>9, FaultType DEF ActFails
    <3> QED
      BY <2>9, <3>2, <3>3, <3>4 DEF ActFails, GoTo, Step, records, batch, passedOver
  <2>10. CASE Store(p)
    <3>1. scans' \in [Msg -> Seq(Row)]
      <4>1. <<draft[p]>> \in Seq(Row)
        BY DraftIsRow
      <4> QED
        BY <2>10, <4>1 DEF Store, Insert
    <3> QED
      BY <2>10, <3>1, BlankRowType
         DEF Store, Stored, Drop, GoTo, Step, NoFault, mailbox, passedOver
  <2>11. CASE StoreIdClash(p)
    BY <2>11, BlankRowType DEF StoreIdClash, Fault, Stored, Drop, GoTo, Step,
                               mailbox, records
  <2>12. CASE StoreBreaks(p) \/ Release(p)
    BY <2>12, ForgetPassType
       DEF StoreBreaks, Release, NoFault, mailbox, records, passedOver
  <2>13. CASE Advance(p)
    BY <2>13 DEF Advance, Covered, GoTo, Step, NoFault, mailbox, records,
                 batch, inHand
  <2> QED
    BY <1>3, <2>1, <2>2, <2>3, <2>4, <2>5, <2>6, <2>7, <2>8, <2>9, <2>10,
       <2>11, <2>12, <2>13 DEF PassStep, Handle
<1>4. ASSUME NEW p \in Proc, Crash(p)
      PROVE  PassTypeOK'
  BY <1>4, ForgetPassType DEF Crash, Fault, mailbox, records, passedOver
<1>5. CASE WatchCall
  BY <1>5 DEF WatchCall, Fault, mailbox, records, batch, inHand, passedOver
<1>8. CASE Reconnect
  BY <1>8 DEF Reconnect, mailbox, records, batch, inHand, passedOver
<1>7. CASE WatchStore
  BY <1>7 DEF WatchStore, mailbox, records, batch, inHand
<1>6. CASE TimePasses \/ UNCHANGED vars
  BY <1>6 DEF TimePasses, vars, mailbox, records, batch, inHand, passedOver
<1> QED
  BY <1>1, <1>2, <1>3, <1>4, <1>5, <1>6, <1>7, <1>8 DEF Next, Poll, ScanNow

-----------------------------------------------------------------------------
(***************************************************************************)
(* The passes use the lock of SyncLock and touch it in no other way, so    *)
(* what SyncLockProofs shows of the lock holds of the passes.              *)
(***************************************************************************)
LockProofs == INSTANCE SyncLockProofs

LEMMA LockStep == [Next]_vars => [Lock!Next]_(Lock!vars)
<1> SUFFICES ASSUME [Next]_vars
             PROVE  Lock!Next \/ UNCHANGED lock
  BY DEF Lock!vars, lock
<1>1. ASSUME NEW m \in Msg, Arrive(m)
      PROVE  UNCHANGED lock
  BY <1>1 DEF Arrive
<1>2. ASSUME NEW p \in Proc, Begin(p)
      PROVE  Lock!Acquire(p)
  BY <1>2 DEF Begin
<1>3. ASSUME NEW p \in Proc, PassStep(p)
      PROVE  UNCHANGED lock \/ Lock!Release(p) \/ Lock!Abandon(p)
  BY <1>3 DEF PassStep, Connect, ConnectFails, ConnectRefused, ListHistory, ListRecent, Discovered,
              DiscoverFails, Handle, Classify, RetrieveFails, ClassifyFails, ProcessRaises,
              Act, ActFails, Store, StoreIdClash, StoreBreaks, Advance,
              Release
<1>4. ASSUME NEW p \in Proc, Crash(p)
      PROVE  Lock!Abandon(p)
  BY <1>4 DEF Crash
<1>5. CASE WatchCall \/ WatchStore \/ Reconnect \/ UNCHANGED vars
  BY <1>5 DEF WatchCall, WatchStore, Reconnect, vars
<1>6. CASE TimePasses
  BY <1>6 DEF TimePasses, Lock!Next
<1> QED
  BY <1>1, <1>2, <1>3, <1>4, <1>5, <1>6 DEF Next, Poll, ScanNow, Lock!Next

\* Every behaviour of the passes is a behaviour of the lock.
THEOREM PassesUseTheLock == Spec => Lock!Spec
<1>1. Init => Lock!Init
  BY DEF Init
<1> QED
  BY <1>1, LockStep, PTL DEF Spec, Lock!Spec

LEMMA LockAssumption == LockProofs!LockConstants
BY GmailSyncAssumption DEF LockProofs!LockConstants

\* The two instances of SyncLock, the component's and the proofs', agree.
LEMMA SameLock ==
  /\ Lock!Init <=> LockProofs!Init
  /\ [Lock!Next]_(Lock!vars) <=> [LockProofs!Next]_(LockProofs!vars)
  /\ Lock!TypeOK <=> LockProofs!TypeOK
  /\ Lock!OneRunner <=> LockProofs!OneRunner
<1>1. Lock!Next <=> LockProofs!Next
  BY DEF Lock!Next, Lock!Acquire, Lock!Available, Lock!Release, Lock!Abandon,
         Lock!Tick, LockProofs!Next, LockProofs!Acquire, LockProofs!Available,
         LockProofs!Release, LockProofs!Abandon, LockProofs!Tick
<1>2. (UNCHANGED Lock!vars) <=> (UNCHANGED LockProofs!vars)
  BY DEF Lock!vars, LockProofs!vars
<1>3. Lock!Init <=> LockProofs!Init
  BY DEF Lock!Init, LockProofs!Init
<1>4. /\ Lock!TypeOK <=> LockProofs!TypeOK
      /\ Lock!OneRunner <=> LockProofs!OneRunner
  BY DEF Lock!TypeOK, LockProofs!TypeOK, Lock!OneRunner, LockProofs!OneRunner
<1> QED
  BY <1>1, <1>2, <1>3, <1>4

\* Type correctness: columns, mailbox, locals and lock keep their types.
THEOREM TypeCorrect == Spec => []TypeOK
<1>1. Init => TypeOK
  BY PassTypeInit, LockAssumption, SameLock, LockProofs!TypeCorrectInit
     DEF Init, TypeOK
<1>2. TypeOK /\ [Next]_vars => TypeOK'
  <2> SUFFICES ASSUME TypeOK, [Next]_vars
               PROVE  TypeOK'
    OBVIOUS
  <2>1. PassTypeOK'
    BY PassTypeNext DEF TypeOK
  <2>2. LockProofs!TypeOK'
    BY LockAssumption, LockStep, SameLock, LockProofs!TypeCorrectNext
       DEF TypeOK
  <2>3. Lock!TypeOK'
    BY <2>2 DEF Lock!TypeOK, LockProofs!TypeOK
  <2> QED
    BY <2>1, <2>3 DEF TypeOK
<1> QED
  BY <1>1, <1>2, PTL DEF Spec

-----------------------------------------------------------------------------
\* A process holds the lock exactly while it is inside a pass.
LEMMA PassMeansLockNext ==
  PassTypeOK /\ PassMeansLock /\ [Next]_vars => PassMeansLock'
<1> SUFFICES ASSUME PassTypeOK, PassMeansLock, [Next]_vars
             PROVE  PassMeansLock'
  OBVIOUS
<1> USE DEF PassTypeOK, PassMeansLock
<1>1. ASSUME UNCHANGED <<pc, running>>
      PROVE  PassMeansLock'
  BY <1>1
<1>2. ASSUME NEW p \in Proc, Begin(p)
      PROVE  PassMeansLock'
  BY <1>2 DEF Begin, GoTo, Lock!Acquire
<1>3. ASSUME NEW p \in Proc, NEW step \in Step \ {"idle"}, pc[p] # "idle",
             GoTo(p, step), UNCHANGED running
      PROVE  PassMeansLock'
  BY <1>3 DEF GoTo
<1>4. ASSUME NEW p \in Proc, Lock!Abandon(p) \/ Lock!Release(p), ForgetPass(p)
      PROVE  PassMeansLock'
  <2>1. pc' = [pc EXCEPT ![p] = "idle"] /\ running' = running \ {p}
    BY <1>4 DEF ForgetPass, GoTo, Lock!Abandon, Lock!Release
  <2> QED
    BY <2>1
<1>5. ASSUME NEW p \in Proc, PassStep(p)
      PROVE  PassMeansLock'
  <2>1. CASE Connect(p) \/ ConnectFails(p) \/ ConnectRefused(p) \/ ListHistory(p) \/ ListRecent(p)
             \/ DiscoverFails(p) \/ Act(p) \/ ActFails(p) \/ Advance(p)
    BY <2>1, <1>3 DEF Connect, ConnectFails, ConnectRefused, ListHistory, ListRecent, Discovered,
       DiscoverFails, Act, ActFails, Advance, Step, lock
  <2>2. CASE Handle(p)
    BY <2>2, <1>1, <1>3 DEF Handle, Classify, RetrieveFails, ClassifyFails, ProcessRaises,
                            Step, lock
  <2>3. CASE Store(p) \/ StoreIdClash(p)
    BY <2>3, <1>3 DEF Store, StoreIdClash, Stored, Step, lock
  <2>4. CASE StoreBreaks(p) \/ Release(p)
    BY <2>4, <1>4 DEF StoreBreaks, Release
  <2> QED
    BY <1>5, <2>1, <2>2, <2>3, <2>4 DEF PassStep
<1>6. ASSUME NEW p \in Proc, Crash(p)
      PROVE  PassMeansLock'
  BY <1>4, <1>6 DEF Crash
<1>7. ASSUME TimePasses
      PROVE  PassMeansLock'
  BY <1>1, <1>7 DEF TimePasses, Lock!Tick
<1>8. ASSUME (\E m \in Msg : Arrive(m)) \/ WatchCall \/ WatchStore
             \/ Reconnect \/ UNCHANGED vars
      PROVE  PassMeansLock'
  BY <1>1, <1>8 DEF Arrive, WatchCall, WatchStore, Reconnect, vars, lock
<1> QED
  BY <1>2, <1>5, <1>6, <1>7, <1>8 DEF Next, Poll, ScanNow

\* Two processes are never both inside a pass, crashes and takeovers of a
\* stale lock included, if no pass outlives the stale window.
THEOREM OnePass ==
  ASSUME MaxRun <= StaleAfter
  PROVE  Spec => []OnePassAtATime
<1>1. Init => PassTypeOK /\ PassMeansLock /\ LockProofs!LockInv
  BY PassTypeInit, LockAssumption, SameLock, LockProofs!LockInvInit
     DEF Init, PassMeansLock, Lock!Init
<1>2. /\ PassTypeOK /\ PassMeansLock /\ LockProofs!LockInv
      /\ [Next]_vars
      => (PassTypeOK /\ PassMeansLock /\ LockProofs!LockInv)'
  BY PassTypeNext, PassMeansLockNext, LockStep, LockAssumption, SameLock,
     LockProofs!LockInvNext
<1>3. PassMeansLock /\ LockProofs!LockInv => OnePassAtATime
  BY DEF PassMeansLock, OnePassAtATime, LockProofs!LockInv,
         LockProofs!OneRunner
<1> QED
  BY <1>1, <1>2, <1>3, PTL DEF Spec

\* The passes, with all they do to the mailbox and the rows in between,
\* implement OneSync: seen from outside there is one holder of the mailbox or
\* none, and it changes only by a start or an end.
THEOREM PassesAreOneSync ==
  ASSUME MaxRun <= StaleAfter
  PROVE  Spec => PassesImplementOneSync
<1>1. Lock!Holder = LockProofs!Holder
  BY DEF Lock!Holder, LockProofs!Holder
<1>2. Lock!Abstract!Next <=> LockProofs!Abstract!Next
  BY <1>1 DEF Lock!Abstract!Next, Lock!Abstract!Start, Lock!Abstract!Leave,
     LockProofs!Abstract!Next, LockProofs!Abstract!Start, LockProofs!Abstract!Leave,
     Lock!Holder, LockProofs!Holder
<1>3. Init => Lock!Abstract!Init
  BY DEF Init, Lock!Init, Lock!Abstract!Init, Lock!Holder
<1>4. Init => LockProofs!LockInv
  BY LockAssumption, SameLock, LockProofs!LockInvInit DEF Init
<1>5. LockProofs!LockInv /\ [Next]_vars => LockProofs!LockInv'
  BY LockStep, LockAssumption, SameLock, LockProofs!LockInvNext
<1>6. LockProofs!LockInv /\ [Next]_vars => [Lock!Abstract!Next]_(Lock!Holder)
  <2> SUFFICES ASSUME LockProofs!LockInv, [Next]_vars
               PROVE  [Lock!Abstract!Next]_(Lock!Holder)
    OBVIOUS
  <2>1. [LockProofs!Abstract!Next]_(LockProofs!Holder)
    BY LockStep, LockAssumption, SameLock, LockProofs!HolderStep
  <2>2. Lock!Holder' = LockProofs!Holder'
    BY DEF Lock!Holder, LockProofs!Holder
  <2> QED
    BY <1>1, <1>2, <2>1, <2>2
<1> QED
  BY <1>3, <1>4, <1>5, <1>6, PTL
     DEF Spec, PassesImplementOneSync, Lock!ImplementsOneSync, Lock!Abstract!Spec

-----------------------------------------------------------------------------
\* The rows of a message only ever change by the first insert.
LEMMA ScansStep ==
  ASSUME PassTypeOK, [Next]_vars
  PROVE  \/ UNCHANGED scans
         \/ \E p \in Proc :
              /\ Store(p)
              /\ scans[current[p]] = <<>>
              /\ scans' = [scans EXCEPT ![current[p]] = <<draft[p]>>]
<1>1. ASSUME NEW p \in Proc, PassStep(p), ~Store(p)
      PROVE  UNCHANGED scans
  BY <1>1 DEF PassStep, Connect, ConnectFails, ConnectRefused, ListHistory, ListRecent, Discovered,
     DiscoverFails, Handle, Classify, RetrieveFails, ClassifyFails, ProcessRaises, Act,
     ActFails, StoreIdClash, StoreBreaks, Advance, Release, records
<1>2. ASSUME NEW p \in Proc, Store(p)
      PROVE  \/ UNCHANGED scans
             \/ /\ scans[current[p]] = <<>>
                /\ scans' = [scans EXCEPT ![current[p]] = <<draft[p]>>]
  BY <1>2 DEF Store, Insert
<1>3. ASSUME \/ \E m \in Msg : Arrive(m)
             \/ \E p \in Proc : Begin(p) \/ Crash(p)
             \/ WatchCall \/ WatchStore \/ Reconnect \/ TimePasses \/ UNCHANGED vars
      PROVE  UNCHANGED scans
  BY <1>3 DEF Arrive, Begin, Crash, WatchCall, WatchStore, Reconnect, TimePasses, vars,
              records
<1> QED
  BY <1>1, <1>2, <1>3 DEF Next, Poll, ScanNow

\* What is handled stays handled.
LEMMA HandledStable ==
  ASSUME PassTypeOK, [Next]_vars, NEW m \in Msg, Handled(m)
  PROVE  Handled(m)'
<1>1. audit \subseteq audit'
  <2>1. ASSUME NEW p \in Proc, PassStep(p)
        PROVE  audit \subseteq audit'
    BY <2>1 DEF PassStep, Connect, ConnectFails, ConnectRefused, ListHistory, ListRecent, Discovered,
       DiscoverFails, Handle, Classify, RetrieveFails, ClassifyFails, ProcessRaises, Act,
       ActFails, Store, StoreIdClash, StoreBreaks, Advance, Release, records
  <2>2. ASSUME \/ \E n \in Msg : Arrive(n)
               \/ \E p \in Proc : Begin(p) \/ Crash(p)
               \/ WatchCall \/ WatchStore \/ Reconnect \/ TimePasses \/ UNCHANGED vars
        PROVE  audit \subseteq audit'
    BY <2>2 DEF Arrive, Begin, Crash, WatchCall, WatchStore, Reconnect, TimePasses,
                vars, records
  <2> QED
    BY <2>1, <2>2 DEF Next, Poll, ScanNow
<1>2. scans[m] # <<>> => scans'[m] # <<>>
  <2>1. CASE UNCHANGED scans
    BY <2>1
  <2>2. ASSUME NEW p \in Proc, scans[current[p]] = <<>>,
               scans' = [scans EXCEPT ![current[p]] = <<draft[p]>>]
        PROVE  scans[m] # <<>> => scans'[m] # <<>>
    BY <2>2 DEF PassTypeOK
  <2> QED
    BY <2>1, <2>2, ScansStep
<1> QED
  BY <1>1, <1>2 DEF Handled

-----------------------------------------------------------------------------
(***************************************************************************)
(* The completeness of syncing, up to what a pass saw and gave up and what *)
(* a watch jumped over: skipped and jumped say of each message that it     *)
(* was.  Either every discovery reads the history, which shows the labels  *)
(* a message arrived with, and then passes may die, be refused a row and   *)
(* overlap; or no pass dies or outlives the stale window, and then the     *)
(* baseline may be missing or expired and the labels those of the moment.  *)
(***************************************************************************)
HistoryIsComplete ==
    /\ HistoryLabels = "at_arrival"
    /\ FirstHistoryId = 1 /\ "expired" \notin Faults

NothingDies == MaxRun <= StaleAfter /\ "crash" \notin Faults /\ Poison = {}

Undisturbed == HistoryIsComplete \/ NothingDies

Settled(m) == Handled(m) \/ m \in skipped \cup jumped

\* What a pass is about to move the baseline over is settled, or still in the
\* batch of that pass, or known by it to be left out.
BatchCovers(p) ==
    /\ pc[p] = "discover" =>
         /\ upto[p] \in 1..newest /\ base[p] <= newest
         /\ \A m \in Msg : arrived[m] \in 1..base[p] => Settled(m)
    /\ pc[p] \in {"process", "act", "store"} =>
         /\ upto[p] \in 1..newest
         /\ \A m \in Msg :
                arrived[m] \in 1..upto[p] =>
                    Settled(m) \/ m \in todo[p] \/ m \in left_out[p]
    /\ pc[p] \in {"act", "store"} => current[p] \in todo[p]

BaselineInv ==
    /\ \A m \in Msg : arrived[m] \in 1..last_history_id => Settled(m)
    /\ last_history_id <= newest /\ newest # 0 /\ watch_id <= newest
    /\ \A m \in Msg : arrived[m] <= newest
    /\ \A p \in Proc : BatchCovers(p)

\* A complete history is what every discovery reads, ...
HistoryRead ==
    last_history_id # 0 /\ \A p \in Proc : pc[p] = "discover" => base[p] # 0

\* ... and if nothing dies, what has left the inbox is settled or about to be
\* stored.
LeftInbox ==
    \A m \in Msg : arrived[m] # 0 /\ "INBOX" \notin labels[m] =>
        Settled(m) \/ \E p \in Proc : pc[p] = "store" /\ current[p] = m

DiscoveryInv ==
    /\ HistoryIsComplete => HistoryRead
    /\ NothingDies => LeftInbox

-----------------------------------------------------------------------------
\* What is settled stays settled.

LEMMA ArrivedStays ==
  ASSUME PassTypeOK, [Next]_vars, NEW m \in Msg, arrived[m] # 0
  PROVE  arrived'[m] = arrived[m]
<1>1. ASSUME NEW n \in Msg, Arrive(n)
      PROVE  arrived'[m] = arrived[m]
  BY <1>1 DEF Arrive, PassTypeOK
<1>2. ASSUME NEW p \in Proc, PassStep(p) \/ Begin(p) \/ Crash(p)
      PROVE  arrived' = arrived
  BY <1>2 DEF PassStep, Connect, ConnectFails, ConnectRefused, ListHistory, ListRecent, Discovered, DiscoverFails,
     Handle, Classify, RetrieveFails, ClassifyFails, ProcessRaises, Act, ActFails, Store, StoreIdClash,
     StoreBreaks, Advance, Release, Begin, Crash, mailbox
<1>3. ASSUME WatchCall \/ WatchStore \/ Reconnect \/ TimePasses \/ UNCHANGED vars
      PROVE  arrived' = arrived
  BY <1>3 DEF WatchCall, WatchStore, Reconnect, TimePasses, vars, mailbox
<1> QED
  BY <1>1, <1>2, <1>3 DEF Next, Poll, ScanNow

\* What was given up once is no longer owed.
LEMMA PassedOverGrows ==
  ASSUME PassTypeOK, [Next]_vars
  PROVE  skipped \subseteq skipped' /\ jumped \subseteq jumped'
<1>1. ASSUME NEW p \in Proc, PassStep(p) \/ Begin(p) \/ Crash(p)
      PROVE  skipped \subseteq skipped' /\ jumped \subseteq jumped'
  BY <1>1 DEF PassStep, Connect, ConnectFails, ConnectRefused, ListHistory, ListRecent, Discovered,
     DiscoverFails, Handle, Classify, RetrieveFails, ClassifyFails, ProcessRaises, Act, ActFails,
     Store, StoreIdClash, StoreBreaks, Advance, Release, Begin, Crash, passedOver
<1>2. ASSUME \/ \E n \in Msg : Arrive(n)
             \/ WatchCall \/ WatchStore \/ Reconnect \/ TimePasses \/ UNCHANGED vars
      PROVE  skipped \subseteq skipped' /\ jumped \subseteq jumped'
  BY <1>2 DEF Arrive, WatchCall, WatchStore, Reconnect, TimePasses, vars, passedOver
<1> QED
  BY <1>1, <1>2 DEF Next, Poll, ScanNow

LEMMA SettledStable ==
  ASSUME PassTypeOK, [Next]_vars, NEW m \in Msg, Settled(m)
  PROVE  Settled(m)'
BY HandledStable, PassedOverGrows DEF Settled

-----------------------------------------------------------------------------
\* What a discovery may rely on.

LEMMA HistoryReadNext ==
  ASSUME PassTypeOK, BaselineInv, HistoryRead, [Next]_vars
  PROVE  HistoryRead'
<1> USE DEF PassTypeOK
<1>1. CASE UNCHANGED <<last_history_id, pc, base>>
  BY <1>1 DEF HistoryRead
<1>2. ASSUME NEW p \in Proc, Connect(p)
      PROVE  HistoryRead'
  BY <1>2 DEF Connect, GoTo, HistoryRead
<1>3. ASSUME NEW p \in Proc, Advance(p)
      PROVE  HistoryRead'
  <2>1. upto[p] \in 1..newest
    BY <1>3 DEF Advance, BaselineInv, BatchCovers
  <2>2. last_history_id' # 0
    BY <1>3, <2>1 DEF Advance, Covered
  <2>3. base' = base /\ \A q \in Proc : pc'[q] = "discover" => pc[q] = "discover"
    BY <1>3 DEF Advance, GoTo, batch
  <2> QED
    BY <2>2, <2>3 DEF HistoryRead
<1>4. ASSUME NEW p \in Proc, ForgetPass(p), UNCHANGED last_history_id
      PROVE  HistoryRead'
  BY <1>4 DEF ForgetPass, GoTo, HistoryRead
<1>5. ASSUME NEW p \in Proc, NEW step \in Step \ {"discover"}, GoTo(p, step),
             UNCHANGED <<last_history_id, base>>
      PROVE  HistoryRead'
  BY <1>5 DEF GoTo, HistoryRead
<1>6. ASSUME NEW p \in Proc, PassStep(p)
      PROVE  HistoryRead'
  <2>1. CASE ConnectFails(p) \/ ConnectRefused(p) \/ DiscoverFails(p) \/ ListHistory(p) \/ ListRecent(p)
             \/ Act(p) \/ ActFails(p)
    BY <1>5, <2>1 DEF ConnectFails, ConnectRefused, DiscoverFails, ListHistory, ListRecent, Discovered, Act, ActFails,
       batch, Step
  <2>2. CASE Store(p) \/ StoreIdClash(p)
    BY <1>5, <2>2 DEF Store, StoreIdClash, Stored, Step
  <2>3. CASE StoreBreaks(p) \/ Release(p)
    BY <1>4, <2>3 DEF StoreBreaks, Release
  <2>4. CASE Handle(p)
    BY <1>1, <1>5, <2>4 DEF Handle, Classify, RetrieveFails, ClassifyFails, ProcessRaises, batch, Step
  <2> QED
    BY <1>2, <1>3, <1>6, <2>1, <2>2, <2>3, <2>4 DEF PassStep
<1>7. ASSUME NEW p \in Proc, Begin(p) \/ Crash(p)
      PROVE  HistoryRead'
  BY <1>4, <1>5, <1>7 DEF Begin, Crash, batch, Step
<1>8. CASE WatchCall \/ WatchStore \/ Reconnect
  BY <1>8 DEF WatchCall, WatchStore, Reconnect, Fault, HistoryRead, batch
<1>9. ASSUME (\E m \in Msg : Arrive(m)) \/ TimePasses \/ UNCHANGED vars
      PROVE  HistoryRead'
  BY <1>1, <1>9 DEF Arrive, TimePasses, vars, batch
<1> QED
  BY <1>6, <1>7, <1>8, <1>9 DEF Next, Poll, ScanNow

\* A message out of the inbox is about to be stored by p.
Storing(p, m) == pc[p] = "store" /\ current[p] = m

LEMMA StoringStep ==
  ASSUME PassTypeOK, [Next]_vars, NEW p \in Proc, NEW m \in Msg, Storing(p, m),
         "crash" \notin Faults, Poison = {}
  PROVE  Settled(m)' \/ Storing(p, m)'
<1> USE DEF PassTypeOK
<1>1. CASE Store(p)
  <2>1. scans'[m] # <<>>
    <3>1. CASE scans[m] # <<>>
      BY <1>1, <3>1 DEF Storing, Store, Insert
    <3>2. CASE scans[m] = <<>>
      <4>1. scans'[m] = <<draft[p]>>
        BY <1>1, <3>2 DEF Storing, Store, Insert
      <4> QED
        BY <4>1
    <3> QED
      BY <3>1, <3>2
  <2> QED
    BY <2>1 DEF Settled, Handled
<1>0. StoreIdClash(p) => Settled(m)'
  BY DEF StoreIdClash, Settled, Storing
<1>2. ASSUME NEW q \in Proc, q # p, PassStep(q) \/ Begin(q) \/ Crash(q)
      PROVE  Storing(p, m)'
  BY <1>2 DEF PassStep, Connect, ConnectFails, ConnectRefused, ListHistory, ListRecent, Discovered, DiscoverFails,
     Handle, Classify, RetrieveFails, ClassifyFails, ProcessRaises, Act, ActFails, Store, StoreIdClash,
     StoreBreaks, Advance, Release, Begin, Crash, Stored, ForgetPass, GoTo, inHand, Storing
<1>3. ~Begin(p) /\ ~Crash(p) /\ ~StoreBreaks(p)
  BY DEF Begin, Crash, StoreBreaks, Fault, Storing
<1>4. PassStep(p) => Store(p) \/ StoreIdClash(p)
  BY <1>3 DEF PassStep, Connect, ConnectFails, ConnectRefused, ListHistory, ListRecent, Discovered, DiscoverFails,
     Handle, Classify, RetrieveFails, ClassifyFails, ProcessRaises, Act, ActFails, Advance, Release, Storing
<1>5. ASSUME \/ \E n \in Msg : Arrive(n)
             \/ WatchCall \/ WatchStore \/ Reconnect \/ TimePasses \/ UNCHANGED vars
      PROVE  Storing(p, m)'
  BY <1>5 DEF Arrive, WatchCall, WatchStore, Reconnect, TimePasses, vars, inHand, Storing
<1> QED
  BY <1>0, <1>1, <1>2, <1>3, <1>4, <1>5 DEF Next, Poll, ScanNow

\* Only the label step of a pass takes mail out of the inbox.
LEMMA InboxStep ==
  ASSUME PassTypeOK, [Next]_vars, NEW m \in Msg, "INBOX" \notin labels'[m], arrived'[m] # 0,
         \A p \in Proc : pc[p] = "act" => current[p] \in Msg
  PROVE  \/ arrived[m] # 0 /\ "INBOX" \notin labels[m]
         \/ \E p \in Proc : Storing(p, m)'
<1> USE DEF PassTypeOK
<1>1. ASSUME NEW n \in Msg, Arrive(n)
      PROVE  arrived[m] # 0 /\ "INBOX" \notin labels[m]
  BY <1>1 DEF Arrive
<1>2. ASSUME NEW p \in Proc, Act(p) \/ ActFails(p)
      PROVE  \/ arrived[m] # 0 /\ "INBOX" \notin labels[m]
             \/ Storing(p, m)'
  <2>1. /\ pc'[p] = "store" /\ current' = current /\ arrived' = arrived
        /\ current[p] \in Msg
    BY <1>2 DEF Act, ActFails, GoTo
  <2>2. CASE current[p] = m
    BY <2>1, <2>2 DEF Storing
  <2>3. CASE current[p] # m
    <3>1. labels'[m] = labels[m]
      BY <1>2, <2>3 DEF Act, ActFails
    <3> QED
      BY <2>1, <3>1
  <2> QED
    BY <2>2, <2>3
<1>3. ASSUME NEW p \in Proc, NEW n \in Msg, ClassifyFails(p, n)
      PROVE  arrived[m] # 0 /\ "INBOX" \notin labels[m]
  <2>1. /\ UNCHANGED arrived
        /\ \/ labels' = [labels EXCEPT ![n] = labels[n] \cup {"ScanFailed"}]
           \/ UNCHANGED labels
    BY <1>3 DEF ClassifyFails
  <2>2. m # n => labels'[m] = labels[m]
    BY <2>1
  <2>3. m = n => labels'[m] = labels[m] \/ labels'[m] = labels[m] \cup {"ScanFailed"}
    BY <2>1
  <2> QED
    BY <2>1, <2>2, <2>3
<1>4. CASE UNCHANGED <<arrived, labels>>
  BY <1>4
<1>5. ASSUME NEW p \in Proc, PassStep(p) \/ Begin(p) \/ Crash(p),
             ~Act(p), ~ActFails(p), \A n \in Msg : ~ClassifyFails(p, n)
      PROVE  UNCHANGED <<arrived, labels>>
  BY <1>5 DEF PassStep, Connect, ConnectFails, ConnectRefused, ListHistory, ListRecent, Discovered, DiscoverFails,
     Handle, Classify, RetrieveFails, ProcessRaises, Store, StoreIdClash, StoreBreaks, Advance, Release,
     Begin, Crash, mailbox
<1>6. ASSUME WatchCall \/ WatchStore \/ Reconnect \/ TimePasses \/ UNCHANGED vars
      PROVE  UNCHANGED <<arrived, labels>>
  BY <1>6 DEF WatchCall, WatchStore, Reconnect, TimePasses, vars, mailbox
<1> QED
  BY <1>1, <1>2, <1>3, <1>4, <1>5, <1>6 DEF Next, Poll, ScanNow

LEMMA LeftInboxNext ==
  ASSUME PassTypeOK, BaselineInv, LeftInbox, [Next]_vars, NothingDies
  PROVE  LeftInbox'
<1> SUFFICES ASSUME NEW m \in Msg, arrived'[m] # 0, "INBOX" \notin labels'[m]
             PROVE  Settled(m)' \/ \E p \in Proc : Storing(p, m)'
  BY DEF LeftInbox, Storing
<1>1. \A p \in Proc : pc[p] = "act" => current[p] \in Msg
  BY DEF BaselineInv, BatchCovers, PassTypeOK
<1>2. CASE arrived[m] # 0 /\ "INBOX" \notin labels[m]
  <2>1. Settled(m) \/ \E p \in Proc : Storing(p, m)
    BY <1>2 DEF LeftInbox, Storing
  <2> QED
    BY <2>1, SettledStable, StoringStep DEF NothingDies
<1> QED
  BY <1>1, <1>2, InboxStep

LEMMA DiscoveryNext ==
  ASSUME PassTypeOK, BaselineInv, DiscoveryInv, [Next]_vars
  PROVE  DiscoveryInv'
BY HistoryReadNext, LeftInboxNext DEF DiscoveryInv

-----------------------------------------------------------------------------
\* The baseline stays behind what is settled.

LEMMA BaselineInit == Init => BaselineInv /\ DiscoveryInv
<1> SUFFICES ASSUME Init
             PROVE  BaselineInv /\ DiscoveryInv
  OBVIOUS
<1>1. BaselineInv
  BY GmailSyncAssumption DEF Init, BaselineInv, BatchCovers
<1>2. HistoryIsComplete => HistoryRead
  BY DEF Init, HistoryIsComplete, HistoryRead
<1>3. LeftInbox
  BY DEF Init, LeftInbox
<1> QED
  BY <1>1, <1>2, <1>3 DEF DiscoveryInv

\* What is settled stays so: a pass whose locals stand still, or that is
\* outside discovery and processing, keeps its part of the invariant.
LEMMA BatchFrame ==
  ASSUME PassTypeOK, [Next]_vars, UNCHANGED <<arrived, newest>>,
         NEW p \in Proc, BatchCovers(p),
         \/ pc'[p] \in {"idle", "connect", "raised", "release"}
         \/ UNCHANGED <<pc[p], base[p], upto[p], todo[p], left_out[p], current[p]>>
  PROVE  BatchCovers(p)'
<1>1. \A m \in Msg : Settled(m) => Settled(m)'
  BY SettledStable
<1> QED
  BY <1>1 DEF BatchCovers, PassTypeOK

\* A step of one pass that leaves mailbox and baseline alone.
LEMMA BaselineFrame ==
  ASSUME PassTypeOK, BaselineInv, [Next]_vars,
         UNCHANGED <<arrived, newest, last_history_id, watch_id>>,
         NEW p \in Proc, BatchCovers(p)',
         \A q \in Proc \ {p} :
             UNCHANGED <<pc[q], base[q], upto[q], todo[q], left_out[q], current[q]>>
  PROVE  BaselineInv'
<1>1. \A m \in Msg : Settled(m) => Settled(m)'
  BY SettledStable
<1>2. \A q \in Proc : BatchCovers(q)'
  BY BatchFrame DEF BaselineInv
<1>3. \A m \in Msg : arrived[m] \in 1..last_history_id => Settled(m)'
  BY <1>1 DEF BaselineInv, PassTypeOK
<1> QED
  BY <1>2, <1>3 DEF BaselineInv

\* The history, however it shows the labels, gives all that is not settled.
LEMMA HistoryCovers ==
  ASSUME Undisturbed, PassTypeOK, BaselineInv, DiscoveryInv,
         NothingDies => OnePassAtATime, NEW p \in Proc, ListHistory(p),
         NEW m \in Msg, arrived[m] \in 1..newest
  PROVE  Settled(m) \/ m \in todo'[p] \/ m \in left_out'[p]
<1> USE DEF PassTypeOK
<1>1. BatchCovers(p) /\ pc[p] = "discover"
  BY DEF BaselineInv, ListHistory
<1>2. CASE arrived[m] <= base[p]
  BY <1>1, <1>2 DEF BatchCovers
<1>3. CASE m \in AddedSince(base[p])
  <2> DEFINE taken == FirstOnes("history", AddedSince(base[p]))
  <2>1. todo'[p] = taken \ Known /\ left_out'[p] = AddedSince(base[p]) \ taken
    BY DEF ListHistory, Discovered
  <2>2. m \in Known => Settled(m)
    BY DEF Known, Settled, Handled
  <2> HIDE DEF taken
  <2> QED
    BY <1>3, <2>1, <2>2
<1>4. CASE arrived[m] > base[p] /\ m \notin AddedSince(base[p])
  <2>1. "INBOX" \notin labels[m] /\ HistoryLabels # "at_arrival"
    BY <1>4 DEF AddedSince
  <2>2. NothingDies
    BY <2>1 DEF Undisturbed, HistoryIsComplete
  <2>3. arrived[m] # 0 /\ LeftInbox
    BY <2>2 DEF DiscoveryInv
  <2>4. Settled(m) \/ \E q \in Proc : pc[q] = "store"
    BY <2>1, <2>3 DEF LeftInbox
  <2> QED
    BY <1>1, <2>2, <2>4 DEF OnePassAtATime
<1> QED
  BY <1>2, <1>3, <1>4

\* So does the bounded list, with what the pass finds too old for it.
LEMMA ListCovers ==
  ASSUME Undisturbed, PassTypeOK, BaselineInv, DiscoveryInv,
         NothingDies => OnePassAtATime, NEW p \in Proc, ListRecent(p),
         NEW m \in Msg, arrived[m] \in 1..upto[p]
  PROVE  Settled(m) \/ m \in todo'[p] \/ m \in left_out'[p]
<1> USE DEF PassTypeOK
<1>1. pc[p] = "discover" /\ BatchCovers(p)
  BY DEF ListRecent, BaselineInv
<1>2. ~HistoryIsComplete
  BY <1>1 DEF ListRecent, Fault, DiscoveryInv, HistoryRead, HistoryIsComplete
<1>3. NothingDies /\ LeftInbox /\ arrived[m] # 0
  BY <1>2 DEF Undisturbed, DiscoveryInv
<1>4. CASE "INBOX" \notin labels[m]
  <2>1. Settled(m) \/ \E q \in Proc : pc[q] = "store"
    BY <1>3, <1>4 DEF LeftInbox
  <2> QED
    BY <1>1, <1>3, <2>1 DEF OnePassAtATime
<1>5. CASE arrived[m] <= base[p]
  BY <1>1, <1>5 DEF BatchCovers
<1>6. CASE "INBOX" \in labels[m] /\ arrived[m] > base[p]
  <2> DEFINE taken == FirstOnes("list", RecentInbox)
             rest  == {n \in Inbox : arrived[n] > base[p] /\ arrived[n] <= upto[p]}
  <2>1. todo'[p] = taken \ Known /\ left_out'[p] = rest \ taken
    BY DEF ListRecent, Discovered
  <2>2. m \in rest
    BY <1>3, <1>6 DEF Inbox
  <2>3. m \in Known => Settled(m)
    BY DEF Known, Settled, Handled
  <2> HIDE DEF taken, rest
  <2> QED
    BY <2>1, <2>2, <2>3
<1> QED
  BY <1>4, <1>5, <1>6

LEMMA BaselinePass ==
  ASSUME Undisturbed, PassTypeOK, BaselineInv, DiscoveryInv,
         NothingDies => OnePassAtATime, [Next]_vars, NEW p \in Proc, PassStep(p)
  PROVE  BaselineInv'
<1> USE DEF PassTypeOK
<1>1. /\ BatchCovers(p)
      /\ \A m \in Msg : Settled(m) => Settled(m)'
  BY SettledStable DEF BaselineInv
<1>2. CASE Connect(p)
  <2>1. /\ pc'[p] = "discover" /\ base'[p] = last_history_id /\ upto'[p] = newest
        /\ UNCHANGED <<arrived, newest, last_history_id, watch_id>>
    BY <1>2 DEF Connect, GoTo, mailbox
  <2>2. \A m \in Msg : arrived[m] \in 1..last_history_id => Settled(m)'
    BY <1>1 DEF BaselineInv
  <2>3. newest \in 1..newest /\ last_history_id <= newest
    BY DEF BaselineInv
  <2>4. BatchCovers(p)'
    BY <2>1, <2>2, <2>3 DEF BatchCovers
  <2> QED
    BY <1>1, <1>2, <2>1, <2>4, BaselineFrame DEF Connect, GoTo, inHand
<1>3. CASE \/ ConnectFails(p) \/ ConnectRefused(p) \/ DiscoverFails(p)
           \/ \E m \in Msg : ProcessRaises(p, m)
  <2>1. pc' = [pc EXCEPT ![p] = "release"] \/ pc' = [pc EXCEPT ![p] = "raised"]
    BY <1>3 DEF ConnectFails, ConnectRefused, DiscoverFails, ProcessRaises, GoTo
  <2>2. BatchCovers(p)'
    BY <1>1, <1>3, <2>1, BatchFrame DEF ConnectFails, ConnectRefused, DiscoverFails, ProcessRaises, mailbox
  <2> QED
    BY <1>1, <1>3, <2>1, <2>2, BaselineFrame
       DEF ConnectFails, ConnectRefused, DiscoverFails, ProcessRaises, mailbox, batch, inHand
<1>4. CASE ListHistory(p)
  <2>1. \A m \in Msg : arrived[m] \in 1..newest =>
          Settled(m) \/ m \in todo'[p] \/ m \in left_out'[p]
    BY <1>4, HistoryCovers
  <2>2. newest \in 1..newest
    BY DEF BaselineInv
  <2>3. /\ pc'[p] = "process" /\ upto'[p] = newest
        /\ UNCHANGED <<arrived, newest>>
    BY <1>4 DEF ListHistory, Discovered, GoTo, mailbox
  <2>4. BatchCovers(p)'
    BY <1>1, <2>1, <2>2, <2>3 DEF BatchCovers
  <2> QED
    BY <1>1, <1>4, <2>4, BaselineFrame
       DEF ListHistory, Discovered, GoTo, mailbox, inHand
<1>5. CASE ListRecent(p)
  <2>1. \A m \in Msg : arrived[m] \in 1..upto[p] =>
          Settled(m) \/ m \in todo'[p] \/ m \in left_out'[p]
    BY <1>5, ListCovers
  <2>2. /\ pc'[p] = "process" /\ pc[p] = "discover"
        /\ UNCHANGED <<arrived, newest, upto>>
    BY <1>5 DEF ListRecent, Discovered, GoTo, mailbox
  <2>3. upto[p] \in 1..newest
    BY <1>1, <2>2 DEF BatchCovers
  <2>4. BatchCovers(p)'
    BY <1>1, <2>1, <2>2, <2>3 DEF BatchCovers
  <2> QED
    BY <1>1, <1>5, <2>4, BaselineFrame DEF ListRecent, Discovered, GoTo, mailbox, inHand
<1>6. ASSUME NEW m \in Msg, NEW v \in Verdict, Classify(p, m, v)
      PROVE  BaselineInv'
  <2>1. BatchCovers(p)'
    BY <1>1, <1>6 DEF Classify, IsNext, GoTo, BatchCovers, mailbox, batch
  <2> QED
    BY <1>1, <1>6, <2>1, BaselineFrame DEF Classify, GoTo, mailbox, batch
<1>7. ASSUME NEW m \in Msg, RetrieveFails(p, m) \/ ClassifyFails(p, m)
      PROVE  BaselineInv'
  <2>1. Settled(m)'
    BY <1>7 DEF RetrieveFails, ClassifyFails, ProcessRaises, Settled, Handled, AuditEvent
  <2>2. /\ todo' = [todo EXCEPT ![p] = todo[p] \ {m}]
        /\ UNCHANGED <<arrived, newest, last_history_id, watch_id, pc, base,
                       upto, left_out, current>>
        /\ pc[p] = "process"
    BY <1>7 DEF RetrieveFails, ClassifyFails, ProcessRaises, Drop, mailbox, inHand
  <2>3. BatchCovers(p)'
    BY <1>1, <2>1, <2>2 DEF BatchCovers
  <2> QED
    BY <1>1, <2>2, <2>3, BaselineFrame
<1>8. CASE Act(p) \/ ActFails(p)
  <2>1. /\ pc' = [pc EXCEPT ![p] = "store"] /\ pc[p] = "act"
        /\ UNCHANGED <<arrived, newest, last_history_id, watch_id, base, upto,
                       todo, left_out, current>>
    BY <1>8 DEF Act, ActFails, GoTo, batch
  <2>2. BatchCovers(p)'
    BY <1>1, <2>1 DEF BatchCovers
  <2> QED
    BY <1>1, <2>1, <2>2, BaselineFrame
<1>9. CASE Store(p) \/ StoreIdClash(p)
  <2>1. /\ pc' = [pc EXCEPT ![p] = "process"] /\ pc[p] = "store"
        /\ todo' = [todo EXCEPT ![p] = todo[p] \ {current[p]}]
        /\ current' = [current EXCEPT ![p] = NoMsg]
        /\ UNCHANGED <<arrived, newest, last_history_id, watch_id, base, upto,
                       left_out>>
    BY <1>9 DEF Store, StoreIdClash, Stored, Drop, GoTo, mailbox
  <2>2. current[p] \in Msg
    BY <1>1, <2>1 DEF BatchCovers
  <2>3. \A m \in Msg : m = current[p] => Settled(m)'
    <3>1. CASE StoreIdClash(p)
      BY <3>1 DEF StoreIdClash, Settled
    <3>2. CASE Store(p) /\ scans[current[p]] # <<>>
      BY <3>2 DEF Store, Insert, Settled, Handled
    <3>3. CASE Store(p) /\ scans[current[p]] = <<>>
      <4>1. scans'[current[p]] = <<draft[p]>>
        BY <2>2, <3>3 DEF Store, Insert
      <4>2. scans'[current[p]] # <<>>
        BY <4>1
      <4> QED
        BY <4>2 DEF Settled, Handled
    <3> QED
      BY <1>9, <3>1, <3>2, <3>3
  <2>4. BatchCovers(p)'
    BY <1>1, <2>1, <2>3 DEF BatchCovers
  <2> QED
    BY <1>1, <2>1, <2>4, BaselineFrame
<1>11. CASE StoreBreaks(p) \/ Release(p)
  <2>1. /\ ForgetPass(p)
        /\ UNCHANGED <<arrived, newest, last_history_id, watch_id>>
    BY <1>11 DEF StoreBreaks, Release, mailbox
  <2>2. pc'[p] = "idle"
    BY <2>1 DEF ForgetPass, GoTo
  <2>3. BatchCovers(p)'
    BY <1>1, <2>1, <2>2, BatchFrame
  <2> QED
    BY <1>1, <2>1, <2>3, BaselineFrame DEF ForgetPass, GoTo
\* The batch is empty, so the new baseline has only settled mail behind it,
\* and what the pass knows it leaves out.
<1>12. CASE Advance(p)
  <2>1. /\ pc[p] = "process" /\ todo[p] = {}
        /\ last_history_id' = upto[p]
        /\ pc' = [pc EXCEPT ![p] = "release"]
        /\ skipped' = skipped \cup left_out[p]
        /\ UNCHANGED <<arrived, newest, watch_id, base, upto, todo, left_out, current>>
    BY <1>12 DEF Advance, Covered, GoTo, mailbox, batch, inHand
  <2>2. /\ last_history_id' \in 1..newest
        /\ \A m \in Msg : arrived[m] \in 1..upto[p] => Settled(m)'
    BY <1>1, <2>1 DEF BatchCovers, Settled
  <2>3. \A q \in Proc : BatchCovers(q)'
    BY <1>1, <2>1, BatchFrame DEF BaselineInv
  <2> QED
    BY <2>1, <2>2, <2>3 DEF BaselineInv
<1> QED
  BY <1>2, <1>3, <1>4, <1>5, <1>6, <1>7, <1>8, <1>9, <1>11, <1>12
     DEF PassStep, Handle

LEMMA BaselineNext ==
  ASSUME Undisturbed, PassTypeOK, BaselineInv, DiscoveryInv,
         NothingDies => OnePassAtATime, [Next]_vars
  PROVE  BaselineInv'
<1> USE DEF PassTypeOK
<1>2. \A m \in Msg : Settled(m) => Settled(m)'
  BY SettledStable
\* What arrives is in front of the baseline and of every batch.
<1>3. ASSUME NEW m \in Msg, Arrive(m)
      PROVE  BaselineInv'
  <2>1. /\ arrived' = [arrived EXCEPT ![m] = newest + 1]
        /\ newest' = newest + 1
        /\ UNCHANGED <<last_history_id, watch_id, pc, base, upto, todo, left_out, current>>
    BY <1>3 DEF Arrive, batch, inHand
  <2>2. ASSUME NEW id \in Nat, id <= newest, NEW n \in Msg, arrived'[n] \in 1..id
        PROVE  arrived[n] \in 1..id /\ (Settled(n) => Settled(n)')
    <3>1. n # m
      BY <2>1, <2>2
    <3>2. arrived[n] = arrived'[n]
      BY <2>1, <3>1
    <3> QED
      BY <1>2, <2>2, <3>2
  <2>3. \A n \in Msg : arrived'[n] \in 1..last_history_id => Settled(n)'
    BY <2>2 DEF BaselineInv
  <2>4. ASSUME NEW p \in Proc
        PROVE  BatchCovers(p)'
    <3>1. BatchCovers(p)
      BY DEF BaselineInv
    <3>2. CASE pc[p] = "discover"
      BY <2>1, <2>2, <3>1, <3>2 DEF BatchCovers
    <3>3. CASE pc[p] \in {"process", "act", "store"}
      <4>1. upto[p] \in 1..newest /\ upto[p] \in Nat
        BY <3>1, <3>3 DEF BatchCovers
      <4>2. \A n \in Msg : arrived'[n] \in 1..upto[p] => 
                 Settled(n)' \/ n \in todo[p] \/ n \in left_out[p]
        BY <2>2, <3>1, <3>3, <4>1 DEF BatchCovers
      <4> QED
        BY <2>1, <3>1, <3>3, <4>1, <4>2 DEF BatchCovers
    <3>4. CASE pc[p] \notin {"discover", "process", "act", "store"}
      BY <2>1, <3>4 DEF BatchCovers
    <3> QED
      BY <3>2, <3>3, <3>4
  <2> QED
    BY <2>1, <2>3, <2>4 DEF BaselineInv
<1>4. ASSUME NEW p \in Proc, Begin(p) \/ Crash(p)
      PROVE  BaselineInv'
  <2>1. /\ pc'[p] \in {"idle", "connect"}
        /\ UNCHANGED <<arrived, newest, last_history_id, watch_id>>
        /\ \A q \in Proc \ {p} :
              UNCHANGED <<pc[q], base[q], upto[q], todo[q], left_out[q], current[q]>>
    BY <1>4 DEF Begin, Crash, ForgetPass, GoTo, mailbox, batch, inHand
  <2>2. BatchCovers(p)'
    BY <2>1, BatchFrame DEF BaselineInv
  <2> QED
    BY <2>1, <2>2, BaselineFrame
<1>5. ASSUME NEW p \in Proc, PassStep(p)
      PROVE  BaselineInv'
  BY <1>5, BaselinePass
\* A watch moves the baseline over mail it jumps.
<1>6. CASE WatchStore
  <2>1. /\ last_history_id' = watch_id /\ watch_id' = 0
        /\ jumped' = jumped \cup {m \in Msg : arrived[m] > last_history_id
                                             /\ arrived[m] <= watch_id}
        /\ UNCHANGED <<arrived, newest, pc, base, upto, todo, left_out, current>>
    BY <1>6 DEF WatchStore, mailbox, batch, inHand
  <2>2. \A m \in Msg : arrived[m] \in 1..watch_id => Settled(m)'
    BY <1>2, <2>1 DEF BaselineInv, Settled
  <2>3. \A p \in Proc : BatchCovers(p)'
    BY <2>1, BatchFrame DEF BaselineInv
  <2> QED
    BY <2>1, <2>2, <2>3 DEF BaselineInv
<1>7. CASE WatchCall \/ Reconnect \/ TimePasses \/ UNCHANGED vars
  <2>1. /\ UNCHANGED <<arrived, newest, last_history_id, scans, audit, pc, base,
                       upto, todo, left_out, current>>
        /\ watch_id' \in {watch_id, newest}
    BY <1>7 DEF WatchCall, Reconnect, TimePasses, vars, mailbox, records, batch, inHand
  <2>2. \A m \in Msg : arrived[m] \in 1..last_history_id => Settled(m)'
    BY <1>2 DEF BaselineInv
  <2>3. \A p \in Proc : BatchCovers(p)'
    BY <2>1, BatchFrame DEF BaselineInv
  <2> QED
    BY <2>1, <2>2, <2>3 DEF BaselineInv
<1> QED
  BY <1>3, <1>4, <1>5, <1>6, <1>7 DEF Next, Poll, ScanNow

\* No mail is forgotten: whatever the baseline has passed is stored or
\* audited, but for what a pass that saw it cut off or dropped as a duplicate
\* and what a watch jumped over, for any number of messages, passes and failed
\* calls.  With a complete history this survives crashes, refused rows and a
\* stale lock taken over from a running pass; without one it takes that no
\* pass dies or outlives the stale window.
THEOREM MailIsAccountedFor ==
  ASSUME Undisturbed
  PROVE  Spec => []AccountedFor
<1>1. Init => BaselineInv /\ DiscoveryInv
  BY BaselineInit
<1>2. /\ PassTypeOK /\ BaselineInv /\ DiscoveryInv
      /\ (NothingDies => OnePassAtATime) /\ [Next]_vars
      => (BaselineInv /\ DiscoveryInv)'
  BY BaselineNext, DiscoveryNext
<1>3. BaselineInv => AccountedFor
  BY DEF BaselineInv, AccountedFor, Settled
<1>4. CASE NothingDies
  <2>1. Spec => []OnePassAtATime
    BY <1>4, OnePass DEF NothingDies
  <2>2. /\ PassTypeOK /\ BaselineInv /\ DiscoveryInv /\ OnePassAtATime /\ [Next]_vars
        => (BaselineInv /\ DiscoveryInv)'
    BY <1>2
  <2> QED
    BY <1>1, <1>3, <2>1, <2>2, PassTypeInit, PassTypeNext, PTL DEF Spec
<1>5. CASE ~NothingDies
  <2>1. /\ PassTypeOK /\ BaselineInv /\ DiscoveryInv /\ [Next]_vars
        => (BaselineInv /\ DiscoveryInv)'
    BY <1>2, <1>5
  <2> QED
    BY <1>1, <1>3, <2>1, PassTypeInit, PassTypeNext, PTL DEF Spec
<1> QED
  BY <1>4, <1>5

-----------------------------------------------------------------------------
\* What the label calls do to a hidden message, and to any message.
LEMMA RelabelledHides ==
  ASSUME NEW ls \in SUBSET Label, NEW v \in Verdict
  PROVE  /\ "Quarantine" \in ls /\ "INBOX" \notin ls =>
              /\ "Quarantine" \in Relabelled(ls, ActionFor(v))
              /\ "INBOX" \notin Relabelled(ls, ActionFor(v))
         /\ ActionFor(v) = "quarantined" =>
              /\ "Quarantine" \in Relabelled(ls, ActionFor(v))
              /\ "INBOX" \notin Relabelled(ls, ActionFor(v))
BY DEF Relabelled, ActionFor, Verdict

\* No step of a pass, and no arrival, brings a hidden message back.
LEMMA HiddenStable ==
  ASSUME PassTypeOK, QuarantineInv, [Next]_vars, NEW m \in Msg
  PROVE  /\ Hidden(m) => Hidden(m)'
         /\ arrived[m] # 0 => arrived'[m] # 0
         /\ arrived'[m] = 0 => labels'[m] = {}
<1> DEFINE Kept == /\ Hidden(m) => Hidden(m)'
                   /\ arrived[m] # 0 => arrived'[m] # 0
                   /\ arrived'[m] = 0 => labels'[m] = {}
<1> SUFFICES Kept
  OBVIOUS
<1> USE DEF PassTypeOK
<1>1. ASSUME UNCHANGED <<arrived, labels>>
      PROVE  Kept
  BY <1>1 DEF Hidden, QuarantineInv
<1>2. ASSUME NEW n \in Msg, Arrive(n)
      PROVE  Kept
  BY <1>2 DEF Arrive, Hidden, QuarantineInv
<1>3. ASSUME NEW p \in Proc, Act(p) \/ ActFails(p)
      PROVE  Kept
  <2>1. PICK c \in Msg, v \in Verdict :
          c = current[p] /\ v = draft[p].classification /\ arrived[c] # 0
    <3>1. draft[p].classification \in Verdict
      BY DraftIsRow DEF Row
    <3>2. current[p] \in Msg /\ arrived[current[p]] # 0
      BY <1>3 DEF Act, ActFails, QuarantineInv
    <3> QED
      BY <3>1, <3>2
  <2>2. CASE UNCHANGED labels
    BY <1>1, <1>3, <2>2 DEF Act, ActFails
  <2>3. CASE labels' =
               [labels EXCEPT ![c] = Relabelled(labels[c], ActionFor(v))]
    <3>1. UNCHANGED arrived
      BY <1>3 DEF Act, ActFails
    <3>2. Hidden(c) => Hidden(c)'
      BY <2>3, RelabelledHides DEF Hidden
    <3>3. m # c => labels'[m] = labels[m]
      BY <2>3
    <3> QED
      BY <2>1, <3>1, <3>2, <3>3 DEF Hidden, QuarantineInv
  <2>4. \/ UNCHANGED labels
        \/ labels' = [labels EXCEPT ![c] = Relabelled(labels[c], ActionFor(v))]
    <3>1. CASE Act(p)
      BY <2>1, <3>1 DEF Act
    <3>2. CASE ActFails(p)
      BY <2>1, <3>2 DEF ActFails
    <3> QED
      BY <1>3, <3>1, <3>2
  <2> QED
    BY <2>2, <2>3, <2>4
<1>4. ASSUME NEW p \in Proc, NEW n \in Msg, ClassifyFails(p, n)
      PROVE  Kept
  <2>1. UNCHANGED arrived /\ arrived[n] # 0
    BY <1>4 DEF ClassifyFails, IsNext, QuarantineInv
  <2>2. \/ UNCHANGED labels
        \/ labels' = [labels EXCEPT ![n] = labels[n] \cup {"ScanFailed"}]
    BY <1>4 DEF ClassifyFails
  <2>3. labels'[m] = labels[m] \/ (m = n /\ labels'[m] = labels[m] \cup {"ScanFailed"})
    BY <2>2
  <2>4. Hidden(m) => Hidden(m)'
    BY <2>3 DEF Hidden
  <2>5. arrived[m] = 0 => labels'[m] = {}
    BY <2>1, <2>3 DEF QuarantineInv
  <2> QED
    BY <2>1, <2>4, <2>5
<1>5. ASSUME NEW p \in Proc, PassStep(p), ~Act(p), ~ActFails(p),
             \A n \in Msg : ~ClassifyFails(p, n)
      PROVE  Kept
  <2>1. UNCHANGED <<arrived, labels>>
    BY <1>5 DEF PassStep, Connect, ConnectFails, ConnectRefused, ListHistory, ListRecent, Discovered,
       DiscoverFails, Handle, Classify, RetrieveFails, ProcessRaises, Store, StoreIdClash,
       StoreBreaks, Advance, Release, mailbox
  <2> QED
    BY <2>1, <1>1
<1>6. ASSUME \/ \E p \in Proc : Begin(p) \/ Crash(p)
             \/ WatchCall \/ WatchStore \/ Reconnect \/ TimePasses \/ UNCHANGED vars
      PROVE  Kept
  <2>1. UNCHANGED <<arrived, labels>>
    BY <1>6 DEF Begin, Crash, WatchCall, WatchStore, Reconnect, TimePasses, vars, mailbox
  <2> QED
    BY <2>1, <1>1
<1> QED
  BY <1>2, <1>3, <1>4, <1>5, <1>6 DEF Next, Poll, ScanNow

\* The part of QuarantineInv about one pass.
QuarantinePass(p) ==
    /\ \A m \in todo[p] : arrived[m] # 0
    /\ pc[p] \in {"act", "store"} => current[p] \in todo[p]
    /\ pc[p] = "act" => draft[p].mailbox_action = "none"
    /\ pc[p] = "store" /\ draft[p].mailbox_action = "quarantined" =>
           Hidden(current[p])

LEMMA QuarantinePassNext ==
  ASSUME PassTypeOK, QuarantineInv, [Next]_vars, NEW p \in Proc
  PROVE  QuarantinePass(p)'
<1> USE DEF PassTypeOK
<1>1. /\ QuarantinePass(p)
      /\ \A m \in Msg : /\ Hidden(m) => Hidden(m)'
                        /\ arrived[m] # 0 => arrived'[m] # 0
  BY HiddenStable DEF QuarantineInv, QuarantinePass
<1>2. ASSUME UNCHANGED <<pc[p], todo[p], current[p], draft[p]>>
      PROVE  QuarantinePass(p)'
  BY <1>1, <1>2 DEF QuarantinePass
<1>3. ASSUME pc'[p] \notin {"act", "store"}, todo'[p] \subseteq todo[p]
      PROVE  QuarantinePass(p)'
  BY <1>1, <1>3 DEF QuarantinePass
<1>4. ASSUME PassStep(p)
      PROVE  QuarantinePass(p)'
  <2>1. CASE \/ Connect(p) \/ ConnectFails(p) \/ ConnectRefused(p)
             \/ DiscoverFails(p) \/ Advance(p) \/ \E m \in Msg : ProcessRaises(p, m)
    BY <1>3, <2>1 DEF Connect, ConnectFails, ConnectRefused, DiscoverFails, ProcessRaises, Advance, GoTo,
                      batch
  <2>2. CASE ListHistory(p)
    BY <2>2 DEF ListHistory, Discovered, GoTo, FirstOnes, AddedSince, QuarantinePass,
                mailbox
  <2>3. CASE ListRecent(p)
    BY <2>3 DEF ListRecent, Discovered, GoTo, FirstOnes, RecentInbox, Inbox, QuarantinePass,
                mailbox
  <2>4. ASSUME NEW m \in Msg, NEW v \in Verdict, Classify(p, m, v)
        PROVE  QuarantinePass(p)'
    BY <1>1, <2>4 DEF Classify, IsNext, NewRow, GoTo, QuarantinePass, batch,
                      mailbox
  <2>5. ASSUME NEW m \in Msg, RetrieveFails(p, m) \/ ClassifyFails(p, m)
        PROVE  QuarantinePass(p)'
    BY <1>3, <2>5 DEF RetrieveFails, ClassifyFails, ProcessRaises, Drop
  <2>6. CASE Act(p)
    <3>1. PICK c \in Msg, v \in Verdict :
            c = current[p] /\ v = draft[p].classification
      <4>1. draft[p].classification \in Verdict
        BY DraftIsRow DEF Row
      <4>2. current[p] \in Msg
        BY <1>1, <2>6 DEF Act, QuarantinePass
      <4> QED
        BY <4>1, <4>2
    <3>2. /\ current'[p] = c /\ todo'[p] = todo[p] /\ c \in todo[p]
          /\ pc'[p] = "store"
      BY <1>1, <2>6, <3>1 DEF Act, GoTo, QuarantinePass, batch
    <3>3. labels'[c] = Relabelled(labels[c], ActionFor(v))
      BY <2>6, <3>1 DEF Act
    <3>4. draft'[p].mailbox_action = ActionFor(v)
      <4>1. draft[p] \in Row
        BY DraftIsRow
      <4>2. draft'[p] = [draft[p] EXCEPT !.mailbox_action = ActionFor(v)]
        BY <2>6, <3>1 DEF Act
      <4> QED
        BY <4>1, <4>2 DEF Row
    <3>5. ActionFor(v) = "quarantined" => Hidden(c)'
      <4>1. labels[c] \in SUBSET Label
        OBVIOUS
      <4>2. ActionFor(v) = "quarantined" =>
              /\ "Quarantine" \in Relabelled(labels[c], ActionFor(v))
              /\ "INBOX" \notin Relabelled(labels[c], ActionFor(v))
        BY <4>1, RelabelledHides
      <4> QED
        BY <3>3, <4>2 DEF Hidden
    <3>6. ActionFor(v) = "quarantined" => Hidden(current[p])'
      BY <3>2, <3>5 DEF Hidden
    <3> QED
      BY <1>1, <3>2, <3>4, <3>6 DEF QuarantinePass
  <2>7. CASE ActFails(p)
    <3>1. draft'[p].mailbox_action = "none"
      BY <1>1, <2>7, DraftIsRow DEF ActFails, FailedRow, QuarantinePass, Row
    <3> QED
      BY <1>1, <2>7, <3>1 DEF ActFails, GoTo, QuarantinePass, batch
  <2>8. CASE Store(p) \/ StoreIdClash(p)
    BY <1>3, <2>8 DEF Store, StoreIdClash, Stored, Drop, GoTo
  <2>9. CASE StoreBreaks(p) \/ Release(p)
    BY <1>3, <2>9 DEF StoreBreaks, Release, ForgetPass, GoTo
  <2> QED
    BY <1>4, <2>1, <2>2, <2>3, <2>4, <2>5, <2>6, <2>7, <2>8, <2>9
       DEF PassStep, Handle
<1>5. ASSUME NEW q \in Proc \ {p}, PassStep(q) \/ Begin(q) \/ Crash(q)
      PROVE  QuarantinePass(p)'
  <2>1. UNCHANGED <<pc[p], todo[p], current[p], draft[p]>>
    BY <1>5 DEF PassStep, Connect, ConnectFails, ConnectRefused, ListHistory, ListRecent, Discovered,
       DiscoverFails, Handle, Classify, RetrieveFails, ClassifyFails, ProcessRaises, Act,
       ActFails, Store, StoreIdClash, Stored, StoreBreaks, Advance, Release,
       Begin, Crash, ForgetPass, GoTo, Drop, batch, inHand
  <2> QED
    BY <1>2, <2>1
<1>6. ASSUME Begin(p) \/ Crash(p)
      PROVE  QuarantinePass(p)'
  BY <1>3, <1>6 DEF Begin, Crash, ForgetPass, GoTo, batch
<1>7. ASSUME \/ \E m \in Msg : Arrive(m)
             \/ WatchCall \/ WatchStore \/ Reconnect \/ TimePasses \/ UNCHANGED vars
      PROVE  QuarantinePass(p)'
  BY <1>2, <1>7 DEF Arrive, WatchCall, WatchStore, Reconnect, TimePasses, vars, batch,
                    inHand
<1> QED
  BY <1>4, <1>5, <1>6, <1>7 DEF Next, Poll, ScanNow

LEMMA QuarantineNext ==
  ASSUME PassTypeOK, QuarantineInv, [Next]_vars
  PROVE  QuarantineInv'
<1> USE DEF PassTypeOK
<1>1. \A p \in Proc : QuarantinePass(p)'
  BY QuarantinePassNext
<1>2. \A m \in Msg : arrived'[m] = 0 => labels'[m] = {}
  BY HiddenStable
<1>3. \A m \in Msg : Hidden(m) => Hidden(m)'
  BY HiddenStable
<1>4. RecordedQuarantineIsReal'
  <2>1. CASE UNCHANGED scans
    BY <1>3, <2>1 DEF QuarantineInv, RecordedQuarantineIsReal
  <2>2. ASSUME NEW p \in Proc, Store(p), scans[current[p]] = <<>>,
               scans' = [scans EXCEPT ![current[p]] = <<draft[p]>>]
        PROVE  RecordedQuarantineIsReal'
    <3> SUFFICES ASSUME NEW m \in Msg, NEW i \in DOMAIN scans'[m],
                        scans'[m][i].mailbox_action = "quarantined"
                 PROVE  Hidden(m)'
      BY DEF RecordedQuarantineIsReal
    <3>1. CASE m = current[p]
      <4>1. scans'[m] = <<draft[p]>>
        BY <2>2, <3>1
      <4>2. draft[p].mailbox_action = "quarantined"
        BY <4>1
      <4>3. Hidden(m)
        BY <2>2, <3>1, <4>2 DEF Store, QuarantineInv
      <4> QED
        BY <1>3, <4>3
    <3>2. CASE m # current[p]
      <4>1. scans'[m] = scans[m]
        BY <2>2, <3>2
      <4>2. Hidden(m)
        BY <4>1 DEF QuarantineInv, RecordedQuarantineIsReal
      <4> QED
        BY <1>3, <4>2
    <3> QED
      BY <3>1, <3>2
  <2> QED
    BY <2>1, <2>2, ScansStep
<1> QED
  BY <1>1, <1>2, <1>4 DEF QuarantineInv, QuarantinePass

\* A row that records a quarantine tells the truth about the mailbox, for
\* every interleaving of passes and every failure of the calls.
THEOREM RecordedQuarantine == Spec => []RecordedQuarantineIsReal
<1>1. Init => QuarantineInv
  BY DEF Init, QuarantineInv, RecordedQuarantineIsReal
<1>2. QuarantineInv => RecordedQuarantineIsReal
  BY DEF QuarantineInv
<1> QED
  BY <1>1, <1>2, PassTypeInit, PassTypeNext, QuarantineNext, PTL DEF Spec

-----------------------------------------------------------------------------
(***************************************************************************)
(* Administrators beside the passes.                                       *)
(*                                                                         *)
(* A request commits what it made of a row it loaded earlier, after it     *)
(* moved the message in Gmail.  The invariant is about the request in      *)
(* between: on a message nobody disputes it is the only one, its row is    *)
(* still as it loaded it or as it committed it half way (HoldsRow), and    *)
(* the row it is about to commit is true of the mailbox as it is now       *)
(* (Truthful).  That no pass interferes rests on the lock: the batch of    *)
(* the one pass there is holds no message that has a row (UnstoredBatch).  *)
(***************************************************************************)

\* The inductive invariant.

\* What a row reports of a message is so, given the message's labels.
Truthful(row, ls) ==
    row.mailbox_action_error = "" =>
        /\ row.mailbox_action = "quarantined" => "Quarantine" \in ls /\ "INBOX" \notin ls
        /\ row.mailbox_action = "none" => "Quarantine" \notin ls /\ "INBOX" \in ls

\* What a request holds by its place, whatever others do to its message.
RequestShape(a) ==
    /\ at[a] = "idle" <=> item[a] = NoMsg
    /\ at[a] # "idle" =>
         /\ decision[a] \in Decision
         /\ scans[item[a]] # <<>>
         /\ mine[a].status \in {seen[a].status, "Delivered"}
    /\ at[a] \in {"opened", "refreshed", "call"} => decision[a] \in MailboxDecision

\* A request on a message nobody disputes.
HoldsRow(a) ==
    at[a] # "idle" /\ item[a] \notin disputed =>
        /\ scans[item[a]][1]
               = IF at[a] \in {"refreshed", "refused"} THEN mine[a] ELSE seen[a]
        /\ mine[a].classification = VerdictOf(decision[a])
        /\ Truthful(mine[a], labels[item[a]])

OneRequest ==
    \A a, b \in Admin :
        at[a] # "idle" /\ item[a] = item[b] /\ item[a] \notin disputed => a = b

StoredInv ==
    \A m \in Msg :
        /\ scans[m] # <<>> => arrived[m] # 0
        /\ decided[m] # "none" => scans[m] # <<>>

\* What is left of a batch has no row yet, and the row about to be stored is
\* true of its message.
UnstoredBatch(p) ==
    /\ pc[p] = "idle" => todo[p] = {}
    /\ \A m \in todo[p] : scans[m] = <<>> /\ arrived[m] # 0
    /\ pc[p] \in {"act", "store"} => current[p] \in todo[p]
    /\ pc[p] = "store" => Truthful(draft[p], labels[current[p]])

\* The parts that hold whatever the lock does.
RequestInv == PassTypeOK /\ ReviewTypeOK /\ \A a \in Admin : RequestShape(a)

LockHeld == PassMeansLock /\ LockProofs!LockInv

BatchInv == \A p \in Proc : UnstoredBatch(p)

RowInv ==
    /\ StoredInv
    /\ \A a \in Admin : HoldsRow(a)
    /\ OneRequest
    /\ MailboxTruth /\ LastDecisionWins

ReviewInv == RequestInv /\ LockHeld /\ BatchInv /\ RowInv

-----------------------------------------------------------------------------
\* Rows, and what a request makes of them.

LEMMA DecideRow ==
  ASSUME NEW row \in Row, NEW d \in Decision
  PROVE  /\ Decide(row, d) \in Row
         /\ Decide(row, d).classification = VerdictOf(d)
         /\ Decide(row, d).status \in {row.status, "Delivered"}
         /\ Decide(row, d).mailbox_action = row.mailbox_action
         /\ Decide(row, d).mailbox_action_error = row.mailbox_action_error
BY DEF Decide, Row, VerdictOf, Verdict, ScanStatus

LEMMA ReportedRow ==
  ASSUME NEW row \in Row, NEW d \in Decision
  PROVE  /\ Reported(row, d) \in Row
         /\ Reported(row, d).classification = row.classification
         /\ Reported(row, d).status = row.status
         /\ Reported(row, d).mailbox_action
               = IF d = "release" THEN "none" ELSE "quarantined"
BY DEF Reported, Row, MailboxAction

LEMMA FailedRowColumns ==
  ASSUME NEW row \in Row
  PROVE  /\ FailedRow(row) \in Row
         /\ FailedRow(row).classification = row.classification
         /\ FailedRow(row).status = row.status
         /\ FailedRow(row).mailbox_action_error = "GmailError"
BY DEF FailedRow, Row

LEMMA UpdatedRow ==
  ASSUME NEW row \in Row, NEW was \in Row, NEW now \in Row
  PROVE  /\ Updated(row, was, now) \in Row
         /\ Updated(row, was, now).status
               = IF now.status # was.status THEN now.status ELSE row.status
         /\ row = was => Updated(row, was, now) = now
<1>1. Updated(row, was, now) \in Row
  BY DEF Updated, Row
<1>2. Updated(row, was, now).status
        = IF now.status # was.status THEN now.status ELSE row.status
  BY DEF Updated, Row
<1>3. row = was => Updated(row, was, now) = now
  BY DEF Updated, Row
<1> QED
  BY <1>1, <1>2, <1>3

\* Writing the first row of a message that has one.
LEMMA FirstRowPut ==
  ASSUME NEW s \in Seq(Row), s # <<>>, NEW row \in Row, NEW t,
         t = [s EXCEPT ![1] = row]
  PROVE  t \in Seq(Row) /\ t # <<>> /\ t[1] = row /\ s[1] \in Row
<1>1. Len(s) \in Nat \ {0}
  BY EmptySeq
<1>2. 1 \in 1..Len(s)
  BY <1>1
<1>3. /\ t \in Seq(Row) /\ Len(t) = Len(s) /\ t[1] = row
  BY <1>2, ExceptSeq
<1>4. t # <<>>
  BY <1>1, <1>3, EmptySeq
<1>5. s[1] \in Row
  BY <1>2, LenProperties
<1> QED
  BY <1>3, <1>4, <1>5

LEMMA FirstRow ==
  ASSUME NEW s \in Seq(Row), s # <<>>
  PROVE  s[1] \in Row
<1>1. Len(s) \in Nat \ {0}
  BY EmptySeq
<1> QED
  BY <1>1, LenProperties

\* What a call of Gmail leaves is what the row then reports.
LEMMA MovedIsTrue ==
  ASSUME NEW row \in Row, NEW d \in MailboxDecision, NEW ls \in SUBSET Label
  PROVE  /\ Truthful(Reported(row, d), Moved(ls, d))
         /\ Moved(ls, d) \in SUBSET Label
<1>1. d = "release" \/ d = "confirm"
  BY DEF MailboxDecision
<1>2. Reported(row, d).mailbox_action = IF d = "release" THEN "none" ELSE "quarantined"
  BY <1>1, ReportedRow DEF Decision
<1>3. d = "release" => Moved(ls, d) = (ls \cup {"INBOX"}) \ {"Quarantine", "NeedsReview"}
  BY DEF Moved
<1>4. d = "confirm" => Moved(ls, d) = (ls \cup {"Quarantine"}) \ {"INBOX"}
  BY DEF Moved, Relabelled
<1>5. Moved(ls, d) \in SUBSET Label
  BY <1>1, <1>3, <1>4 DEF Label
<1> QED
  BY <1>1, <1>2, <1>3, <1>4, <1>5 DEF Truthful

-----------------------------------------------------------------------------
\* The steps of a request, column by column.

\* A request at work is about a message that has a row.
LEMMA AtWork ==
  ASSUME RequestInv, NEW a \in Admin, at[a] # "idle"
  PROVE  /\ item[a] \in Msg /\ scans[item[a]] # <<>>
         /\ scans[item[a]] \in Seq(Row) /\ scans[item[a]][1] \in Row
         /\ seen[a] \in Row /\ mine[a] \in Row
         /\ decision[a] \in Decision
         /\ labels[item[a]] \in SUBSET Label
<1>1. RequestShape(a) /\ PassTypeOK /\ ReviewTypeOK
  BY DEF RequestInv
<1>2. item[a] \in Msg
  BY <1>1 DEF RequestShape, ReviewTypeOK
<1>3. scans[item[a]] \in Seq(Row) /\ scans[item[a]] # <<>>
  BY <1>1, <1>2 DEF RequestShape, PassTypeOK
<1> QED
  BY <1>1, <1>2, <1>3, FirstRow DEF RequestShape, PassTypeOK, ReviewTypeOK

LEMMA PutRow ==
  ASSUME RequestInv, NEW a \in Admin, at[a] # "idle", NEW row \in Row, Put(a, row)
  PROVE  /\ scans' \in [Msg -> Seq(Row)]
         /\ \A m \in Msg : scans'[m] = <<>> <=> scans[m] = <<>>
         /\ \A m \in Msg \ {item[a]} : scans'[m] = scans[m]
         /\ scans'[item[a]][1] = row
<1> DEFINE m == item[a]
           t == [scans[m] EXCEPT ![1] = row]
<1>1. m \in Msg /\ scans[m] # <<>> /\ scans[m] \in Seq(Row)
  BY AtWork
<1>2. t \in Seq(Row) /\ t # <<>> /\ t[1] = row
  BY <1>1, FirstRowPut
<1>3. scans' = [scans EXCEPT ![m] = t]
  BY DEF Put
<1>4. scans \in [Msg -> Seq(Row)]
  BY DEF RequestInv, PassTypeOK
<1> HIDE DEF t, m
<1>5. scans'[m] = t /\ \A n \in Msg \ {m} : scans'[n] = scans[n]
  BY <1>1, <1>3, <1>4
<1>6. scans' \in [Msg -> Seq(Row)]
  BY <1>1, <1>2, <1>3, <1>4
<1> QED
  BY <1>1, <1>2, <1>5, <1>6 DEF m

LEMMA WriteRow ==
  ASSUME RequestInv, NEW a \in Admin, at[a] # "idle", Write(a)
  PROVE  /\ scans' \in [Msg -> Seq(Row)]
         /\ \A m \in Msg : scans'[m] = <<>> <=> scans[m] = <<>>
         /\ \A m \in Msg \ {item[a]} : scans'[m] = scans[m]
         /\ scans'[item[a]][1] = Updated(scans[item[a]][1], seen[a], mine[a])
<1>1. Updated(scans[item[a]][1], seen[a], mine[a]) \in Row
  BY AtWork, UpdatedRow
<1> QED
  BY <1>1, PutRow DEF Write

\* The commit of a refusal, as the write of a row.
LEMMA PutFailed ==
  ASSUME RequestInv, NEW a \in Admin, at[a] # "idle", Put(a, FailedRow(scans[item[a]][1]))
  PROVE  /\ scans' \in [Msg -> Seq(Row)]
         /\ \A m \in Msg : scans'[m] = <<>> <=> scans[m] = <<>>
         /\ \A m \in Msg \ {item[a]} : scans'[m] = scans[m]
         /\ scans'[item[a]][1] = FailedRow(scans[item[a]][1])
<1>1. FailedRow(scans[item[a]][1]) \in Row
  BY AtWork, FailedRowColumns
<1> QED
  BY <1>1, PutRow

\* Requests leave the pass alone, and the baseline.
Untouched ==
    UNCHANGED <<arrived, newest, last_history_id, audit, lock, pc, batch,
                inHand, watch_id, passedOver>>

\* What a step of request a does to another request, and to its own locals.
OthersStand(a) ==
    \A b \in Admin \ {a} :
        UNCHANGED <<at[b], item[b], decision[b], seen[b], mine[b]>>

LEMMA OthersKeep ==
  ASSUME ReviewTypeOK, NEW a \in Admin, Review(a)
  PROVE  Untouched /\ OthersStand(a)
<1> USE DEF Untouched, OthersStand, ReviewTypeOK, Goes
<1>1. ASSUME NEW m \in Msg, NEW d \in Decision, Open(a, m, d)
      PROVE  Untouched /\ OthersStand(a)
  BY <1>1 DEF Open, vars, mailbox, records
<1>2. CASE RefreshToken(a) \/ RefreshRefused(a)
  BY <1>2 DEF RefreshToken, RefreshRefused, mailbox
<1>3. CASE Reload(a)
  BY <1>3 DEF Reload, vars, mailbox, records
<1>4. CASE CallGmail(a)
  BY <1>4 DEF CallGmail, records
<1>5. CASE CallFails(a)
  BY <1>5 DEF CallFails, records
<1>6. CASE Commit(a) \/ CommitRefusal(a)
  BY <1>6 DEF Commit, CommitRefusal, EndRequest, mailbox
<1>7. CASE RequestDies(a)
  BY <1>7 DEF RequestDies, EndRequest, mailbox, records
<1> QED
  BY <1>1, <1>2, <1>3, <1>4, <1>5, <1>6, <1>7 DEF Review

\* The locals of a request after each step of it.
LEMMA OpenColumns ==
  ASSUME ReviewTypeOK, NEW a \in Admin, NEW m \in Msg, NEW d \in Decision, Open(a, m, d)
  PROVE  /\ at[a] = "idle" /\ scans[m] # <<>>
         /\ at'[a] = IF d \in MailboxDecision THEN "opened" ELSE "commit"
         /\ item'[a] = m /\ decision'[a] = d
         /\ seen'[a] = scans[m][1] /\ mine'[a] = Decide(scans[m][1], d)
         /\ disputed' = IF \E b \in Admin : item[b] = m THEN disputed \cup {m} ELSE disputed
         /\ UNCHANGED <<scans, labels, decided>>
BY DEF Open, Goes, ReviewTypeOK, vars, mailbox, records

LEMMA RefreshColumns ==
  ASSUME ReviewTypeOK, NEW a \in Admin, RefreshToken(a) \/ RefreshRefused(a)
  PROVE  /\ at[a] = "opened" /\ at'[a] \in {"refreshed", "refused"}
         /\ Write(a)
         /\ UNCHANGED <<item, decision, seen, mine, labels, decided, disputed>>
BY DEF RefreshToken, RefreshRefused, Goes, ReviewTypeOK, mailbox

LEMMA ReloadColumns ==
  ASSUME ReviewTypeOK, NEW a \in Admin, Reload(a)
  PROVE  /\ at[a] = "refreshed" /\ at'[a] = "call"
         /\ seen'[a] = scans[item[a]][1] /\ mine'[a] = scans[item[a]][1]
         /\ UNCHANGED <<item, decision, scans, labels, decided, disputed>>
BY DEF Reload, Goes, ReviewTypeOK, vars, mailbox, records

\* A call moves the labels, or fails and may not have.
LEMMA CallColumns ==
  ASSUME ReviewTypeOK, PassTypeOK, NEW a \in Admin, CallGmail(a) \/ CallFails(a)
  PROVE  /\ at[a] \in {"opened", "call"} /\ at'[a] = "commit"
         /\ \/ /\ mine'[a] = Reported(mine[a], decision[a])
               /\ labels' = [labels EXCEPT ![item[a]] = Moved(labels[item[a]], decision[a])]
            \/ /\ mine'[a] = FailedRow(mine[a])
               /\ \/ labels' = [labels EXCEPT ![item[a]] = Moved(labels[item[a]], decision[a])]
                  \/ UNCHANGED labels
         /\ UNCHANGED <<item, decision, seen, scans, decided, disputed>>
<1>1. CASE CallGmail(a)
  BY <1>1 DEF CallGmail, Goes, ReviewTypeOK, records
<1>2. CASE CallFails(a)
  BY <1>2 DEF CallFails, Goes, ReviewTypeOK, records
<1> QED
  BY <1>1, <1>2

LEMMA EndColumns ==
  ASSUME ReviewTypeOK, NEW a \in Admin, Commit(a) \/ CommitRefusal(a) \/ RequestDies(a)
  PROVE  /\ at'[a] = "idle" /\ item'[a] = NoMsg /\ decision'[a] = "none"
         /\ UNCHANGED labels
         /\ \/ /\ \/ at[a] = "commit" /\ Write(a)
                  \/ at[a] = "refused" /\ Put(a, FailedRow(scans[item[a]][1]))
               /\ UNCHANGED disputed
               /\ decided' = [decided EXCEPT ![item[a]] = decision[a]]
            \/ /\ at[a] # "idle" /\ UNCHANGED <<scans, decided>>
               /\ disputed' = disputed \cup {item[a]}
<1>1. CASE Commit(a)
  BY <1>1 DEF Commit, EndRequest, Goes, ReviewTypeOK, mailbox
<1>2. CASE RequestDies(a)
  BY <1>2 DEF RequestDies, EndRequest, Goes, ReviewTypeOK, mailbox, records
<1>3. CASE CommitRefusal(a)
  BY <1>3 DEF CommitRefusal, EndRequest, Goes, ReviewTypeOK, mailbox
<1> QED
  BY <1>1, <1>2, <1>3

LEMMA ReviewSteps ==
  ASSUME NEW a \in Admin, Review(a)
  PROVE  \/ \E m \in Msg, d \in Decision : Open(a, m, d)
         \/ RefreshToken(a) \/ RefreshRefused(a) \/ Reload(a)
         \/ CallGmail(a) \/ CallFails(a)
         \/ Commit(a) \/ CommitRefusal(a) \/ RequestDies(a)
BY DEF Review

-----------------------------------------------------------------------------
\* Types.

LEMMA CountersType ==
  ASSUME ReviewTypeOK, PassTypeOK, NEW a \in Admin, Review(a)
  PROVE  /\ reviews_left' \in 0..MaxReviews /\ faults_left' \in Nat
         /\ protected' \in BOOLEAN
<1> USE GmailReviewAssumption DEF ReviewTypeOK, PassTypeOK
<1>0. protected' \in BOOLEAN
  BY DEF Review, Open, RefreshToken, RefreshRefused, Reload, CallGmail, CallFails, Commit,
         CommitRefusal, RequestDies, vars
<1>1. ASSUME NEW m \in Msg, NEW d \in Decision, Open(a, m, d)
      PROVE  reviews_left' = reviews_left - 1 /\ reviews_left > 0 /\ UNCHANGED faults_left
  BY <1>1 DEF Open, vars
<1>2. CASE RefreshToken(a) \/ Reload(a) \/ CallGmail(a) \/ Commit(a) \/ CommitRefusal(a)
  BY <1>2 DEF RefreshToken, Reload, CallGmail, Commit, CommitRefusal, vars
<1>3. CASE CallFails(a) \/ RequestDies(a) \/ RefreshRefused(a)
  <2>1. UNCHANGED reviews_left
    BY <1>3 DEF CallFails, RequestDies, RefreshRefused
  <2>2. faults_left' \in Nat
    BY <1>3, FaultType DEF CallFails, RequestDies, RefreshRefused, GrantRefused, NoFault
  <2> QED
    BY <1>0, <2>1, <2>2
<1> QED
  BY <1>0, <1>1, <1>2, <1>3, ReviewSteps

\* The row a request holds stays a row.
LEMMA LocalsType ==
  ASSUME RequestInv, NEW a \in Admin, Review(a)
  PROVE  /\ at' \in [Admin -> Place] /\ item' \in [Admin -> Msg \cup {NoMsg}]
         /\ decision' \in [Admin -> Decision \cup {"none"}]
         /\ seen' \in [Admin -> Row] /\ mine' \in [Admin -> Row]
         /\ decided' \in [Msg -> Decision \cup {"none"}]
         /\ disputed' \subseteq Msg
<1>0. ReviewTypeOK /\ PassTypeOK
  BY DEF RequestInv
<1> USE DEF Place
<1>1. ASSUME NEW m \in Msg, NEW d \in Decision, Open(a, m, d)
      PROVE  /\ scans[m][1] \in Row /\ Decide(scans[m][1], d) \in Row
  BY <1>0, <1>1, FirstRow, DecideRow DEF Open, PassTypeOK
<1>2. ASSUME NEW m \in Msg, NEW d \in Decision, Open(a, m, d)
      PROVE  /\ at' \in [Admin -> Place] /\ item' \in [Admin -> Msg \cup {NoMsg}]
             /\ decision' \in [Admin -> Decision \cup {"none"}]
             /\ seen' \in [Admin -> Row] /\ mine' \in [Admin -> Row]
             /\ decided' \in [Msg -> Decision \cup {"none"}]
             /\ disputed' \subseteq Msg
  BY <1>0, <1>1, <1>2 DEF Open, Goes, ReviewTypeOK
<1>3. CASE RefreshToken(a) \/ RefreshRefused(a)
  BY <1>0, <1>3 DEF RefreshToken, RefreshRefused, Goes, ReviewTypeOK
<1>4. CASE Reload(a)
  <2>1. scans[item[a]][1] \in Row
    BY <1>4, AtWork DEF Reload
  <2> QED
    BY <1>0, <1>4, <2>1 DEF Reload, Goes, ReviewTypeOK
<1>5. CASE CallGmail(a) \/ CallFails(a)
  <2>1. at[a] # "idle"
    BY <1>0, <1>5, CallColumns
  <2>2. Reported(mine[a], decision[a]) \in Row /\ FailedRow(mine[a]) \in Row
    BY <2>1, AtWork, ReportedRow, FailedRowColumns
  <2> QED
    BY <1>0, <1>5, <2>2 DEF CallGmail, CallFails, Goes, ReviewTypeOK
<1>6. CASE Commit(a) \/ CommitRefusal(a) \/ RequestDies(a)
  <2>1. at[a] # "idle"
    BY <1>0, <1>6, EndColumns
  <2>2. item[a] \in Msg /\ decision[a] \in Decision
    BY <2>1, AtWork
  <2> QED
    BY <1>0, <1>6, <2>2, BlankRowType
    DEF Commit, CommitRefusal, RequestDies, EndRequest, Goes, ReviewTypeOK
<1> QED
  BY <1>2, <1>3, <1>4, <1>5, <1>6, ReviewSteps

LEMMA LabelsType ==
  ASSUME RequestInv, NEW a \in Admin, Review(a)
  PROVE  /\ labels' \in [Msg -> SUBSET Label] /\ scans' \in [Msg -> Seq(Row)]
         /\ \A m \in Msg : scans'[m] = <<>> <=> scans[m] = <<>>
         /\ \A m \in Msg : scans[m] = <<>> => labels'[m] = labels[m]
<1>0. ReviewTypeOK /\ PassTypeOK /\ RequestShape(a)
  BY DEF RequestInv
<1>1. labels \in [Msg -> SUBSET Label] /\ scans \in [Msg -> Seq(Row)]
  BY <1>0 DEF PassTypeOK
<1>2. CASE /\ Write(a) \/ Put(a, FailedRow(scans[item[a]][1]))
           /\ at[a] # "idle" /\ UNCHANGED labels
  BY <1>1, <1>2, WriteRow, PutFailed
<1>3. CASE UNCHANGED <<scans, labels>>
  BY <1>1, <1>3
<1>4. CASE CallGmail(a) \/ CallFails(a)
  <2>1. /\ at[a] \in {"opened", "call"} /\ UNCHANGED scans
        /\ \/ labels' = [labels EXCEPT ![item[a]] = Moved(labels[item[a]], decision[a])]
           \/ UNCHANGED labels
    BY <1>0, <1>4, CallColumns
  <2>2. decision[a] \in MailboxDecision /\ item[a] \in Msg /\ scans[item[a]] # <<>>
    BY <1>0, <2>1, AtWork DEF RequestShape
  <2>3. \A ls \in SUBSET Label : Moved(ls, decision[a]) \in SUBSET Label
    BY <2>2, MovedIsTrue, BlankRowType
  <2> QED
    BY SMTT(30), <1>1, <2>1, <2>2, <2>3
<1>5. CASE Commit(a) \/ CommitRefusal(a) \/ RequestDies(a)
  BY <1>0, <1>2, <1>3, <1>5, EndColumns
<1>6. CASE RefreshToken(a) \/ RefreshRefused(a)
  BY <1>0, <1>2, <1>6, RefreshColumns
<1>7. CASE Reload(a) \/ \E m \in Msg, d \in Decision : Open(a, m, d)
  BY <1>0, <1>3, <1>7, ReloadColumns, OpenColumns
<1> QED
  BY <1>4, <1>5, <1>6, <1>7, ReviewSteps

LEMMA ShapeKeeps ==
  ASSUME RequestInv, NEW a \in Admin, Review(a), NEW b \in Admin
  PROVE  RequestShape(b)'
<1>0. ReviewTypeOK /\ PassTypeOK /\ RequestShape(a) /\ RequestShape(b)
  BY DEF RequestInv
<1>1. \A m \in Msg : scans'[m] = <<>> <=> scans[m] = <<>>
  BY LabelsType
<1>2. CASE b # a
  <2>1. UNCHANGED <<at[b], item[b], decision[b], seen[b], mine[b]>>
    BY <1>0, <1>2, OthersKeep DEF OthersStand
  <2>2. at[b] # "idle" => item[b] \in Msg
    BY AtWork
  <2> QED
    BY <1>0, <1>1, <2>1, <2>2 DEF RequestShape
<1>3. CASE b = a
  <2>1. ASSUME NEW m \in Msg, NEW d \in Decision, Open(a, m, d)
        PROVE  RequestShape(a)'
    <3>1. scans[m][1] \in Row
      BY <1>0, <2>1, FirstRow DEF Open, PassTypeOK
    <3>2. Decide(scans[m][1], d).status \in {scans[m][1].status, "Delivered"}
      BY <3>1, DecideRow
    <3> QED
      BY <1>0, <1>1, <2>1, <3>2, OpenColumns, GmailSyncAssumption DEF RequestShape
  <2>2. CASE at[a] # "idle" /\ UNCHANGED <<item[a], decision[a]>>
             /\ at'[a] \in Place \ {"idle"}
             /\ (at'[a] = "commit" \/ decision[a] \in MailboxDecision)
             /\ mine'[a].status \in {seen'[a].status, "Delivered"}
    <3>1. item[a] \in Msg
      BY <2>2, AtWork
    <3> QED
      BY <1>0, <1>1, <1>3, <2>2, <3>1, GmailSyncAssumption DEF RequestShape, Place
  <2>3. CASE RefreshToken(a) \/ RefreshRefused(a)
    BY <1>0, <1>3, <2>2, <2>3, RefreshColumns DEF RequestShape, Place
  <2>4. CASE Reload(a)
    BY <1>0, <1>3, <2>2, <2>4, ReloadColumns DEF RequestShape, Place
  <2>5. CASE CallGmail(a) \/ CallFails(a)
    <3>1. at[a] # "idle"
      BY <1>0, <2>5, CallColumns
    <3>2. mine'[a].status = mine[a].status
      BY <1>0, <2>5, <3>1, AtWork, CallColumns, ReportedRow, FailedRowColumns
    <3> QED
      BY <1>0, <1>3, <2>2, <2>5, <3>1, <3>2, CallColumns DEF RequestShape, Place
  <2>6. CASE Commit(a) \/ CommitRefusal(a) \/ RequestDies(a)
    BY <1>0, <1>3, <2>6, EndColumns DEF RequestShape
  <2> QED
    BY <1>3, <2>1, <2>3, <2>4, <2>5, <2>6, ReviewSteps
<1> QED
  BY <1>2, <1>3

LEMMA RequestReview ==
  ASSUME RequestInv, NEW a \in Admin, Review(a)
  PROVE  RequestInv'
<1>0. ReviewTypeOK /\ PassTypeOK
  BY DEF RequestInv
<1>1. /\ UNCHANGED <<arrived, newest, last_history_id, audit, watch_id>>
      /\ UNCHANGED pc /\ UNCHANGED batch /\ UNCHANGED inHand /\ UNCHANGED passedOver
  BY <1>0, OthersKeep DEF Untouched
<1>2. PassTypeOK'
  <2>1. faults_left' \in Nat /\ protected' \in BOOLEAN
    BY <1>0, CountersType
  <2> QED
    BY <1>0, <1>1, <2>1, LabelsType DEF PassTypeOK, batch, inHand, passedOver
<1>3. ReviewTypeOK'
  BY <1>0, LocalsType, CountersType DEF ReviewTypeOK
<1> QED
  BY <1>2, <1>3, ShapeKeeps DEF RequestInv

-----------------------------------------------------------------------------
\* The lock, which requests do not touch.

LEMMA LockReview ==
  ASSUME RequestInv, LockHeld, MaxRun <= StaleAfter, NEW a \in Admin, Review(a)
  PROVE  LockHeld'
<1>1. UNCHANGED lock /\ UNCHANGED pc
  BY OthersKeep DEF Untouched, RequestInv
<1>2. UNCHANGED LockProofs!vars
  BY <1>1 DEF lock, LockProofs!vars
<1>3. LockProofs!LockInv'
  BY <1>2, LockAssumption, LockProofs!LockInvNext DEF LockHeld
<1>4. PassMeansLock'
  BY <1>1 DEF LockHeld, PassMeansLock, lock
<1> QED
  BY <1>3, <1>4 DEF LockHeld

LEMMA LockPass ==
  ASSUME PassTypeOK, LockHeld, MaxRun <= StaleAfter, [Next]_vars
  PROVE  LockHeld'
<1>1. LockProofs!LockInv'
  BY LockStep, LockAssumption, SameLock, LockProofs!LockInvNext DEF LockHeld
<1> QED
  BY <1>1, PassMeansLockNext DEF LockHeld

LEMMA OneAtATime == LockHeld => OnePassAtATime
BY DEF LockHeld, PassMeansLock, OnePassAtATime, LockProofs!LockInv, LockProofs!OneRunner

-----------------------------------------------------------------------------
\* The batch.

\* A step that leaves the locals of a pass alone, and the labels and rows of
\* the messages that have arrived and have no row.
LEMMA BatchStands ==
  ASSUME NEW p \in Proc, UnstoredBatch(p), PassTypeOK,
         UNCHANGED <<pc[p], todo[p], current[p], draft[p]>>,
         \A m \in Msg : scans[m] = <<>> /\ arrived[m] # 0
            => scans'[m] = <<>> /\ labels'[m] = labels[m] /\ arrived'[m] # 0
  PROVE  UnstoredBatch(p)'
BY DEF UnstoredBatch, PassTypeOK

LEMMA BatchReview ==
  ASSUME RequestInv, BatchInv, NEW a \in Admin, Review(a)
  PROVE  BatchInv'
<1>1. UNCHANGED arrived /\ UNCHANGED pc /\ UNCHANGED batch /\ UNCHANGED inHand
  BY OthersKeep DEF Untouched, RequestInv
<1>2. \A m \in Msg : scans[m] = <<>> => scans'[m] = <<>> /\ labels'[m] = labels[m]
  BY LabelsType
<1> SUFFICES ASSUME NEW p \in Proc PROVE UnstoredBatch(p)'
  BY DEF BatchInv
<1> QED
  BY <1>1, <1>2, BatchStands DEF BatchInv, RequestInv, batch, inHand

-----------------------------------------------------------------------------
\* A step of a request, seen from the rows.

\* Only the message of the request is written, moved or decided.
LEMMA Elsewhere ==
  ASSUME RequestInv, NEW a \in Admin, Review(a)
  PROVE  /\ \A m \in Msg \ {item[a]} : /\ scans'[m] = scans[m]
                                       /\ labels'[m] = labels[m]
                                       /\ decided'[m] = decided[m]
         /\ at[a] = "idle" => UNCHANGED <<scans, labels, decided>>
         /\ disputed \subseteq disputed'
<1>0. ReviewTypeOK /\ PassTypeOK
  BY DEF RequestInv
<1>1. labels \in [Msg -> SUBSET Label] /\ decided \in [Msg -> Decision \cup {"none"}]
  BY <1>0 DEF ReviewTypeOK, PassTypeOK
<1>2. CASE Reload(a) \/ \E m \in Msg, d \in Decision : Open(a, m, d)
  BY <1>0, <1>2, ReloadColumns, OpenColumns
<1>3. CASE RefreshToken(a) \/ RefreshRefused(a)
  BY <1>0, <1>3, RefreshColumns, WriteRow
<1>4. CASE CallGmail(a) \/ CallFails(a)
  BY <1>0, <1>1, <1>4, CallColumns
<1>5. CASE Commit(a) \/ CommitRefusal(a) \/ RequestDies(a)
  <2>1. at[a] # "idle"
    BY <1>0, <1>5, EndColumns
  <2>2. CASE /\ Write(a) \/ Put(a, FailedRow(scans[item[a]][1]))
             /\ decided' = [decided EXCEPT ![item[a]] = decision[a]]
             /\ UNCHANGED disputed
    BY <1>0, <1>1, <1>5, <2>1, <2>2, EndColumns, WriteRow, PutFailed
  <2> QED
    BY <1>0, <1>5, <2>1, <2>2, EndColumns
<1> QED
  BY <1>2, <1>3, <1>4, <1>5, ReviewSteps

\* A request ends, or begins, or goes on with its message.
LEMMA WhichMessage ==
  ASSUME RequestInv, NEW a \in Admin, Review(a)
  PROVE  \/ at'[a] = "idle" /\ item'[a] = NoMsg
         \/ \E m \in Msg, d \in Decision : Open(a, m, d)
         \/ at[a] # "idle" /\ item'[a] = item[a]
<1>0. ReviewTypeOK /\ PassTypeOK
  BY DEF RequestInv
<1> QED
  BY <1>0, ReviewSteps, RefreshColumns, ReloadColumns, CallColumns, EndColumns

LEMMA StoredReview ==
  ASSUME RequestInv, StoredInv, NEW a \in Admin, Review(a)
  PROVE  StoredInv'
<1> SUFFICES ASSUME NEW m \in Msg
             PROVE  /\ scans'[m] # <<>> => arrived'[m] # 0
                    /\ decided'[m] # "none" => scans'[m] # <<>>
  BY DEF StoredInv
<1>0. ReviewTypeOK /\ PassTypeOK
  BY DEF RequestInv
<1>1. UNCHANGED arrived /\ (scans'[m] = <<>> <=> scans[m] = <<>>)
  BY <1>0, OthersKeep, LabelsType DEF Untouched
<1>2. CASE m = item[a] /\ at[a] # "idle"
  BY <1>1, <1>2, AtWork DEF StoredInv
<1>3. CASE m # item[a] \/ at[a] = "idle"
  BY <1>1, <1>3, Elsewhere DEF StoredInv
<1> QED
  BY <1>2, <1>3

LEMMA OneRequestReview ==
  ASSUME RequestInv, OneRequest, NEW a \in Admin, Review(a)
  PROVE  OneRequest'
<1>0. ReviewTypeOK /\ PassTypeOK /\ OthersStand(a) /\ disputed \subseteq disputed'
  BY OthersKeep, Elsewhere DEF RequestInv
<1>1. \A b \in Admin : at[b] # "idle" => item[b] \in Msg
  BY AtWork
<1> SUFFICES ASSUME NEW b \in Admin, NEW c \in Admin, at'[b] # "idle",
                    item'[b] = item'[c], item'[b] \notin disputed'
             PROVE  b = c
  BY DEF OneRequest
<1>2. CASE b # a /\ c # a
  BY <1>0, <1>2 DEF OneRequest, OthersStand
<1>3. CASE b = a /\ c = a
  BY <1>3
<1>4. CASE (b = a) # (c = a)
  <2>1. ASSUME NEW m \in Msg, NEW d \in Decision, Open(a, m, d)
        PROVE  b = c
    <3>1. item'[a] = m
      BY <1>0, <2>1, OpenColumns
    <3>2. PICK e \in {b, c} : e # a
      BY <1>4
    <3>3. item[e] = m
      BY <1>0, <1>4, <3>1, <3>2 DEF OthersStand
    <3> QED
      BY <1>0, <1>4, <2>1, <3>1, <3>2, <3>3, OpenColumns
  <2>2. CASE at'[a] = "idle" /\ item'[a] = NoMsg
    BY <1>0, <1>1, <1>4, <2>2, GmailSyncAssumption DEF OthersStand
  <2>3. CASE at[a] # "idle" /\ item'[a] = item[a]
    BY <1>0, <1>4, <2>3 DEF OneRequest, OthersStand
  <2> QED
    BY <2>1, <2>2, <2>3, WhichMessage
<1> QED
  BY <1>2, <1>3, <1>4

\* The others' requests on messages nobody disputes are on other messages.
LEMMA HoldsOther ==
  ASSUME RequestInv, OneRequest, NEW a \in Admin, Review(a),
         NEW b \in Admin \ {a}, HoldsRow(b)
  PROVE  HoldsRow(b)'
<1>0. ReviewTypeOK /\ PassTypeOK /\ OthersStand(a) /\ disputed \subseteq disputed'
  BY OthersKeep, Elsewhere DEF RequestInv
<1>1. UNCHANGED <<at[b], item[b], decision[b], seen[b], mine[b]>>
  BY <1>0 DEF OthersStand
<1> SUFFICES ASSUME at[b] # "idle", item[b] \notin disputed
             PROVE  /\ scans'[item[b]] = scans[item[b]]
                    /\ labels'[item[b]] = labels[item[b]]
  BY <1>0, <1>1 DEF HoldsRow
<1>2. item[b] \in Msg
  BY AtWork
<1>3. CASE at[a] = "idle"
  BY <1>3, Elsewhere
<1>4. CASE at[a] # "idle"
  BY <1>2, <1>4, Elsewhere DEF OneRequest
<1> QED
  BY <1>3, <1>4

LEMMA HoldsOwn ==
  ASSUME RequestInv, NEW a \in Admin, Review(a), HoldsRow(a), MailboxTruth
  PROVE  HoldsRow(a)'
<1>0. ReviewTypeOK /\ PassTypeOK /\ RequestShape(a) /\ disputed \subseteq disputed'
  BY Elsewhere DEF RequestInv
<1>1. ASSUME NEW m \in Msg, NEW d \in Decision, Open(a, m, d)
      PROVE  HoldsRow(a)'
  <2>1. /\ scans[m] # <<>> /\ at'[a] \notin {"refreshed", "refused"}
        /\ item'[a] = m /\ decision'[a] = d
        /\ seen'[a] = scans[m][1] /\ mine'[a] = Decide(scans[m][1], d)
        /\ m \notin disputed' => m \notin disputed /\ \A b \in Admin : item[b] # m
        /\ UNCHANGED <<scans, labels>>
    BY <1>0, <1>1, OpenColumns
  <2>2. scans[m][1] \in Row
    BY <1>0, <2>1, FirstRow DEF PassTypeOK
  <2>3. m \notin disputed' => Truthful(scans[m][1], labels[m])
    BY <2>1 DEF MailboxTruth, AtRest, ReportIsTrue, Truthful, Hidden
  <2>4. m \notin disputed' => Truthful(mine'[a], labels[m])
    <3>1. /\ mine'[a].mailbox_action = scans[m][1].mailbox_action
          /\ mine'[a].mailbox_action_error = scans[m][1].mailbox_action_error
      BY <2>1, <2>2, DecideRow
    <3> QED
      BY <2>3, <3>1 DEF Truthful
  <2>5. mine'[a].classification = VerdictOf(d)
    BY <2>1, <2>2, DecideRow
  <2> QED
    BY <2>1, <2>4, <2>5 DEF HoldsRow
<1>2. CASE RefreshToken(a) \/ RefreshRefused(a)
  <2>1. /\ at[a] = "opened" /\ at'[a] \in {"refreshed", "refused"} /\ Write(a)
        /\ UNCHANGED <<item, decision, seen, mine, labels, disputed>>
    BY <1>0, <1>2, RefreshColumns
  <2>2. item[a] \notin disputed =>
            /\ scans'[item[a]][1] = mine[a]
            /\ mine[a].classification = VerdictOf(decision[a])
            /\ Truthful(mine[a], labels[item[a]])
    BY <2>1, WriteRow, UpdatedRow, AtWork DEF HoldsRow
  <2> QED
    BY <2>1, <2>2 DEF HoldsRow
<1>3. CASE Reload(a)
  BY <1>0, <1>3, ReloadColumns DEF HoldsRow
<1>4. CASE CallGmail(a) \/ CallFails(a)
  <2>1. /\ at[a] \in {"opened", "call"} /\ at'[a] = "commit"
        /\ UNCHANGED <<item, decision, seen, scans, disputed>>
    BY <1>0, <1>4, CallColumns
  <2>2. /\ item[a] \in Msg /\ mine[a] \in Row /\ labels[item[a]] \in SUBSET Label
        /\ decision[a] \in MailboxDecision
    BY <1>0, <2>1, AtWork DEF RequestShape
  <2>3. mine'[a].classification = mine[a].classification
    BY <1>0, <1>4, <2>1, AtWork, CallColumns, ReportedRow, FailedRowColumns
  <2>4. Truthful(mine'[a], labels'[item[a]])
    <3>1. CASE mine'[a] = FailedRow(mine[a])
      BY <2>2, <3>1, FailedRowColumns DEF Truthful
    <3>2. CASE /\ mine'[a] = Reported(mine[a], decision[a])
               /\ labels' = [labels EXCEPT ![item[a]] = Moved(labels[item[a]], decision[a])]
      <4>1. labels'[item[a]] = Moved(labels[item[a]], decision[a])
        BY <1>0, <2>2, <3>2 DEF PassTypeOK
      <4> QED
        BY <2>2, <3>2, <4>1, MovedIsTrue
    <3> QED
      BY <1>0, <1>4, <3>1, <3>2, CallColumns
  <2> QED
    BY <2>1, <2>3, <2>4 DEF HoldsRow
<1>5. CASE Commit(a) \/ CommitRefusal(a) \/ RequestDies(a)
  BY <1>0, <1>5, EndColumns DEF HoldsRow
<1> QED
  BY <1>1, <1>2, <1>3, <1>4, <1>5, ReviewSteps

\* What a request leaves behind on a message nobody disputes is what it held.
LEMMA RestedReview ==
  ASSUME RequestInv, NEW a \in Admin, Review(a), HoldsRow(a),
         NEW m \in Msg \ disputed', AtRest(m)',
         MailboxTruth, LastDecisionWins
  PROVE  /\ ReportIsTrue(m)'
         /\ decided'[m] # "none" => scans'[m][1].classification = VerdictOf(decided'[m])
<1>0. ReviewTypeOK /\ PassTypeOK /\ OthersStand(a) /\ disputed \subseteq disputed'
  BY OthersKeep, Elsewhere DEF RequestInv
<1>1. \A b \in Admin : item'[b] # m
  BY DEF AtRest
<1>2. CASE at[a] # "idle" /\ item[a] = m
  <2>1. Commit(a) \/ CommitRefusal(a) \/ RequestDies(a)
    BY <1>0, <1>1, <1>2, ReviewSteps, OpenColumns, RefreshColumns, ReloadColumns, CallColumns
  <2>2. /\ \/ at[a] = "commit" /\ Write(a)
           \/ at[a] = "refused" /\ Put(a, FailedRow(scans[item[a]][1]))
        /\ UNCHANGED <<labels, disputed>>
        /\ decided' = [decided EXCEPT ![m] = decision[a]]
    BY <1>0, <1>2, <2>1, EndColumns
  <2>3. /\ mine[a].classification = VerdictOf(decision[a])
        /\ Truthful(mine[a], labels[m])
    BY <1>2, <2>2 DEF HoldsRow
  <2>5. /\ scans'[m][1].classification = VerdictOf(decision[a])
        /\ Truthful(scans'[m][1], labels[m])
    <3>1. CASE at[a] = "commit" /\ Write(a)
      <4>1. scans'[m][1] = mine[a]
        BY <1>2, <2>2, <3>1, WriteRow, UpdatedRow, AtWork DEF HoldsRow
      <4> QED
        BY <2>3, <4>1
    <3>2. CASE at[a] = "refused" /\ Put(a, FailedRow(scans[item[a]][1]))
      <4>1. scans'[m][1] = FailedRow(mine[a])
        BY <1>2, <2>2, <3>2, PutFailed DEF HoldsRow
      <4> QED
        BY <1>2, <2>3, <4>1, FailedRowColumns, AtWork DEF Truthful
    <3> QED
      BY <2>2, <3>1, <3>2
  <2>4. decided'[m] = decision[a]
    BY <1>0, <2>2 DEF ReviewTypeOK
  <2> QED
    BY <2>2, <2>4, <2>5 DEF ReportIsTrue, Truthful, Hidden
<1>3. CASE at[a] = "idle" \/ item[a] # m
  <2>1. /\ scans'[m] = scans[m] /\ labels'[m] = labels[m] /\ decided'[m] = decided[m]
    BY <1>3, Elsewhere
  <2>2. \A b \in Admin : item[b] # m
    <3>1. \A b \in Admin \ {a} : item[b] # m
      BY <1>0, <1>1 DEF OthersStand
    <3>2. item[a] # m
      BY <1>3, GmailSyncAssumption DEF RequestInv, RequestShape
    <3> QED
      BY <3>1, <3>2
  <2>3. AtRest(m) /\ m \notin disputed
    BY <1>0, <2>1, <2>2 DEF AtRest
  <2>4. /\ ReportIsTrue(m)
        /\ decided[m] # "none" => scans[m][1].classification = VerdictOf(decided[m])
    BY <2>3 DEF MailboxTruth, LastDecisionWins
  <2> QED
    BY <2>1, <2>4 DEF ReportIsTrue, Hidden
<1> QED
  BY <1>2, <1>3

LEMMA RowsReview ==
  ASSUME RequestInv, RowInv, NEW a \in Admin, Review(a)
  PROVE  RowInv'
<1>1. StoredInv' /\ OneRequest'
  BY StoredReview, OneRequestReview DEF RowInv
<1>2. \A b \in Admin : HoldsRow(b)'
  <2>1. HoldsRow(a)'
    BY HoldsOwn DEF RowInv
  <2>2. \A b \in Admin \ {a} : HoldsRow(b)'
    BY HoldsOther DEF RowInv
  <2> QED
    BY <2>1, <2>2
<1>3. MailboxTruth' /\ LastDecisionWins'
  BY RestedReview DEF RowInv, MailboxTruth, LastDecisionWins
<1> QED
  BY <1>1, <1>2, <1>3 DEF RowInv

-----------------------------------------------------------------------------
\* A step of a pass, seen from the rows and the batch.

\* What has a row keeps it, and its labels.
LEMMA PassKeepsRows ==
  ASSUME PassTypeOK, BatchInv, StoredInv, [Next]_vars, NEW m \in Msg, scans[m] # <<>>
  PROVE  scans'[m] = scans[m] /\ labels'[m] = labels[m]
<1>0. labels \in [Msg -> SUBSET Label] /\ scans \in [Msg -> Seq(Row)]
  BY DEF PassTypeOK
<1>1. scans'[m] = scans[m]
  <2>1. ASSUME NEW p \in Proc, scans[current[p]] = <<>>,
               scans' = [scans EXCEPT ![current[p]] = <<draft[p]>>]
        PROVE  scans'[m] = scans[m]
    BY <1>0, <2>1
  <2> QED
    BY <2>1, ScansStep
<1>2. ASSUME NEW n \in Msg, Arrive(n)
      PROVE  labels'[m] = labels[m]
  BY <1>0, <1>2 DEF Arrive, StoredInv
<1>3. ASSUME NEW p \in Proc, NEW n \in Msg, ClassifyFails(p, n)
      PROVE  labels'[m] = labels[m]
  <2>1. n \in todo[p]
    BY <1>3 DEF ClassifyFails, IsNext
  <2>2. n # m
    BY <2>1 DEF BatchInv, UnstoredBatch
  <2> QED
    BY <1>0, <1>3, <2>2 DEF ClassifyFails
<1>4. ASSUME NEW p \in Proc, Act(p) \/ ActFails(p)
      PROVE  labels'[m] = labels[m]
  <2>1. current[p] \in todo[p] /\ scans[current[p]] = <<>>
    BY <1>4 DEF Act, ActFails, BatchInv, UnstoredBatch
  <2>2. current[p] # m
    BY <2>1
  <2> QED
    BY <1>0, <1>4, <2>2 DEF Act, ActFails
<1>5. ASSUME NEW p \in Proc, PassStep(p), ~Act(p), ~ActFails(p),
             \A n \in Msg : ~ClassifyFails(p, n)
      PROVE  UNCHANGED labels
  BY <1>5 DEF PassStep, Connect, ConnectFails, ConnectRefused, ListHistory, ListRecent, Discovered,
     DiscoverFails, Handle, Classify, RetrieveFails, ProcessRaises, Store, StoreIdClash,
     StoreBreaks, Advance, Release, mailbox
<1>6. ASSUME \/ \E p \in Proc : Begin(p) \/ Crash(p)
             \/ WatchCall \/ WatchStore \/ Reconnect \/ TimePasses \/ UNCHANGED vars
      PROVE  UNCHANGED labels
  BY <1>6 DEF Begin, Crash, WatchCall, WatchStore, Reconnect, TimePasses, vars, mailbox
<1> QED
  BY <1>1, <1>2, <1>3, <1>4, <1>5, <1>6 DEF Next, Poll, ScanNow

\* A message gets a row only by the commit of the one pass, from its batch.
LEMMA NewRows ==
  ASSUME PassTypeOK, BatchInv, [Next]_vars, NEW m \in Msg,
         scans[m] = <<>>, scans'[m] # <<>>
  PROVE  \E p \in Proc : /\ Store(p) /\ m = current[p] /\ m \in todo[p]
                         /\ scans'[m] = <<draft[p]>> /\ UNCHANGED labels
<1>0. scans \in [Msg -> Seq(Row)]
  BY DEF PassTypeOK
<1>1. PICK p \in Proc : /\ Store(p) /\ scans[current[p]] = <<>>
                        /\ scans' = [scans EXCEPT ![current[p]] = <<draft[p]>>]
  BY ScansStep
<1>2. m = current[p] /\ scans'[m] = <<draft[p]>>
  BY <1>0, <1>1
<1>3. m \in todo[p] /\ UNCHANGED labels
  BY <1>1, <1>2 DEF BatchInv, UnstoredBatch, Store, mailbox
<1> QED
  BY <1>1, <1>2, <1>3

\* Requests stand still while a pass takes a step; what they hold stays true.
LEMMA RowsPass ==
  ASSUME RequestInv, BatchInv, RowInv, [Next]_vars, UNCHANGED reviewVars
  PROVE  RowInv'
<1>0. ReviewTypeOK /\ PassTypeOK
  BY DEF RequestInv
<1>1. UNCHANGED <<at, item, decision, seen, mine, decided, disputed>>
  BY DEF reviewVars, request
<1>2. \A m \in Msg : scans[m] # <<>> => scans'[m] = scans[m] /\ labels'[m] = labels[m]
  BY <1>0, PassKeepsRows DEF RowInv
<1>3. StoredInv'
  <2> SUFFICES ASSUME NEW m \in Msg
               PROVE  /\ scans'[m] # <<>> => arrived'[m] # 0
                      /\ decided'[m] # "none" => scans'[m] # <<>>
    BY DEF StoredInv
  <2>1. scans'[m] # <<>> => arrived[m] # 0
    BY <1>0, NewRows DEF RowInv, StoredInv, BatchInv, UnstoredBatch
  <2> QED
    BY <1>0, <1>1, <1>2, <2>1, ArrivedStays DEF RowInv, StoredInv
<1>4. ASSUME NEW a \in Admin
      PROVE  HoldsRow(a)'
  BY <1>1, <1>2, <1>4, AtWork DEF RowInv, HoldsRow
<1>5. OneRequest'
  BY <1>1 DEF RowInv, OneRequest
<1>6. ASSUME NEW m \in Msg \ disputed', AtRest(m)'
      PROVE  /\ ReportIsTrue(m)'
             /\ decided'[m] # "none" => scans'[m][1].classification = VerdictOf(decided'[m])
  <2>1. CASE scans[m] # <<>>
    <3>1. AtRest(m) /\ m \notin disputed
      BY <1>1, <1>6, <2>1 DEF AtRest
    <3>2. /\ ReportIsTrue(m)
          /\ decided[m] # "none" => scans[m][1].classification = VerdictOf(decided[m])
      BY <3>1 DEF RowInv, MailboxTruth, LastDecisionWins
    <3> QED
      BY <1>1, <1>2, <2>1, <3>2 DEF ReportIsTrue, Hidden
  <2>2. CASE scans[m] = <<>>
    <3>1. PICK p \in Proc : /\ Store(p) /\ m = current[p] /\ m \in todo[p]
                            /\ scans'[m] = <<draft[p]>> /\ UNCHANGED labels
      BY <1>0, <1>6, <2>2, NewRows DEF AtRest
    <3>2. Truthful(draft[p], labels[m])
      BY <3>1 DEF Store, BatchInv, UnstoredBatch
    <3>3. scans'[m][1] = draft[p] /\ decided[m] = "none"
      BY <2>2, <3>1 DEF RowInv, StoredInv
    <3> QED
      BY <1>1, <3>1, <3>2, <3>3 DEF ReportIsTrue, Truthful, Hidden
  <2> QED
    BY <2>1, <2>2
<1>7. MailboxTruth' /\ LastDecisionWins'
  BY <1>6 DEF MailboxTruth, LastDecisionWins
<1> QED
  BY <1>3, <1>4, <1>5, <1>7 DEF RowInv

\* A pass at work drops messages from its batch; nobody stores them meanwhile.
LEMMA BatchOwn ==
  ASSUME PassTypeOK, BatchInv, StoredInv, [Next]_vars, NEW p \in Proc, PassStep(p),
         \A m \in Msg : arrived[m] # 0 => arrived'[m] # 0
  PROVE  UnstoredBatch(p)'
<1> USE DEF PassTypeOK, UnstoredBatch
<1>0. UnstoredBatch(p)
  BY DEF BatchInv
<1>1. CASE \/ Connect(p) \/ ConnectFails(p) \/ ConnectRefused(p) \/ DiscoverFails(p)
           \/ \E m \in Msg : ProcessRaises(p, m)
  BY <1>0, <1>1 DEF Connect, ConnectFails, ConnectRefused, DiscoverFails, ProcessRaises,
                    GoTo, mailbox, records, batch, inHand
<1>2. CASE ListHistory(p) \/ ListRecent(p)
  <2>1. \A m \in todo'[p] : scans[m] = <<>> /\ arrived[m] # 0
    <3>1. CASE ListHistory(p)
      <4>1. FirstOnes("history", AddedSince(base[p])) \subseteq AddedSince(base[p])
        BY DEF FirstOnes
      <4>2. \A m \in AddedSince(base[p]) : m \in Msg /\ arrived[m] # 0
        BY DEF AddedSince
      <4>3. todo'[p] = FirstOnes("history", AddedSince(base[p])) \ Known
        BY <3>1 DEF ListHistory, Discovered
      <4> QED
        BY <4>1, <4>2, <4>3 DEF Known
    <3>2. CASE ListRecent(p)
      <4>1. FirstOnes("list", RecentInbox) \subseteq RecentInbox
        BY DEF FirstOnes
      <4>2. \A m \in RecentInbox : m \in Msg /\ arrived[m] # 0
        BY DEF RecentInbox, Inbox
      <4>3. todo'[p] = FirstOnes("list", RecentInbox) \ Known
        BY <3>2 DEF ListRecent, Discovered
      <4> QED
        BY <4>1, <4>2, <4>3 DEF Known
    <3> QED
      BY <1>2, <3>1, <3>2
  <2>2. pc'[p] = "process" /\ UNCHANGED <<scans, arrived>>
    BY <1>2 DEF ListHistory, ListRecent, Discovered, GoTo, mailbox, records
  <2> QED
    BY <2>1, <2>2
<1>3. ASSUME NEW m \in Msg, NEW v \in Verdict, Classify(p, m, v)
      PROVE  UnstoredBatch(p)'
  BY <1>0, <1>3 DEF Classify, IsNext, GoTo, mailbox, records, batch
<1>4. ASSUME NEW m \in Msg, RetrieveFails(p, m) \/ ClassifyFails(p, m)
      PROVE  UnstoredBatch(p)'
  <2>1. /\ todo' = [todo EXCEPT ![p] = todo[p] \ {m}]
        /\ UNCHANGED <<arrived, scans, pc, current>> /\ pc[p] = "process"
    BY <1>4 DEF RetrieveFails, ClassifyFails, ProcessRaises, Drop, mailbox, inHand
  <2> QED
    BY <1>0, <2>1
<1>5. CASE Act(p)
  <2> DEFINE action == ActionFor(draft[p].classification)
  <2>1. /\ pc[p] = "act" /\ pc'[p] = "store" /\ current[p] \in todo[p]
        /\ UNCHANGED <<arrived, scans, todo, current>>
        /\ labels'[current[p]] = Relabelled(labels[current[p]], action)
        /\ draft'[p].mailbox_action = action
    BY <1>0, <1>5 DEF Act, GoTo, records, batch, PassRow, Row
  <2>2. action \in MailboxAction \ {"none"}
    BY ActionType, DraftIsRow DEF Row
  <2>3. action = "quarantined" => /\ "Quarantine" \in Relabelled(labels[current[p]], action)
                                  /\ "INBOX" \notin Relabelled(labels[current[p]], action)
    BY DEF Relabelled
  <2> HIDE DEF action
  <2>4. Truthful(draft'[p], labels'[current[p]])
    BY <2>1, <2>2, <2>3 DEF Truthful
  <2> QED
    BY <1>0, <2>1, <2>4
<1>6. CASE ActFails(p)
  <2>1. /\ pc'[p] = "store" /\ current[p] \in todo[p] /\ draft'[p] = FailedRow(draft[p])
        /\ UNCHANGED <<arrived, scans, todo, current>>
    BY <1>0, <1>6 DEF ActFails, GoTo, records, batch
  <2>2. Truthful(draft'[p], labels'[current[p]])
    BY <2>1, FailedRowColumns, DraftIsRow DEF Truthful
  <2> QED
    BY <1>0, <2>1, <2>2
<1>7. CASE Store(p) \/ StoreIdClash(p)
  <2>1. /\ pc'[p] = "process" /\ todo'[p] = todo[p] \ {current[p]}
        /\ UNCHANGED arrived
    BY <1>7 DEF Store, StoreIdClash, Stored, Drop, GoTo, mailbox
  <2>2. \A m \in Msg \ {current[p]} : scans'[m] = scans[m]
    BY <1>7 DEF Store, StoreIdClash, Insert, records
  <2> QED
    BY <1>0, <2>1, <2>2
<1>8. CASE StoreBreaks(p) \/ Release(p)
  BY <1>8 DEF StoreBreaks, Release, ForgetPass, GoTo
<1>9. CASE Advance(p)
  BY <1>0, <1>9 DEF Advance, GoTo, mailbox, records, batch, inHand
<1> QED
  BY <1>1, <1>2, <1>3, <1>4, <1>5, <1>6, <1>7, <1>8, <1>9 DEF PassStep, Handle

\* What the steps of a pass leave of the locals of the others.
LEMMA OtherPasses ==
  ASSUME PassTypeOK, NEW p \in Proc, PassStep(p) \/ Begin(p) \/ Crash(p),
         NEW q \in Proc \ {p}
  PROVE  pc'[q] = pc[q] /\ todo'[q] = todo[q] /\ current'[q] = current[q]
         /\ draft'[q] = draft[q]
<1> USE DEF PassTypeOK, GoTo, batch, inHand
<1>1. CASE \/ Connect(p) \/ ConnectFails(p) \/ ConnectRefused(p) \/ DiscoverFails(p)
           \/ ListHistory(p) \/ ListRecent(p)
  BY <1>1 DEF Connect, ConnectFails, ConnectRefused, DiscoverFails, ListHistory, ListRecent,
              Discovered
<1>2. ASSUME NEW m \in Msg,
             (\E v \in Verdict : Classify(p, m, v)) \/ RetrieveFails(p, m)
             \/ ClassifyFails(p, m) \/ ProcessRaises(p, m)
      PROVE  pc'[q] = pc[q] /\ todo'[q] = todo[q] /\ current'[q] = current[q]
             /\ draft'[q] = draft[q]
  BY <1>2 DEF Classify, RetrieveFails, ClassifyFails, ProcessRaises, Drop
<1>3. CASE Act(p) \/ ActFails(p) \/ Advance(p)
  BY <1>3 DEF Act, ActFails, Advance
<1>4. CASE Store(p) \/ StoreIdClash(p)
  BY <1>4 DEF Store, StoreIdClash, Stored, Drop
<1>5. CASE StoreBreaks(p) \/ Release(p) \/ Crash(p)
  BY <1>5 DEF StoreBreaks, Release, Crash, ForgetPass
<1>6. CASE Begin(p)
  BY <1>6 DEF Begin
<1> QED
  BY <1>1, <1>2, <1>3, <1>4, <1>5, <1>6 DEF PassStep, Handle

LEMMA BatchPass ==
  ASSUME PassTypeOK, LockHeld, BatchInv, StoredInv, [Next]_vars
  PROVE  BatchInv'
<1> SUFFICES ASSUME NEW q \in Proc PROVE UnstoredBatch(q)'
  BY DEF BatchInv
<1>0. UnstoredBatch(q) /\ \A m \in Msg : arrived[m] # 0 => arrived'[m] # 0
  BY ArrivedStays DEF BatchInv
<1>1. ASSUME NEW p \in Proc, PassStep(p)
      PROVE  UnstoredBatch(q)'
  <2>1. CASE q = p
    BY <1>0, <1>1, <2>1, BatchOwn
  <2>2. CASE q # p
    <3>1. pc[p] # "idle"
      BY <1>1 DEF PassStep, Connect, ConnectFails, ConnectRefused, ListHistory, ListRecent, Discovered, DiscoverFails,
         Handle, Classify, RetrieveFails, ClassifyFails, ProcessRaises, Act, ActFails, Store,
         StoreIdClash, StoreBreaks, Advance, Release
    <3>2. pc[q] = "idle"
      BY <2>2, <3>1, OneAtATime DEF OnePassAtATime
    <3>3. pc'[q] = "idle" /\ todo'[q] = {}
      BY <1>0, <1>1, <2>2, <3>2, OtherPasses DEF UnstoredBatch
    <3> QED
      BY <3>3 DEF UnstoredBatch
  <2> QED
    BY <2>1, <2>2
<1>2. ASSUME NEW p \in Proc, Begin(p)
      PROVE  UnstoredBatch(q)'
  <2>1. UNCHANGED <<arrived, labels, scans, todo, current, draft>>
    BY <1>2 DEF Begin, mailbox, records, batch, inHand
  <2>2. CASE q = p
    <3>1. pc[p] = "idle" /\ pc'[p] = "connect"
      BY <1>2 DEF Begin, GoTo, PassTypeOK
    <3> QED
      BY <1>0, <2>1, <2>2, <3>1 DEF UnstoredBatch
  <2>3. CASE q # p
    BY <1>0, <1>2, <2>1, <2>3, OtherPasses, BatchStands
  <2> QED
    BY <2>2, <2>3
<1>3. ASSUME NEW p \in Proc, Crash(p)
      PROVE  UnstoredBatch(q)'
  <2>1. UNCHANGED <<arrived, labels, scans>>
    BY <1>3 DEF Crash, mailbox, records
  <2>2. CASE q = p
    BY <1>3, <2>2 DEF Crash, ForgetPass, GoTo, PassTypeOK, UnstoredBatch
  <2>3. CASE q # p
    BY <1>0, <1>3, <2>1, <2>3, OtherPasses, BatchStands
  <2> QED
    BY <2>2, <2>3
<1>4. ASSUME NEW m \in Msg, Arrive(m)
      PROVE  UnstoredBatch(q)'
  <2>1. UNCHANGED <<scans, pc, todo, current, draft>>
    BY <1>4 DEF Arrive, records, batch, inHand
  <2>2. \A n \in Msg : arrived[n] # 0 => labels'[n] = labels[n]
    BY <1>4 DEF Arrive, PassTypeOK
  <2> QED
    BY <1>0, <2>1, <2>2, BatchStands
<1>5. CASE WatchCall \/ WatchStore \/ Reconnect \/ TimePasses \/ UNCHANGED vars
  <2>1. UNCHANGED <<arrived, labels, scans, pc, todo, current, draft>>
    BY <1>5 DEF WatchCall, WatchStore, Reconnect, TimePasses, vars, mailbox, records, batch, inHand
  <2> QED
    BY <1>0, <2>1, BatchStands
<1> QED
  BY <1>1, <1>2, <1>3, <1>4, <1>5 DEF Next, Poll, ScanNow

-----------------------------------------------------------------------------
LEMMA ReviewInitInv == ReviewInit => ReviewInv
<1> SUFFICES ASSUME ReviewInit PROVE ReviewInv
  OBVIOUS
<1>1. PassTypeOK /\ LockHeld
  BY PassTypeInit, LockAssumption, SameLock, LockProofs!LockInvInit
     DEF ReviewInit, Init, LockHeld, PassMeansLock, Lock!Init
<1>2. ReviewTypeOK
  BY BlankRowType, GmailReviewAssumption DEF ReviewInit, ReviewTypeOK, Place
<1>3. \A a \in Admin : RequestShape(a) /\ HoldsRow(a)
  BY DEF ReviewInit, RequestShape, HoldsRow
<1>4. BatchInv
  BY DEF ReviewInit, Init, BatchInv, UnstoredBatch
<1>5. StoredInv /\ OneRequest /\ MailboxTruth /\ LastDecisionWins
  BY DEF ReviewInit, Init, StoredInv, OneRequest, MailboxTruth, LastDecisionWins, AtRest
<1> QED
  BY <1>1, <1>2, <1>3, <1>4, <1>5 DEF ReviewInv, RequestInv, RowInv

\* Requests keep their shape whatever the passes do, and however many there are.
LEMMA RequestNext == RequestInv /\ [ReviewNext]_allVars => RequestInv'
<1> SUFFICES ASSUME RequestInv, [ReviewNext]_allVars PROVE RequestInv'
  OBVIOUS
<1>1. CASE [Next]_vars /\ UNCHANGED reviewVars
  <2>1. PassTypeOK' /\ ReviewTypeOK'
    BY <1>1, PassTypeNext DEF RequestInv, ReviewTypeOK, reviewVars, request
  <2>2. ASSUME NEW a \in Admin
        PROVE  RequestShape(a)'
    <3>1. UNCHANGED <<at, item, decision, seen, mine>> /\ RequestShape(a) /\ PassTypeOK
      BY <1>1 DEF RequestInv, reviewVars, request
    <3>2. ASSUME at[a] # "idle"
          PROVE  scans'[item[a]] # <<>>
      <4>1. item[a] \in Msg /\ scans[item[a]] # <<>>
        BY <3>2, AtWork
      <4>2. ASSUME NEW p \in Proc, scans[current[p]] = <<>>,
                   scans' = [scans EXCEPT ![current[p]] = <<draft[p]>>]
            PROVE  scans'[item[a]] = scans[item[a]]
        BY <3>1, <4>1, <4>2 DEF PassTypeOK
      <4> QED
        BY <1>1, <3>1, <4>1, <4>2, ScansStep
    <3> QED
      BY <3>1, <3>2 DEF RequestShape
  <2> QED
    BY <2>1, <2>2 DEF RequestInv
<1>2. ASSUME NEW a \in Admin, Review(a)
      PROVE  RequestInv'
  BY <1>2, RequestReview
<1> QED
  BY <1>1, <1>2 DEF ReviewNext, allVars

LEMMA ReviewInvNext ==
  ASSUME MaxRun <= StaleAfter, ReviewInv, [ReviewNext]_allVars
  PROVE  ReviewInv'
<1>1. RequestInv'
  BY RequestNext DEF ReviewInv
<1>2. CASE [Next]_vars /\ UNCHANGED reviewVars
  <2>1. PassTypeOK
    BY DEF ReviewInv, RequestInv
  <2>2. LockHeld' /\ BatchInv' /\ RowInv'
    BY <1>2, <2>1, LockPass, BatchPass, RowsPass DEF ReviewInv, RowInv
  <2> QED
    BY <1>1, <2>2 DEF ReviewInv
<1>3. ASSUME NEW a \in Admin, Review(a)
      PROVE  ReviewInv'
  BY <1>1, <1>3, LockReview, BatchReview, RowsReview DEF ReviewInv
<1> QED
  BY <1>2, <1>3 DEF ReviewNext, allVars

\* Types and shapes, and with them which request is where, need no lock.
THEOREM ReviewTypes == ReviewSpec => [](PassTypeOK /\ ReviewTypeOK)
<1>1. ReviewInit => RequestInv
  BY ReviewInitInv DEF ReviewInv
<1>2. RequestInv => PassTypeOK /\ ReviewTypeOK
  BY DEF RequestInv
<1> QED
  BY <1>1, <1>2, RequestNext, PTL DEF ReviewSpec

LEMMA ReviewInvariant ==
  ASSUME MaxRun <= StaleAfter
  PROVE  ReviewSpec => []ReviewInv
BY ReviewInitInv, ReviewInvNext, PTL DEF ReviewSpec

\* Between requests a row tells the truth about the mailbox, unless two
\* requests on the message overlapped or one died, if no pass outlives the
\* stale window: token refreshes that commit half a decision, failed calls,
\* passes and their crashes included.
THEOREM RowsTellTheTruth ==
  ASSUME MaxRun <= StaleAfter
  PROVE  ReviewSpec => []MailboxTruth
<1>1. ReviewInv => MailboxTruth
  BY DEF ReviewInv, RowInv
<1> QED
  BY <1>1, ReviewInvariant, PTL

\* With the same proviso the verdict of a row is that of the last decision.
THEOREM TheLastDecisionWins ==
  ASSUME MaxRun <= StaleAfter
  PROVE  ReviewSpec => []LastDecisionWins
<1>1. ReviewInv => LastDecisionWins
  BY DEF ReviewInv, RowInv
<1> QED
  BY <1>1, ReviewInvariant, PTL

-----------------------------------------------------------------------------
\* A commit writes status only to make it "Delivered".
LEMMA StatusStep ==
  ASSUME RequestInv, [ReviewNext]_allVars, NEW m \in Msg,
         scans[m] # <<>>, scans[m][1].status = "Delivered"
  PROVE  scans'[m][1].status = "Delivered"
<1>0. ReviewTypeOK /\ PassTypeOK /\ scans \in [Msg -> Seq(Row)]
  BY DEF RequestInv, PassTypeOK
<1>1. CASE [Next]_vars
  <2>1. ASSUME NEW p \in Proc, scans[current[p]] = <<>>,
               scans' = [scans EXCEPT ![current[p]] = <<draft[p]>>]
        PROVE  scans'[m] = scans[m]
    BY <1>0, <2>1
  <2> QED
    BY <1>0, <1>1, <2>1, ScansStep
<1>2. ASSUME NEW a \in Admin, Review(a)
      PROVE  scans'[m][1].status = "Delivered"
  <2>1. CASE m # item[a] \/ at[a] = "idle"
    BY <1>2, <2>1, Elsewhere
  <2>2. CASE m = item[a] /\ at[a] # "idle"
    <3>1. CASE Write(a)
      <4>1. /\ scans[m][1] \in Row /\ seen[a] \in Row /\ mine[a] \in Row
            /\ scans'[m][1] = Updated(scans[m][1], seen[a], mine[a])
        BY <2>2, <3>1, AtWork, WriteRow
      <4>2. mine[a].status \in {seen[a].status, "Delivered"}
        BY <2>2 DEF RequestInv, RequestShape
      <4> QED
        BY <4>1, <4>2, UpdatedRow
    <3>3. CASE Put(a, FailedRow(scans[item[a]][1]))
      <4>1. scans[m][1] \in Row /\ scans'[m][1] = FailedRow(scans[m][1])
        BY <2>2, <3>3, AtWork, PutFailed
      <4> QED
        BY <4>1, FailedRowColumns
    <3>2. CASE UNCHANGED scans
      BY <3>2
    <3> QED
      BY <1>0, <1>2, <3>1, <3>2, <3>3, ReviewSteps, OpenColumns, RefreshColumns, ReloadColumns,
         CallColumns, EndColumns
  <2> QED
    BY <2>1, <2>2
<1> QED
  BY <1>1, <1>2 DEF ReviewNext, allVars

\* A release is final for the status of a row, however requests overlap, die
\* or refresh a token half way, and whether or not the lock keeps passes apart.
THEOREM ReleasesAreFinal == ReviewSpec => ReleaseIsFinal
<1>1. ReviewInit => RequestInv
  BY ReviewInitInv DEF ReviewInv
<1>2. RequestInv /\ [ReviewNext]_allVars
        => [\A m \in Msg :
              scans[m] # <<>> /\ scans[m][1].status = "Delivered" =>
                  scans'[m][1].status = "Delivered"]_scans
  BY StatusStep
<1> QED
  BY <1>1, <1>2, RequestNext, PTL DEF ReviewSpec, ReleaseIsFinal

-----------------------------------------------------------------------------
(***************************************************************************)
(* What is shown above of the passes alone, with administrators at         *)
(* work: requests move and rewrite mail that has a row, and nothing else.  *)
(***************************************************************************)
LEMMA AccountsReview ==
  ASSUME RequestInv, BaselineInv, DiscoveryInv, NEW a \in Admin, Review(a)
  PROVE  (BaselineInv /\ DiscoveryInv)'
<1>0. PassTypeOK
  BY DEF RequestInv
<1>1. /\ UNCHANGED <<arrived, newest, last_history_id, audit, watch_id>>
      /\ UNCHANGED pc /\ UNCHANGED <<base, upto, via, todo, left_out>> /\ UNCHANGED <<current, draft>>
      /\ UNCHANGED <<skipped, jumped>>
  BY OthersKeep DEF Untouched, RequestInv, batch, inHand, passedOver
<1>2. \A m \in Msg : /\ scans'[m] = <<>> <=> scans[m] = <<>>
                     /\ scans[m] = <<>> => labels'[m] = labels[m]
  BY LabelsType
<1>3. \A m \in Msg : Handled(m)' <=> Handled(m)
  BY <1>1, <1>2 DEF Handled
<1>5. \A m \in Msg : Settled(m)' <=> Settled(m)
  BY <1>1, <1>3 DEF Settled
<1>6. \A p \in Proc : BatchCovers(p)'
  BY <1>1, <1>5 DEF BaselineInv, BatchCovers
<1>7. BaselineInv'
  BY <1>1, <1>5, <1>6 DEF BaselineInv
<1>8. HistoryRead => HistoryRead'
  BY <1>1 DEF HistoryRead
<1>10. LeftInbox => LeftInbox'
  <2> SUFFICES ASSUME LeftInbox, NEW m \in Msg, arrived[m] # 0, "INBOX" \notin labels'[m]
               PROVE  Settled(m)' \/ \E p \in Proc : pc[p] = "store" /\ current[p] = m
    BY <1>1 DEF LeftInbox
  <2>1. CASE scans[m] = <<>>
    BY <1>2, <1>5, <2>1 DEF LeftInbox
  <2>2. CASE scans[m] # <<>>
    BY <1>5, <2>2 DEF Handled, Settled
  <2> QED
    BY <2>1, <2>2
<1> QED
  BY <1>7, <1>8, <1>10 DEF DiscoveryInv

\* No mail is forgotten while administrators move and rewrite what has been
\* found: whatever the baseline has passed is stored, audited, cut off or
\* jumped over, under the premises of MailIsAccountedFor.
THEOREM MailStaysAccountedFor ==
  ASSUME Undisturbed
  PROVE  ReviewSpec => []AccountedFor
<1> DEFINE Inv == RequestInv /\ BaselineInv /\ DiscoveryInv
<1>1. ReviewInit => Inv /\ LockHeld
  BY ReviewInitInv, BaselineInit DEF ReviewInv, ReviewInit
<1>2. ASSUME Inv, NothingDies => OnePassAtATime, [ReviewNext]_allVars
      PROVE  Inv'
  <2>1. RequestInv'
    BY <1>2, RequestNext
  <2>2. CASE [Next]_vars
    BY <1>2, <2>1, <2>2, BaselineNext, DiscoveryNext DEF RequestInv
  <2>3. ASSUME NEW a \in Admin, Review(a)
        PROVE  Inv'
    BY <1>2, <2>1, <2>3, AccountsReview
  <2> QED
    BY <1>2, <2>2, <2>3 DEF ReviewNext, allVars
<1>3. ASSUME NothingDies, RequestInv, LockHeld, [ReviewNext]_allVars
      PROVE  LockHeld'
  BY <1>3, LockPass, LockReview DEF ReviewNext, allVars, RequestInv, NothingDies
<1>4. Inv => AccountedFor
  BY DEF BaselineInv, AccountedFor, Settled
<1>5. CASE NothingDies
  <2>1. Inv /\ LockHeld /\ [ReviewNext]_allVars => (Inv /\ LockHeld)'
    BY <1>2, <1>3, <1>5, OneAtATime
  <2> QED
    BY <1>1, <1>4, <2>1, PTL DEF ReviewSpec
<1>6. CASE ~NothingDies
  <2>1. Inv /\ [ReviewNext]_allVars => Inv'
    BY <1>2, <1>6
  <2> QED
    BY <1>1, <1>4, <2>1, PTL DEF ReviewSpec
<1> QED
  BY <1>5, <1>6

=============================================================================
