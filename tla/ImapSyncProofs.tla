--------------------------- MODULE ImapSyncProofs ---------------------------
(***************************************************************************)
(* What ImapSync guarantees for any number of processes, messages,         *)
(* administrators and failures, and without the lock: passes may overlap.  *)
(*                                                                         *)
(* A pass acts on what it fetched, by a UID that may no longer be the      *)
(* message's, and stores what it believes it did.  So the invariant is     *)
(* about what has become of a message under the UID a pass still has for   *)
(* it (Accounted): if it is not there any more, its owner deleted it, or   *)
(* its row is stored, or a pass is about to store it (Claims), so that the *)
(* unique index stops the second row.  A release is judged by the row it   *)
(* is about to commit (Completing).                                        *)
(***************************************************************************)
EXTENDS ImapSync, SequenceTheorems, TLAPS

-----------------------------------------------------------------------------
\* The inductive invariant.

\* p holds a row that says it hid m, under the UID u.
Claims(p, m, u) ==
    /\ pc[p] = "store"
    /\ draft[p].msg = m /\ draft[p].uid = u
    /\ draft[p].mailbox_action = "quarantined"

\* p is still going to act on m under u.
Pending(p, m, u) ==
    \/ [msg |-> m, uid |-> u] \in todo[p]
    \/ pc[p] = "act" /\ draft[p].msg = m /\ draft[p].uid = u

\* The commit of a that is due makes row i that of a message given back.
Completing(a, i) ==
    at[a] = "commit" /\ row_id[a] = i /\ mailbox_action[a] = "none"

\* What a pass holds at each place.
PassShape(p) ==
    /\ pc[p] \in {"act", "store"} =>
         draft[p] \in Row /\ draft[p].msg \in arrived /\ draft[p].uid \in 1..uid_next
    /\ pc[p] \notin {"act", "store"} => draft[p] = NoRow
    /\ pc[p] = "act" => draft[p].mailbox_action = "none"
    /\ pc[p] = "store" /\ draft[p].mailbox_action = "quarantined" =>
         draft[p].status = "Quarantined"
    /\ \A mail \in todo[p] : mail.msg \in arrived

FolderInv ==
    /\ \A m \in Msg : uid[m] # 0 => m \in arrived
    /\ held \subseteq arrived
    /\ \A m \in held \ torn : uid[m] = 0
    /\ \A i \in DOMAIN scans : scans[i].msg \in arrived /\ scans[i].uid \in 1..uid_next
    /\ \A a \in Admin : at[a] # "idle" => row_id[a] \in DOMAIN scans

Accounted(m, u) ==
    uid[m] = u \/ Gone(m) \/ HasRow(u) \/ \E q \in Proc : Claims(q, m, u)

PendingInv ==
    \A p \in Proc, m \in Msg \ torn, u \in Nat \ {0} :
        Pending(p, m, u) => Accounted(m, u)

ClaimInv ==
    \A p \in Proc, m \in Msg \ torn, u \in Nat \ {0} :
        Claims(p, m, u) => m \in held \/ Gone(m) \/ HasRow(u)

RecordInv ==
    \A i \in DOMAIN scans : scans[i].mailbox_action = "quarantined" =>
        \/ scans[i].msg \in held \/ Gone(scans[i].msg) \/ scans[i].msg \in torn
        \/ \E a \in Admin : Completing(a, i)

\* Row i keeps m from being forgotten.
Records(i, m) ==
    /\ scans[i].msg = m /\ scans[i].mailbox_action = "quarantined"
    /\ \A a \in Admin : ~Completing(a, i)

HiddenInv ==
    \A m \in held \ torn :
        \/ \E i \in DOMAIN scans : Records(i, m)
        \/ \E p \in Proc : Claims(p, m, draft[p].uid)

ShapeInv == TypeOK /\ (\A p \in Proc : PassShape(p)) /\ FolderInv

ImapInv == ShapeInv /\ PendingInv /\ ClaimInv /\ RecordInv /\ HiddenInv

-----------------------------------------------------------------------------
\* The lock of SyncLock, for its types.
LockProofs == INSTANCE SyncLockProofs

LEMMA LockAssumption == LockProofs!LockConstants
BY ImapSyncAssumption DEF LockProofs!LockConstants

\* The two instances of SyncLock, the component's and the proofs', agree.
LEMMA SameLock ==
  /\ Lock!Init <=> LockProofs!Init
  /\ [Lock!Next]_(Lock!vars) <=> [LockProofs!Next]_(LockProofs!vars)
  /\ Lock!TypeOK <=> LockProofs!TypeOK
<1>1. Lock!Next <=> LockProofs!Next
  BY DEF Lock!Next, Lock!Acquire, Lock!Available, Lock!Release, Lock!Abandon,
         Lock!Tick, LockProofs!Next, LockProofs!Acquire, LockProofs!Available,
         LockProofs!Release, LockProofs!Abandon, LockProofs!Tick
<1>2. (UNCHANGED Lock!vars) <=> (UNCHANGED LockProofs!vars)
  BY DEF Lock!vars, LockProofs!vars
<1>3. Lock!Init <=> LockProofs!Init
  BY DEF Lock!Init, LockProofs!Init
<1>4. Lock!TypeOK <=> LockProofs!TypeOK
  BY DEF Lock!TypeOK, LockProofs!TypeOK
<1> QED
  BY <1>1, <1>2, <1>3, <1>4

LEMMA LockStep == [Next]_vars => [Lock!Next]_(Lock!vars)
<1> SUFFICES ASSUME [Next]_vars
             PROVE  Lock!Next \/ UNCHANGED lock
  BY DEF Lock!vars, lock
<1>1. ASSUME NEW m \in Msg, Arrive(m) \/ UserDeletes(m)
      PROVE  UNCHANGED lock
  BY <1>1 DEF Arrive, UserDeletes
<1>2. ASSUME NEW p \in Proc, Begin(p)
      PROVE  Lock!Acquire(p)
  BY <1>2 DEF Begin
<1>3. ASSUME NEW p \in Proc, PassStep(p)
      PROVE  UNCHANGED lock \/ Lock!Release(p) \/ Lock!Abandon(p)
  BY <1>3 DEF PassStep, ReadKnown, Fetch, FetchFails, Handle, Classify, ClassifyFails,
              Act, ActFails, Store, StoreDuplicate, StoreBreaks, Release
<1>4. ASSUME NEW p \in Proc, Crash(p)
      PROVE  Lock!Abandon(p)
  BY <1>4 DEF Crash
<1>5. ASSUME NEW a \in Admin, AdminStep(a)
      PROVE  UNCHANGED lock
  BY <1>5 DEF AdminStep, ReleaseScan, MoveBack, MoveBackFails, CommitRelease, ReleaseDies
<1>6. CASE TimePasses \/ UNCHANGED vars
  BY <1>6 DEF TimePasses, Lock!Next, vars
<1> QED
  BY <1>1, <1>2, <1>3, <1>4, <1>5, <1>6 DEF Next, Lock!Next

\* Every behaviour of the IMAP passes is a behaviour of the lock they share
\* with the Gmail passes.
THEOREM PassesUseTheLock == Spec => Lock!Spec
<1>1. Init => Lock!Init
  BY DEF Init
<1> QED
  BY <1>1, LockStep, PTL DEF Spec, Lock!Spec

-----------------------------------------------------------------------------
\* Rows.

LEMMA NewRowType ==
  ASSUME NEW m \in Msg, NEW u \in Nat, NEW mail, mail.msg = m, mail.uid = u,
         NEW s \in Status
  PROVE  /\ NewRow(mail, s) \in Row
         /\ NewRow(mail, s).msg = m /\ NewRow(mail, s).uid = u
         /\ NewRow(mail, s).status = s /\ NewRow(mail, s).mailbox_action = "none"
BY DEF NewRow, Row, MailboxAction

LEMMA NoRowIsNone == NoRow \notin Row
<1>1. \A row \in Row : row.status # "none"
  BY DEF Row, Status
<1>2. NoRow.status = "none"
  BY DEF NoRow
<1> QED
  BY <1>1, <1>2

LEMMA FailedType ==
  ASSUME NEW row \in Row
  PROVE  /\ Failed(row) \in Row
         /\ Failed(row).msg = row.msg /\ Failed(row).uid = row.uid
         /\ Failed(row).status = row.status
         /\ Failed(row).mailbox_action = row.mailbox_action
BY DEF Failed, Row

\* A release never makes a row one of a quarantined message, and leaves it so
\* unless it has moved the message back.
LEMMA ReleasedColumns ==
  ASSUME NEW row \in Row, NEW action, NEW new, new = ReleasedRow(row, action)
  PROVE  /\ new \in Row /\ new.msg = row.msg /\ new.uid = row.uid
         /\ new.mailbox_action = "quarantined" => row.mailbox_action = "quarantined"
         /\ action = "none" => new.mailbox_action # "quarantined"
         /\ action # "none" => new.mailbox_action = row.mailbox_action
<1>1. CASE action = "none" /\ row.mailbox_action = "quarantined"
  <2>1. new = [row EXCEPT !.status = "Delivered", !.mailbox_action = "none",
                          !.mailbox_action_error = ""]
    BY <1>1 DEF ReleasedRow
  <2> QED
    BY <1>1, <2>1 DEF Row, Status, MailboxAction
<1>2. CASE action = "failed"
  <2>1. new = [row EXCEPT !.status = "Delivered", !.mailbox_action_error = "MailboxError"]
    BY <1>2 DEF ReleasedRow
  <2> QED
    BY <1>2, <2>1 DEF Row, Status, MailboxAction
<1>3. CASE action # "failed" /\ ~(action = "none" /\ row.mailbox_action = "quarantined")
  <2>1. new = [row EXCEPT !.status = "Delivered"]
    BY <1>3 DEF ReleasedRow
  <2> QED
    BY <1>3, <2>1 DEF Row, Status, MailboxAction
<1> QED
  BY <1>1, <1>2, <1>3

-----------------------------------------------------------------------------
\* Types.

\* The types that mention the UIDs given so far.
UidTypes ==
    /\ uid_next \in Nat /\ uid \in [Msg -> 0..uid_next]
    /\ known_uids \in [Proc -> SUBSET (1..uid_next)]
    /\ todo \in [Proc -> SUBSET [msg: Msg, uid: 1..uid_next]]

\* A new UID leaves room for the old ones.
LEMMA IntoInboxType ==
  ASSUME UidTypes, NEW m \in Msg, IntoInbox(m), UNCHANGED <<known_uids, todo>>
  PROVE  UidTypes' /\ uid_next' = uid_next + 1
<1>1. uid_next' \in Nat /\ uid_next' = uid_next + 1 /\ uid_next + 1 \in 0..uid_next'
  BY DEF UidTypes, IntoInbox
<1>2. 0..uid_next \subseteq 0..uid_next' /\ 1..uid_next \subseteq 1..uid_next'
  BY <1>1 DEF UidTypes
<1>3. uid' = [uid EXCEPT ![m] = uid_next + 1]
  BY DEF IntoInbox
<1>4. uid' \in [Msg -> 0..uid_next']
  BY <1>1, <1>2, <1>3 DEF UidTypes
<1>5. [msg: Msg, uid: 1..uid_next] \subseteq [msg: Msg, uid: 1..uid_next']
  BY <1>2
<1> QED
  BY <1>1, <1>2, <1>4, <1>5 DEF UidTypes

LEMMA MailTypes ==
  TypeOK <=>
    /\ arrived \subseteq Msg /\ held \subseteq Msg /\ torn \subseteq Msg
    /\ UidTypes
    /\ scans \in Seq(Row) /\ Lock!TypeOK
    /\ pc \in [Proc -> Step] /\ draft \in [Proc -> Row \cup {NoRow}]
    /\ at \in [Admin -> {"idle", "move", "commit"}]
    /\ row_id \in [Admin -> 0..Len(scans)]
    /\ mailbox_action \in [Admin -> MailboxAction \cup {"failed"}]
    /\ faults_left \in 0..MaxFaults /\ releases_left \in 0..MaxReleases
BY DEF TypeOK, UidTypes

LEMMA FaultType ==
  ASSUME NEW f, Fault(f), faults_left \in 0..MaxFaults
  PROVE  faults_left' \in 0..MaxFaults
BY ImapSyncAssumption DEF Fault

LEMMA LockTypeNext == ASSUME TypeOK, [Next]_vars PROVE Lock!TypeOK'
<1>1. LockProofs!TypeOK'
  BY LockAssumption, LockStep, SameLock, LockProofs!TypeCorrectNext DEF TypeOK
<1> QED
  BY <1>1 DEF Lock!TypeOK, LockProofs!TypeOK

\* A pass that ends forgets what it held.
LEMMA ForgetType ==
  ASSUME TypeOK, NEW p \in Proc, ForgetPass(p), UNCHANGED <<uid, uid_next>>
  PROVE  /\ UidTypes' /\ pc' \in [Proc -> Step] /\ draft' \in [Proc -> Row \cup {NoRow}]
BY DEF ForgetPass, GoTo, TypeOK, UidTypes, Step

LEMMA LoseRowType ==
  ASSUME ShapeInv, NEW p \in Proc, LoseRow(p)
  PROVE  torn' \subseteq Msg /\ torn \subseteq torn'
BY DEF LoseRow, ShapeInv, PassShape, TypeOK, Row

LEMMA MoveType ==
  ASSUME UidTypes, held \subseteq Msg, NEW mail, mail.msg \in Msg
  PROVE  /\ Deleted(mail) => uid' \in [Msg -> 0..uid_next]
         /\ Copied(mail) => held' \subseteq Msg
<1>1. 0 \in 0..uid_next
  BY DEF UidTypes
<1> QED
  BY <1>1 DEF UidTypes, Deleted, Copied

LEMMA TypeMail ==
  ASSUME ShapeInv, [Next]_vars, NEW m \in Msg, Arrive(m) \/ UserDeletes(m)
  PROVE  TypeOK'
<1>1. TypeOK /\ UidTypes
  BY MailTypes DEF ShapeInv
<1>2. Lock!TypeOK'
  BY <1>1, LockTypeNext
<1>3. CASE Arrive(m)
  <2>1. UidTypes'
    BY <1>1, <1>3, IntoInboxType DEF Arrive, pass
  <2> QED
    BY <1>1, <1>2, <1>3, <2>1 DEF Arrive, TypeOK, UidTypes, pass, release
<1>4. CASE UserDeletes(m)
  <2>1. UidTypes' /\ faults_left' \in 0..MaxFaults
    <3>1. faults_left' \in 0..MaxFaults
      BY <1>1, <1>4, FaultType DEF UserDeletes, TypeOK
    <3> QED
      BY <1>1, <1>4, <3>1 DEF UserDeletes, UidTypes, pass
  <2> QED
    BY <1>1, <1>2, <1>4, <2>1 DEF UserDeletes, TypeOK, UidTypes, pass, release
<1> QED
  BY <1>3, <1>4

LEMMA TypePass ==
  ASSUME ShapeInv, [Next]_vars, NEW p \in Proc, PassStep(p)
  PROVE  TypeOK'
<1>1. TypeOK /\ UidTypes /\ PassShape(p) /\ FolderInv
  BY MailTypes DEF ShapeInv
<1>2. Lock!TypeOK'
  BY <1>1, LockTypeNext
<1>3. CASE ReadKnown(p)
  <2>1. {scans[i].uid : i \in DOMAIN scans} \subseteq 1..uid_next
    BY <1>1 DEF FolderInv
  <2> QED
    BY <1>1, <1>2, <1>3, <2>1
    DEF ReadKnown, GoTo, Step, TypeOK, mailbox, release
<1>4. CASE Fetch(p)
  <2>1. Fetched(p) \subseteq [msg: Msg, uid: 1..uid_next]
    BY <1>1 DEF Fetched, Newest, Inbox, UidTypes
  <2> QED
    BY <1>1, <1>2, <1>4, <2>1 DEF Fetch, GoTo, Step, TypeOK, mailbox, release
<1>5. CASE FetchFails(p)
  <2>1. faults_left' \in 0..MaxFaults
    BY <1>1, <1>5, FaultType DEF FetchFails, TypeOK
  <2> QED
    BY <1>1, <1>2, <1>5, <2>1 DEF FetchFails, GoTo, Step, TypeOK, mailbox, release
<1>6. ASSUME NEW mail \in todo[p], NEW s \in Status, Classify(p, mail, s)
      PROVE  TypeOK'
  <2>1. NewRow(mail, s) \in Row
    BY <1>1, NewRowType DEF TypeOK
  <2> QED
    BY <1>1, <1>2, <1>6, <2>1 DEF Classify, Drop, GoTo, Step, TypeOK, mailbox, release
<1>7. ASSUME NEW mail \in todo[p], ClassifyFails(p, mail)
      PROVE  TypeOK'
  <2>1. faults_left' \in 0..MaxFaults
    BY <1>1, <1>7, FaultType DEF ClassifyFails, TypeOK
  <2> QED
    BY <1>1, <1>2, <1>7, <2>1 DEF ClassifyFails, Drop, TypeOK, mailbox, release
<1>8. CASE Act(p)
  <2>1. /\ draft[p] \in Row /\ draft[p].msg \in Msg
        /\ \A x \in MailboxAction : [draft[p] EXCEPT !.mailbox_action = x] \in Row
    BY <1>1, <1>8 DEF Act, PassShape, Row
  <2>2. draft' \in [Proc -> Row \cup {NoRow}]
    <3>1. PICK x \in MailboxAction :
             draft' = [draft EXCEPT ![p] = [draft[p] EXCEPT !.mailbox_action = x]]
      BY <1>8 DEF Act, MailboxAction
    <3>2. PICK row \in Row : draft' = [draft EXCEPT ![p] = row]
      BY <2>1, <3>1
    <3> QED
      BY <1>1, <3>2 DEF TypeOK
  <2>3. uid' \in [Msg -> 0..uid_next] /\ held' \subseteq Msg
    BY <1>1, <1>8, <2>1, MoveType DEF Act, TypeOK
  <2> QED
    BY <1>1, <1>2, <1>8, <2>2, <2>3 DEF Act, GoTo, Step, TypeOK, release
<1>9. CASE ActFails(p)
  <2>1. draft[p] \in Row /\ draft[p].msg \in Msg
    BY <1>1, <1>9 DEF ActFails, PassShape, Row
  <2>2. draft' \in [Proc -> Row \cup {NoRow}]
    <3>1. PICK row \in Row : draft' = [draft EXCEPT ![p] = row]
      BY <1>9, <2>1, FailedType DEF ActFails
    <3> QED
      BY <1>1, <3>1 DEF TypeOK
  <2>3. uid' \in [Msg -> 0..uid_next] /\ held' \subseteq Msg /\ torn' \subseteq Msg
    BY <1>1, <1>9, <2>1, MoveType DEF ActFails, TypeOK
  <2>4. faults_left' \in 0..MaxFaults
    BY <1>1, <1>9, FaultType DEF ActFails, TypeOK
  <2> QED
    BY <1>1, <1>2, <1>9, <2>2, <2>3, <2>4 DEF ActFails, GoTo, Step, TypeOK, release
<1>10. CASE Store(p)
  <2>1. draft[p] \in Row
    BY <1>1, <1>10 DEF Store, PassShape
  <2>2. scans' \in Seq(Row) /\ Len(scans') = Len(scans) + 1 /\ Len(scans) \in Nat
    BY <1>1, <1>10, <2>1, AppendProperties, LenProperties DEF Store, TypeOK
  <2>3. row_id' \in [Admin -> 0..Len(scans')]
    <3>1. 0..Len(scans) \subseteq 0..Len(scans')
      BY <2>2
    <3> QED
      BY <1>1, <1>10, <3>1 DEF Store, TypeOK, release
  <2> QED
    BY <1>1, <1>2, <1>10, <2>2, <2>3 DEF Store, Stored, GoTo, Step, TypeOK, mailbox, release
<1>11. CASE StoreDuplicate(p)
  <2>1. faults_left' \in 0..MaxFaults
    BY <1>1, <1>11, FaultType DEF StoreDuplicate, NoFault, TypeOK
  <2>2. torn' \subseteq Msg
    BY <1>11, LoseRowType DEF StoreDuplicate
  <2> QED
    BY <1>1, <1>2, <1>11, <2>1, <2>2 DEF StoreDuplicate, Stored, GoTo, Step, TypeOK, mailbox,
       release
<1>12. CASE StoreBreaks(p)
  <2>1. faults_left' \in 0..MaxFaults
    BY <1>1, <1>12, FaultType DEF StoreBreaks, TypeOK
  <2>2. torn' \subseteq Msg
    BY <1>12, LoseRowType DEF StoreBreaks
  <2>3. UidTypes' /\ pc' \in [Proc -> Step] /\ draft' \in [Proc -> Row \cup {NoRow}]
    BY <1>1, <1>12, ForgetType DEF StoreBreaks, mailbox
  <2> QED
    BY <1>1, <1>2, <1>12, <2>1, <2>2, <2>3 DEF StoreBreaks, TypeOK, UidTypes, mailbox, release
<1>13. CASE Release(p)
  <2>1. UidTypes' /\ pc' \in [Proc -> Step] /\ draft' \in [Proc -> Row \cup {NoRow}]
    BY <1>1, <1>13, ForgetType DEF Release, mailbox
  <2> QED
    BY <1>1, <1>2, <1>13, <2>1 DEF Release, TypeOK, UidTypes, mailbox, release
<1> QED
  BY <1>3, <1>4, <1>5, <1>6, <1>7, <1>8, <1>9, <1>10, <1>11, <1>12, <1>13
  DEF PassStep, Handle

LEMMA TypeBeginCrash ==
  ASSUME ShapeInv, [Next]_vars, NEW p \in Proc, Begin(p) \/ Crash(p)
  PROVE  TypeOK'
<1>1. TypeOK
  BY DEF ShapeInv
<1>2. Lock!TypeOK'
  BY <1>1, LockTypeNext
<1>3. CASE Begin(p)
  BY <1>1, <1>2, <1>3 DEF Begin, GoTo, Step, TypeOK, mailbox, release
<1>4. CASE Crash(p)
  <2>1. faults_left' \in 0..MaxFaults
    BY <1>1, <1>4, FaultType DEF Crash, TypeOK
  <2>2. torn' \subseteq Msg
    BY <1>4, LoseRowType DEF Crash
  <2>3. UidTypes' /\ pc' \in [Proc -> Step] /\ draft' \in [Proc -> Row \cup {NoRow}]
    BY <1>1, <1>4, ForgetType DEF Crash, mailbox
  <2> QED
    BY <1>1, <1>2, <1>4, <2>1, <2>2, <2>3 DEF Crash, TypeOK, UidTypes, mailbox, release
<1> QED
  BY <1>3, <1>4

LEMMA TypeAdmin ==
  ASSUME ShapeInv, [Next]_vars, NEW a \in Admin, AdminStep(a)
  PROVE  TypeOK'
<1>1. TypeOK /\ UidTypes /\ FolderInv
  BY MailTypes DEF ShapeInv
<1>2. Lock!TypeOK'
  BY <1>1, LockTypeNext
<1>3. /\ Len(scans) \in Nat /\ DOMAIN scans = 1..Len(scans)
      /\ \A i \in DOMAIN scans : scans[i] \in Row /\ i \in 0..Len(scans)
      /\ 0 \in 0..Len(scans)
  <2>1. /\ Len(scans) \in Nat /\ DOMAIN scans = 1..Len(scans)
        /\ scans \in [1..Len(scans) -> Row]
    BY <1>1, LenProperties DEF TypeOK
  <2> QED
    BY <2>1
<1>4. ASSUME NEW i \in DOMAIN scans, ReleaseScan(a, i)
      PROVE  TypeOK'
  <2>1. scans[i].mailbox_action \in MailboxAction
    BY <1>3 DEF Row
  <2>2. releases_left' \in 0..MaxReleases
    BY <1>1, <1>4, ImapSyncAssumption DEF ReleaseScan, TypeOK
  <2>3. at' \in [Admin -> {"idle", "move", "commit"}]
    BY <1>1, <1>4 DEF ReleaseScan, AdminGoes, TypeOK
  <2> QED
    BY <1>1, <1>2, <1>3, <1>4, <2>1, <2>2, <2>3 DEF ReleaseScan, TypeOK, mailbox, pass
<1>5. at[a] # "idle" => Released(a) \in Msg
  BY <1>1, <1>3 DEF FolderInv, Released, Row
<1>6. ASSUME NEW m \in Msg, MoveBack(a, m)
      PROVE  TypeOK'
  <2>1. UidTypes'
    BY <1>1, <1>6, IntoInboxType DEF MoveBack, pass
  <2>2. torn' \subseteq Msg
    BY <1>1, <1>5, <1>6 DEF MoveBack, TypeOK
  <2>3. mailbox_action' \in [Admin -> MailboxAction \cup {"failed"}]
    BY <1>1, <1>6 DEF MoveBack, TypeOK, MailboxAction
  <2> QED
    BY <1>1, <1>2, <1>6, <2>1, <2>2, <2>3
    DEF MoveBack, AdminGoes, TypeOK, UidTypes, pass
<1>7. CASE MoveBackFails(a)
  <2>1. UidTypes' /\ held' \subseteq Msg /\ torn' \subseteq Msg /\ arrived' \subseteq Msg
    <3>1. CASE UNCHANGED <<mailbox, torn>>
      BY <1>1, <1>7, <3>1 DEF MoveBackFails, TypeOK, UidTypes, mailbox, pass
    <3>2. ASSUME NEW m \in Matches(a), IntoInbox(m), UNCHANGED arrived,
                 held' = held \ {m} \/ UNCHANGED held,
                 torn' = torn \cup {m, Released(a)}
          PROVE  UidTypes' /\ held' \subseteq Msg /\ torn' \subseteq Msg /\ arrived' \subseteq Msg
      <4>1. m \in Msg /\ Released(a) \in Msg
        BY <1>1, <1>5, <1>7 DEF MoveBackFails, Matches, TypeOK
      <4>2. UidTypes'
        BY <1>1, <1>7, <3>2, <4>1, IntoInboxType DEF MoveBackFails, pass
      <4> QED
        BY <1>1, <3>2, <4>1, <4>2 DEF TypeOK
    <3> QED
      BY <1>7, <3>1, <3>2 DEF MoveBackFails
  <2>2. faults_left' \in 0..MaxFaults
    BY <1>1, <1>7, FaultType DEF MoveBackFails, NoFault, TypeOK
  <2> QED
    BY <1>1, <1>2, <1>7, <2>1, <2>2 DEF MoveBackFails, AdminGoes, TypeOK, UidTypes, pass
<1>8. CASE CommitRelease(a)
  <2>1. row_id[a] \in 1..Len(scans)
    BY <1>1, <1>3, <1>8 DEF CommitRelease, FolderInv
  <2>2. ReleasedRow(scans[row_id[a]], mailbox_action[a]) \in Row
    BY <1>3, <2>1, ReleasedColumns
  <2>3. scans' \in Seq(Row) /\ Len(scans') = Len(scans)
    BY <1>1, <1>8, <2>1, <2>2, ExceptSeq DEF CommitRelease, TypeOK
  <2> QED
    BY <1>1, <1>2, <1>3, <1>8, <2>3
    DEF CommitRelease, AdminEnds, AdminGoes, TypeOK, MailboxAction, mailbox, pass
<1>9. CASE ReleaseDies(a)
  <2>1. faults_left' \in 0..MaxFaults
    BY <1>1, <1>9, FaultType DEF ReleaseDies, TypeOK
  <2>2. torn' \subseteq Msg
    BY <1>1, <1>5, <1>9 DEF ReleaseDies, TypeOK
  <2> QED
    BY <1>1, <1>2, <1>3, <1>9, <2>1, <2>2
    DEF ReleaseDies, AdminEnds, AdminGoes, TypeOK, MailboxAction, mailbox, pass
<1> QED
  BY <1>4, <1>6, <1>7, <1>8, <1>9 DEF AdminStep

LEMMA TypeNext == ShapeInv /\ [Next]_vars => TypeOK'
<1> SUFFICES ASSUME ShapeInv, [Next]_vars PROVE TypeOK'
  OBVIOUS
<1>1. CASE TimePasses \/ UNCHANGED vars
  <2>1. Lock!TypeOK'
    BY LockTypeNext DEF ShapeInv
  <2> QED
    BY <1>1, <2>1 DEF TimePasses, vars, ShapeInv, TypeOK, mailbox, pass, release
<1> QED
  BY <1>1, TypeMail, TypePass, TypeBeginCrash, TypeAdmin DEF Next

-----------------------------------------------------------------------------
\* What the steps do to folders, rows and claims.

LEMMA Basics ==
  ASSUME ShapeInv
  PROVE  /\ uid \in [Msg -> Nat] /\ uid_next \in Nat
         /\ \A m \in Msg : uid[m] \in 0..uid_next
         /\ arrived \subseteq Msg /\ held \subseteq arrived /\ torn \subseteq Msg
         /\ scans \in Seq(Row) /\ Len(scans) \in Nat /\ DOMAIN scans = 1..Len(scans)
         /\ \A i \in DOMAIN scans : scans[i] \in Row
         /\ pc \in [Proc -> Step]
         /\ at \in [Admin -> {"idle", "move", "commit"}]
         /\ row_id \in [Admin -> 0..Len(scans)]
         /\ mailbox_action \in [Admin -> MailboxAction \cup {"failed"}]
         /\ todo \in [Proc -> SUBSET [msg: Msg, uid: 1..uid_next]]
         /\ draft \in [Proc -> Row \cup {NoRow}]
<1>1. TypeOK
  BY DEF ShapeInv
<1>2. uid \in [Msg -> 0..uid_next] /\ uid_next \in Nat
  BY <1>1 DEF TypeOK
<1>3. uid \in [Msg -> Nat] /\ \A m \in Msg : uid[m] \in 0..uid_next
  BY <1>2
<1>4. /\ Len(scans) \in Nat /\ DOMAIN scans = 1..Len(scans)
      /\ \A i \in DOMAIN scans : scans[i] \in Row
  <2>1. /\ Len(scans) \in Nat /\ DOMAIN scans = 1..Len(scans)
        /\ scans \in [1..Len(scans) -> Row]
    BY <1>1, LenProperties DEF TypeOK
  <2> QED
    BY <2>1
<1> QED
  BY <1>1, <1>2, <1>3, <1>4 DEF TypeOK, ShapeInv, FolderInv

\* The kinds of steps, by who takes them.
LEMMA Steps ==
  ASSUME [Next]_vars
  PROVE  \/ \E m \in Msg : Arrive(m) \/ UserDeletes(m)
         \/ \E p \in Proc : Begin(p) \/ PassStep(p) \/ Crash(p)
         \/ \E a \in Admin : AdminStep(a)
         \/ TimePasses \/ UNCHANGED vars
BY DEF Next

LEMMA PassSteps ==
  ASSUME NEW p \in Proc, PassStep(p)
  PROVE  \/ ReadKnown(p) \/ Fetch(p) \/ FetchFails(p)
         \/ \E mail \in todo[p] : (\E s \in Status : Classify(p, mail, s)) \/ ClassifyFails(p, mail)
         \/ Act(p) \/ ActFails(p)
         \/ Store(p) \/ StoreDuplicate(p) \/ StoreBreaks(p) \/ Release(p)
BY DEF PassStep, Handle

LEMMA AdminSteps ==
  ASSUME NEW a \in Admin, AdminStep(a)
  PROVE  \/ \E i \in DOMAIN scans : ReleaseScan(a, i)
         \/ \E m \in Msg : MoveBack(a, m)
         \/ MoveBackFails(a) \/ CommitRelease(a) \/ ReleaseDies(a)
BY DEF AdminStep

\* Only these steps touch the folders.
LEMMA MailStands ==
  ASSUME [Next]_vars,
         \A m \in Msg : ~Arrive(m) /\ ~UserDeletes(m),
         \A p \in Proc : ~Act(p) /\ ~ActFails(p),
         \A a \in Admin : ~MoveBackFails(a) /\ \A m \in Msg : ~MoveBack(a, m)
  PROVE  UNCHANGED mailbox
<1>1. ASSUME NEW p \in Proc, Begin(p) \/ Crash(p) \/ PassStep(p)
      PROVE  UNCHANGED mailbox
  BY <1>1, PassSteps DEF Begin, Crash, ReadKnown, Fetch, FetchFails, Classify, ClassifyFails,
     Store, StoreDuplicate, StoreBreaks, Release
<1>2. ASSUME NEW a \in Admin, AdminStep(a)
      PROVE  UNCHANGED mailbox
  BY <1>2, AdminSteps DEF ReleaseScan, CommitRelease, ReleaseDies
<1>3. CASE TimePasses \/ UNCHANGED vars
  BY <1>3 DEF TimePasses, vars
<1> QED
  BY <1>1, <1>2, <1>3, Steps

\* Nothing comes back out of torn, and no message leaves again.
LEMMA Grows ==
  ASSUME ShapeInv, [Next]_vars
  PROVE  torn \subseteq torn' /\ arrived \subseteq arrived'
<1>1. ASSUME NEW m \in Msg, Arrive(m) \/ UserDeletes(m)
      PROVE  torn \subseteq torn' /\ arrived \subseteq arrived'
  BY <1>1 DEF Arrive, UserDeletes
<1>2. ASSUME NEW p \in Proc, PassStep(p) \/ Begin(p) \/ Crash(p)
      PROVE  torn \subseteq torn' /\ arrived \subseteq arrived'
  <2>1. CASE StoreDuplicate(p) \/ StoreBreaks(p) \/ Crash(p)
    BY <2>1, LoseRowType DEF StoreDuplicate, StoreBreaks, Crash, mailbox
  <2>2. CASE ActFails(p)
    BY <2>2 DEF ActFails
  <2> QED
    BY <1>2, <2>1, <2>2, PassSteps DEF Begin, ReadKnown, Fetch, FetchFails, Classify,
       ClassifyFails, Act, Store, Release, mailbox
<1>3. ASSUME NEW a \in Admin, AdminStep(a)
      PROVE  torn \subseteq torn' /\ arrived \subseteq arrived'
  <2>1. CASE MoveBackFails(a)
    BY <2>1 DEF MoveBackFails, mailbox
  <2> QED
    BY <1>3, <2>1, AdminSteps DEF ReleaseScan, MoveBack, CommitRelease, ReleaseDies, mailbox
<1>4. CASE TimePasses \/ UNCHANGED vars
  BY <1>4 DEF TimePasses, vars, mailbox
<1> QED
  BY <1>1, <1>2, <1>3, <1>4, Steps

\* p hides m from its owner, under the UID it still has.
Hides(p, m) ==
    /\ pc[p] = "act" /\ draft[p].msg = m /\ draft[p].uid = uid[m]
    /\ uid'[m] = 0 /\ m \in held'
    /\ draft'[p].uid = draft[p].uid /\ Claims(p, m, draft[p].uid)'

\* What may become of a message that no move tears.
LEMMA MailStep ==
  ASSUME ShapeInv, [Next]_vars, NEW m \in arrived, m \notin torn'
  PROVE  \/ uid'[m] = uid[m] /\ (m \in held' <=> m \in held)
         \/ uid'[m] = 0 /\ m \notin held'
         \/ \E p \in Proc : Hides(p, m)
         \/ \E a \in Admin : MoveBack(a, m)
<1>0. /\ uid \in [Msg -> Nat] /\ m \in Msg
  BY Basics
<1>1. ASSUME NEW n \in Msg, Arrive(n)
      PROVE  uid'[m] = uid[m] /\ (m \in held' <=> m \in held)
  BY <1>0, <1>1 DEF Arrive, IntoInbox
<1>2. ASSUME NEW n \in Msg, UserDeletes(n)
      PROVE  \/ uid'[m] = uid[m] /\ (m \in held' <=> m \in held)
             \/ uid'[m] = 0 /\ m \notin held'
  BY <1>0, <1>2 DEF UserDeletes
<1>3. ASSUME NEW p \in Proc, Act(p)
      PROVE  \/ uid'[m] = uid[m] /\ (m \in held' <=> m \in held)
             \/ Hides(p, m)
  <2>1. /\ draft[p] \in Row /\ draft[p].msg \in Msg
        /\ draft[p].uid \in 1..uid_next
    BY <1>3 DEF Act, ShapeInv, PassShape, Row
  <2>2. CASE draft[p].status = "Quarantined" /\ draft[p].msg = m /\ uid[m] = draft[p].uid
    <3>1. /\ held' = held \cup {m} /\ uid'[m] = 0
          /\ pc[p] = "act" /\ pc'[p] = "store"
          /\ draft' = [draft EXCEPT ![p].mailbox_action = "quarantined"]
      BY <1>0, <1>3, <2>2, Basics DEF Act, Copied, Deleted, GoTo
    <3>2. /\ draft'[p].msg = draft[p].msg /\ draft'[p].uid = draft[p].uid
          /\ draft'[p].mailbox_action = "quarantined"
      BY ZenonT(40), <2>1, <3>1, Basics DEF Row
    <3> QED
      BY <2>2, <3>1, <3>2 DEF Hides, Claims
  <2>3. CASE ~(draft[p].status = "Quarantined" /\ draft[p].msg = m /\ uid[m] = draft[p].uid)
    <3>1. CASE draft[p].status = "Quarantined"
      BY <1>0, <1>3, <2>1, <2>3, <3>1 DEF Act, Copied, Deleted
    <3>2. CASE draft[p].status # "Quarantined"
      BY <1>3, <3>2 DEF Act
    <3> QED
      BY <3>1, <3>2
  <2> QED
    BY <2>2, <2>3
<1>4. ASSUME NEW p \in Proc, ActFails(p)
      PROVE  uid'[m] = uid[m] /\ (m \in held' <=> m \in held)
  <2>1. CASE UNCHANGED <<uid, held, torn>>
    BY <2>1
  <2>2. CASE /\ draft[p].status = "Quarantined" /\ Copied(draft[p])
             /\ Deleted(draft[p]) \/ UNCHANGED uid
             /\ torn' = torn \cup {draft[p].msg}
    <3>1. draft[p].msg # m
      BY <2>2
    <3> QED
      BY <1>0, <2>2, <3>1 DEF Copied, Deleted
  <2> QED
    BY <1>4, <2>1, <2>2 DEF ActFails
<1>5. ASSUME NEW a \in Admin, NEW n \in Msg, n # m, MoveBack(a, n)
      PROVE  uid'[m] = uid[m] /\ (m \in held' <=> m \in held)
  BY <1>0, <1>5 DEF MoveBack, IntoInbox
<1>6. ASSUME NEW a \in Admin, MoveBackFails(a)
      PROVE  uid'[m] = uid[m] /\ (m \in held' <=> m \in held)
  <2>1. CASE UNCHANGED <<mailbox, torn>>
    BY <2>1 DEF mailbox
  <2>2. ASSUME NEW n \in Matches(a), IntoInbox(n), UNCHANGED arrived,
               held' = held \ {n} \/ UNCHANGED held,
               torn' = torn \cup {n, Released(a)}
        PROVE  uid'[m] = uid[m] /\ (m \in held' <=> m \in held)
    BY <1>0, <2>2 DEF IntoInbox
  <2> QED
    BY <1>6, <2>1, <2>2 DEF MoveBackFails
<1>7. CASE UNCHANGED mailbox
  BY <1>7 DEF mailbox
<1> QED
  BY <1>1, <1>2, <1>3, <1>4, <1>5, <1>6, <1>7, MailStands

\* A pass does not move unless it takes the step.
LEMMA Elsewhere ==
  ASSUME ShapeInv, [Next]_vars, NEW p \in Proc, ~Begin(p), ~PassStep(p), ~Crash(p)
  PROVE  pc'[p] = pc[p] /\ draft'[p] = draft[p] /\ todo'[p] = todo[p]
<1>0. pc \in [Proc -> Step] /\ DOMAIN draft = Proc /\ DOMAIN todo = Proc
  BY Basics
<1>1. ASSUME NEW q \in Proc, q # p, Begin(q) \/ Crash(q) \/ PassStep(q)
      PROVE  pc'[p] = pc[p] /\ draft'[p] = draft[p] /\ todo'[p] = todo[p]
  <2>1. CASE Begin(q)
    BY <1>0, <1>1, <2>1 DEF Begin, GoTo
  <2>2. CASE Crash(q) \/ StoreBreaks(q) \/ Release(q)
    BY <1>0, <1>1, <2>2 DEF Crash, StoreBreaks, Release, ForgetPass, GoTo
  <2>3. CASE ReadKnown(q) \/ Fetch(q) \/ FetchFails(q)
    BY <1>0, <1>1, <2>3 DEF ReadKnown, Fetch, FetchFails, GoTo
  <2>4. ASSUME NEW mail \in todo[q],
               (\E s \in Status : Classify(q, mail, s)) \/ ClassifyFails(q, mail)
        PROVE  pc'[p] = pc[p] /\ draft'[p] = draft[p] /\ todo'[p] = todo[p]
    BY <1>0, <1>1, <2>4 DEF Classify, ClassifyFails, Drop, GoTo
  <2>5. CASE Act(q) \/ ActFails(q)
    BY <1>0, <1>1, <2>5 DEF Act, ActFails, GoTo
  <2>6. CASE Store(q) \/ StoreDuplicate(q)
    BY <1>0, <1>1, <2>6 DEF Store, StoreDuplicate, Stored, GoTo
  <2> QED
    BY <1>1, <2>1, <2>2, <2>3, <2>4, <2>5, <2>6, PassSteps
<1>2. ASSUME NEW m \in Msg, Arrive(m) \/ UserDeletes(m)
      PROVE  UNCHANGED pass
  BY <1>2 DEF Arrive, UserDeletes
<1>3. ASSUME NEW a \in Admin, AdminStep(a)
      PROVE  UNCHANGED pass
  BY <1>3, AdminSteps DEF ReleaseScan, MoveBack, MoveBackFails, CommitRelease, ReleaseDies
<1>4. CASE TimePasses \/ UNCHANGED vars
  BY <1>4 DEF TimePasses, vars, pass
<1> QED
  BY <1>1, <1>2, <1>3, <1>4, Steps DEF pass

\* Only a store and the commit of a release touch the rows.
LEMMA RowsStand ==
  ASSUME [Next]_vars, \A p \in Proc : ~Store(p), \A a \in Admin : ~CommitRelease(a)
  PROVE  UNCHANGED scans
<1>1. ASSUME NEW p \in Proc, Begin(p) \/ Crash(p) \/ PassStep(p)
      PROVE  UNCHANGED scans
  BY <1>1, PassSteps DEF Begin, Crash, ReadKnown, Fetch, FetchFails, Classify, ClassifyFails,
     Act, ActFails, StoreDuplicate, StoreBreaks, Release
<1>2. ASSUME NEW a \in Admin, AdminStep(a)
      PROVE  UNCHANGED scans
  BY <1>2, AdminSteps DEF ReleaseScan, MoveBack, MoveBackFails, ReleaseDies
<1>3. ASSUME NEW m \in Msg, Arrive(m) \/ UserDeletes(m)
      PROVE  UNCHANGED scans
  BY <1>3 DEF Arrive, UserDeletes
<1>4. CASE TimePasses \/ UNCHANGED vars
  BY <1>4 DEF TimePasses, vars
<1> QED
  BY <1>1, <1>2, <1>3, <1>4, Steps

\* What becomes of a row: it stays the row of its message, and it is no longer
\* that of a quarantined message only when a release that moved it commits.
LEMMA RowsKeep ==
  ASSUME ShapeInv, [Next]_vars, NEW i \in DOMAIN scans
  PROVE  /\ i \in DOMAIN scans'
         /\ scans'[i].msg = scans[i].msg /\ scans'[i].uid = scans[i].uid
         /\ scans'[i].mailbox_action = "quarantined" =>
              scans[i].mailbox_action = "quarantined"
         /\ scans[i].mailbox_action = "quarantined" =>
              \/ scans'[i].mailbox_action = "quarantined"
              \/ \E a \in Admin : Completing(a, i)
         /\ \A a \in Admin : CommitRelease(a) /\ Completing(a, i) =>
              scans'[i].mailbox_action # "quarantined"
<1>1. /\ scans \in Seq(Row) /\ Len(scans) \in Nat /\ DOMAIN scans = 1..Len(scans)
      /\ scans[i] \in Row
  BY Basics
<1>2. ASSUME NEW p \in Proc, Store(p)
      PROVE  /\ i \in DOMAIN scans' /\ scans'[i] = scans[i]
             /\ \A a \in Admin : ~CommitRelease(a)
  <2>1. draft[p] \in Row
    BY <1>2 DEF Store, ShapeInv, PassShape
  <2>2. scans' = Append(scans, draft[p])
    BY <1>2 DEF Store
  <2>3. Len(scans') = Len(scans) + 1 /\ scans'[i] = scans[i] /\ DOMAIN scans' = 1..Len(scans')
    BY <1>1, <2>1, <2>2, AppendProperties, LenProperties
  <2>4. Len(scans) + 1 \in DOMAIN scans' /\ Len(scans) + 1 \notin DOMAIN scans
    BY <1>1, <2>3
  <2>5. \A a \in Admin : CommitRelease(a) => DOMAIN scans' = DOMAIN scans
    BY DEF CommitRelease
  <2>6. i \in DOMAIN scans'
    BY <1>1, <2>3
  <2>7. \A a \in Admin : ~CommitRelease(a)
    BY <2>4, <2>5
  <2> QED
    BY <2>3, <2>6, <2>7
<1>3. ASSUME NEW a \in Admin, CommitRelease(a)
      PROVE  /\ i \in DOMAIN scans'
             /\ \/ scans'[i] = scans[i] /\ i # row_id[a]
                \/ /\ i = row_id[a]
                   /\ scans'[i] = ReleasedRow(scans[i], mailbox_action[a])
  BY <1>1, <1>3 DEF CommitRelease
<1>4. ASSUME NEW a \in Admin, CommitRelease(a)
      PROVE  /\ i \in DOMAIN scans'
             /\ scans'[i].msg = scans[i].msg /\ scans'[i].uid = scans[i].uid
             /\ scans'[i].mailbox_action = "quarantined" =>
                  scans[i].mailbox_action = "quarantined"
             /\ scans[i].mailbox_action = "quarantined" =>
                  \/ scans'[i].mailbox_action = "quarantined"
                  \/ Completing(a, i)
             /\ Completing(a, i) => scans'[i].mailbox_action # "quarantined"
  <2>1. CASE scans'[i] = scans[i] /\ i # row_id[a]
    BY <1>3, <1>4, <2>1 DEF Completing
  <2>2. CASE i = row_id[a] /\ scans'[i] = ReleasedRow(scans[i], mailbox_action[a])
    <3>1. /\ scans'[i].msg = scans[i].msg /\ scans'[i].uid = scans[i].uid
          /\ scans'[i].mailbox_action = "quarantined" =>
               scans[i].mailbox_action = "quarantined"
          /\ mailbox_action[a] = "none" => scans'[i].mailbox_action # "quarantined"
          /\ mailbox_action[a] # "none" => scans'[i].mailbox_action = scans[i].mailbox_action
      BY <1>1, <2>2, ReleasedColumns
    <3>2. at[a] = "commit"
      BY <1>4 DEF CommitRelease
    <3> QED
      BY <1>3, <1>4, <2>2, <3>1, <3>2 DEF Completing
  <2> QED
    BY <1>3, <1>4, <2>1, <2>2
<1>5. CASE UNCHANGED scans /\ \A a \in Admin : ~CommitRelease(a)
  BY <1>5
<1> QED
  BY <1>2, <1>4, <1>5, RowsStand

\* A new row is the one a pass had in hand, under a UID that had none.
LEMMA RowsNew ==
  ASSUME ShapeInv, [Next]_vars, NEW i \in DOMAIN scans', i \notin DOMAIN scans
  PROVE  \E p \in Proc : Store(p) /\ i = Len(scans) + 1 /\ scans'[i] = draft[p]
<1>1. scans \in Seq(Row) /\ Len(scans) \in Nat /\ DOMAIN scans = 1..Len(scans)
  BY Basics
<1>2. PICK p \in Proc : Store(p)
  <2>1. \A a \in Admin : ~CommitRelease(a)
    BY <1>1 DEF CommitRelease
  <2> QED
    BY <2>1, RowsStand
<1>3. draft[p] \in Row /\ scans' = Append(scans, draft[p])
  BY <1>2 DEF Store, ShapeInv, PassShape
<1>4. /\ Len(scans') = Len(scans) + 1 /\ scans'[Len(scans) + 1] = draft[p]
      /\ DOMAIN scans' = 1..Len(scans')
  BY <1>1, <1>3, AppendProperties, LenProperties
<1> QED
  BY <1>1, <1>2, <1>4

LEMMA HasRowStays ==
  ASSUME ShapeInv, [Next]_vars, NEW u, HasRow(u)
  PROVE  HasRow(u)'
BY RowsKeep DEF HasRow

\* A claim lasts until its row is there, or what it knew is lost.
LEMMA ClaimStep ==
  ASSUME ShapeInv, [Next]_vars, NEW p \in Proc, NEW m, NEW u,
         Claims(p, m, u), m \notin torn'
  PROVE  Claims(p, m, u)' \/ (Store(p) /\ HasRow(u)')
<1>1. /\ pc[p] = "store" /\ draft[p] \in Row /\ draft[p].msg = m /\ draft[p].uid = u
      /\ draft[p].status = "Quarantined"
  BY DEF Claims, ShapeInv, PassShape
<1>2. CASE Store(p)
  <2>1. scans \in Seq(Row) /\ scans' = Append(scans, draft[p]) /\ Len(scans) \in Nat
    BY <1>2, Basics DEF Store
  <2>2. Len(scans) + 1 \in DOMAIN scans' /\ scans'[Len(scans) + 1] = draft[p]
    BY <1>1, <2>1, AppendProperties, LenProperties
  <2> QED
    BY <1>1, <1>2, <2>2 DEF HasRow
<1>3. ~StoreDuplicate(p) /\ ~StoreBreaks(p) /\ ~Crash(p)
  BY <1>1 DEF StoreDuplicate, StoreBreaks, Crash, LoseRow
<1>4. ~Begin(p) /\ ~Release(p) /\ ~ReadKnown(p) /\ ~Fetch(p) /\ ~FetchFails(p) /\ ~Act(p)
      /\ ~ActFails(p)
  BY <1>1 DEF Begin, Release, ReadKnown, Fetch, FetchFails, Act, ActFails
<1>5. \A mail \in todo[p] : ~ClassifyFails(p, mail) /\ \A s \in Status : ~Classify(p, mail, s)
  BY <1>1 DEF Classify, ClassifyFails
<1>6. CASE ~Store(p)
  <2>1. ~PassStep(p)
    BY <1>3, <1>4, <1>5, <1>6, PassSteps
  <2> QED
    BY <1>3, <1>4, <2>1, Elsewhere DEF Claims
<1> QED
  BY <1>2, <1>6

\* Only the move of a message makes a claim.
LEMMA NewClaim ==
  ASSUME ShapeInv, [Next]_vars, NEW p \in Proc, NEW m, NEW u, Claims(p, m, u)'
  PROVE  \/ Claims(p, m, u)
         \/ /\ Act(p) /\ draft[p].msg = m /\ draft[p].uid = u
            /\ draft[p].status = "Quarantined"
<1>0. pc \in [Proc -> Step] /\ draft \in [Proc -> Row \cup {NoRow}]
  BY Basics
<1>1. CASE ~Begin(p) /\ ~PassStep(p) /\ ~Crash(p)
  BY <1>1, Elsewhere DEF Claims
<1>2. ~Begin(p) /\ ~Crash(p) /\ ~StoreBreaks(p) /\ ~Release(p)
  BY <1>0 DEF Claims, Begin, Crash, StoreBreaks, Release, ForgetPass, GoTo
<1>3. ~ReadKnown(p) /\ ~Fetch(p) /\ ~FetchFails(p) /\ ~Store(p) /\ ~StoreDuplicate(p)
  BY <1>0 DEF Claims, ReadKnown, Fetch, FetchFails, Store, StoreDuplicate, Stored, GoTo
<1>4. ASSUME NEW mail \in todo[p],
             ClassifyFails(p, mail) \/ \E s \in Status : Classify(p, mail, s)
      PROVE  FALSE
  <2>1. CASE ClassifyFails(p, mail)
    BY <2>1 DEF Claims, ClassifyFails
  <2>2. ASSUME NEW s \in Status, Classify(p, mail, s)
        PROVE  FALSE
    <3>1. draft'[p] = NewRow(mail, s)
      BY <1>0, <2>2 DEF Classify
    <3>2. NewRow(mail, s).mailbox_action = "none"
      BY DEF NewRow
    <3>3. draft'[p].mailbox_action = "none"
      BY <3>1, <3>2
    <3> QED
      BY <3>3 DEF Claims
  <2> QED
    BY <1>4, <2>1, <2>2
<1>5. ASSUME ActFails(p)
      PROVE  FALSE
  <2>1. draft[p] \in Row /\ draft[p].mailbox_action = "none" /\ draft'[p] = Failed(draft[p])
    BY <1>0, <1>5 DEF ActFails, ShapeInv, PassShape
  <2> QED
    BY <2>1, FailedType DEF Claims
<1>6. ASSUME Act(p)
      PROVE  draft[p].msg = m /\ draft[p].uid = u /\ draft[p].status = "Quarantined"
  <2>1. draft[p] \in Row
    BY <1>6 DEF Act, ShapeInv, PassShape
  <2>2. CASE draft[p].status = "Quarantined"
    <3>1. draft'[p] = [draft[p] EXCEPT !.mailbox_action = "quarantined"]
      BY <1>0, <1>6, <2>2 DEF Act
    <3> QED
      BY <2>1, <2>2, <3>1 DEF Claims, Row
  <2>3. CASE draft[p].status # "Quarantined"
    <3>1. draft'[p] = [draft[p] EXCEPT !.mailbox_action = "flagged"]
      BY <1>0, <1>6, <2>3 DEF Act
    <3> QED
      BY <2>1, <3>1 DEF Claims, Row
  <2> QED
    BY <2>2, <2>3
<1> QED
  BY <1>1, <1>2, <1>3, <1>4, <1>5, <1>6, PassSteps

\* What a pass is going to act on was in the inbox when it was fetched.
LEMMA NewPending ==
  ASSUME ShapeInv, [Next]_vars, NEW p \in Proc, NEW m \in Msg, NEW u \in Nat \ {0},
         Pending(p, m, u)'
  PROVE  Pending(p, m, u) \/ (uid'[m] = u /\ uid[m] = u)
<1>0. /\ pc \in [Proc -> Step] /\ draft \in [Proc -> Row \cup {NoRow}]
      /\ todo \in [Proc -> SUBSET [msg: Msg, uid: 1..uid_next]]
  BY Basics
<1>1. CASE ~Begin(p) /\ ~PassStep(p) /\ ~Crash(p)
  BY <1>1, Elsewhere DEF Pending
<1>2. ~Crash(p) /\ ~StoreBreaks(p) /\ ~Release(p)
  BY <1>0 DEF Pending, Crash, StoreBreaks, Release, ForgetPass, GoTo
<1>3. CASE Begin(p) \/ ReadKnown(p) \/ FetchFails(p) \/ Store(p) \/ StoreDuplicate(p)
  BY <1>0, <1>3 DEF Pending, Begin, ReadKnown, FetchFails, Store, StoreDuplicate, Stored, GoTo
<1>4. CASE Fetch(p)
  <2>1. [msg |-> m, uid |-> u] \in Fetched(p) /\ UNCHANGED uid
    BY <1>0, <1>4 DEF Pending, Fetch, GoTo, mailbox
  <2>2. [msg |-> m, uid |-> u] \in Inbox
    BY <2>1 DEF Fetched, Newest
  <2> QED
    BY <2>1, <2>2 DEF Inbox
<1>5. ASSUME NEW mail \in todo[p], ClassifyFails(p, mail)
      PROVE  Pending(p, m, u)
  BY <1>0, <1>5 DEF Pending, ClassifyFails, Drop
<1>6. ASSUME NEW mail \in todo[p], NEW s \in Status, Classify(p, mail, s)
      PROVE  Pending(p, m, u)
  <2>1. draft'[p] = NewRow(mail, s) /\ todo'[p] = todo[p] \ {mail}
    BY <1>0, <1>6 DEF Classify, Drop
  <2>2. mail = [msg |-> mail.msg, uid |-> mail.uid]
    BY <1>0
  <2>3. NewRow(mail, s).msg = mail.msg /\ NewRow(mail, s).uid = mail.uid
    BY DEF NewRow
  <2>4. draft'[p].msg = mail.msg /\ draft'[p].uid = mail.uid
    BY <2>1, <2>3
  <2> QED
    BY <2>1, <2>2, <2>4 DEF Pending
<1>7. CASE Act(p) \/ ActFails(p)
  BY <1>0, <1>7 DEF Act, ActFails, Pending, GoTo
<1> QED
  BY <1>1, <1>2, <1>3, <1>4, <1>5, <1>6, <1>7, PassSteps

\* A release that is due ends with its commit, or dies.
LEMMA CompletingEnds ==
  ASSUME ShapeInv, [Next]_vars, NEW a \in Admin, NEW i, Completing(a, i)
  PROVE  Completing(a, i)' \/ CommitRelease(a) \/ ReleaseDies(a)
<1>0. /\ at \in [Admin -> {"idle", "move", "commit"}]
      /\ DOMAIN row_id = Admin /\ DOMAIN mailbox_action = Admin
  BY Basics
<1>1. ASSUME NEW b \in Admin, b # a, AdminStep(b)
      PROVE  Completing(a, i)'
  BY <1>0, <1>1, AdminSteps
  DEF Completing, ReleaseScan, MoveBack, MoveBackFails, CommitRelease, ReleaseDies, AdminEnds,
      AdminGoes
<1>2. AdminStep(a) => CommitRelease(a) \/ ReleaseDies(a)
  BY AdminSteps DEF Completing, ReleaseScan, MoveBack, MoveBackFails
<1>3. CASE UNCHANGED release
  BY <1>3 DEF release, Completing
<1>4. ASSUME NEW p \in Proc, Begin(p) \/ PassStep(p) \/ Crash(p)
      PROVE  UNCHANGED release
  BY <1>4, PassSteps DEF Begin, Crash, ReadKnown, Fetch, FetchFails, Classify, ClassifyFails,
     Act, ActFails, Store, StoreDuplicate, StoreBreaks, Release
<1>5. (\E m \in Msg : Arrive(m) \/ UserDeletes(m)) \/ TimePasses \/ UNCHANGED vars
        => UNCHANGED release
  BY DEF Arrive, UserDeletes, TimePasses, vars
<1> QED
  BY <1>1, <1>2, <1>3, <1>4, <1>5, Steps

\* A release becomes due when it has moved a message back, or when it found a
\* row that is not of a quarantined message.
LEMMA NewCompleting ==
  ASSUME ShapeInv, [Next]_vars, NEW a \in Admin, NEW i, Completing(a, i)'
  PROVE  \/ Completing(a, i)
         \/ row_id[a] = i /\ \E m \in Msg : MoveBack(a, m)
         \/ i \in DOMAIN scans /\ scans[i].mailbox_action = "none" /\ UNCHANGED scans
<1>0. /\ at \in [Admin -> {"idle", "move", "commit"}]
      /\ DOMAIN row_id = Admin /\ DOMAIN mailbox_action = Admin
  BY Basics
<1>1. ASSUME NEW b \in Admin, b # a, AdminStep(b)
      PROVE  Completing(a, i)
  BY <1>0, <1>1, AdminSteps
  DEF Completing, ReleaseScan, MoveBack, MoveBackFails, CommitRelease, ReleaseDies, AdminEnds,
      AdminGoes
<1>2. ASSUME NEW j \in DOMAIN scans, ReleaseScan(a, j)
      PROVE  i \in DOMAIN scans /\ scans[i].mailbox_action = "none" /\ UNCHANGED scans
  BY <1>0, <1>2 DEF ReleaseScan, Completing
<1>3. ASSUME NEW m \in Msg, MoveBack(a, m)
      PROVE  row_id[a] = i
  BY <1>3 DEF MoveBack, Completing
<1>4. ~MoveBackFails(a) /\ ~CommitRelease(a) /\ ~ReleaseDies(a)
  BY <1>0 DEF MoveBackFails, CommitRelease, ReleaseDies, AdminEnds, AdminGoes, Completing
<1>5. CASE UNCHANGED release
  BY <1>5 DEF release, Completing
<1>6. ASSUME NEW p \in Proc, Begin(p) \/ PassStep(p) \/ Crash(p)
      PROVE  UNCHANGED release
  BY <1>6, PassSteps DEF Begin, Crash, ReadKnown, Fetch, FetchFails, Classify, ClassifyFails,
     Act, ActFails, Store, StoreDuplicate, StoreBreaks, Release
<1>7. (\E m \in Msg : Arrive(m) \/ UserDeletes(m)) \/ TimePasses \/ UNCHANGED vars
        => UNCHANGED release
  BY DEF Arrive, UserDeletes, TimePasses, vars
<1> QED
  BY <1>1, <1>2, <1>3, <1>4, <1>5, <1>6, <1>7, Steps, AdminSteps

\* A message that left both folders does not come back.
LEMMA GoneStays ==
  ASSUME ShapeInv, [Next]_vars, NEW m \in arrived, m \notin torn', Gone(m)
  PROVE  Gone(m)'
<1>1. ASSUME NEW p \in Proc, Hides(p, m)
      PROVE  FALSE
  <2>1. draft[p].uid \in 1..uid_next /\ uid_next \in Nat
    BY <1>1, Basics DEF Hides, ShapeInv, PassShape
  <2> QED
    BY <1>1, <2>1 DEF Hides, Gone
<1>2. ASSUME NEW a \in Admin, MoveBack(a, m)
      PROVE  FALSE
  BY <1>2 DEF MoveBack, Matches, Gone
<1> QED
  BY <1>1, <1>2, MailStep DEF Gone

\* What has become of a message stays accounted for.
LEMMA AccountedStays ==
  ASSUME ShapeInv, [Next]_vars, NEW m \in arrived, m \notin torn', NEW u \in Nat \ {0},
         Accounted(m, u)
  PROVE  Accounted(m, u)'
<1>1. CASE uid[m] = u
  <2>1. ASSUME NEW p \in Proc, Hides(p, m)
        PROVE  Claims(p, m, u)'
    BY <1>1, <2>1 DEF Hides, Claims
  <2>2. ASSUME NEW a \in Admin, MoveBack(a, m)
        PROVE  FALSE
    <3>1. m \in held \ torn
      BY <2>2, Grows DEF MoveBack, Matches
    <3> QED
      BY <1>1, <3>1 DEF ShapeInv, FolderInv
  <2> QED
    BY <1>1, <2>1, <2>2, MailStep DEF Accounted, Gone
<1>2. CASE Gone(m)
  BY <1>2, GoneStays DEF Accounted
<1>3. CASE HasRow(u)
  BY <1>3, HasRowStays DEF Accounted
<1>4. ASSUME NEW q \in Proc, Claims(q, m, u)
      PROVE  Accounted(m, u)'
  BY <1>4, ClaimStep DEF Accounted
<1> QED
  BY <1>1, <1>2, <1>3, <1>4 DEF Accounted

\* A message that is claimed is in hand, so that a release that moves it back
\* tears it.
LEMMA ClaimedIsInHand ==
  ASSUME ShapeInv, NEW p \in Proc, NEW m, NEW u, Claims(p, m, u)
  PROVE  InHand(m)
<1>1. draft[p] \in Row /\ draft[p].msg = m
  BY DEF Claims, ShapeInv, PassShape
<1> QED
  BY <1>1, NoRowIsNone DEF InHand

\* A message comes into the quarantine folder in the hand of a pass, and stays
\* there until its owner deletes it or it is moved back.
LEMMA HeldStep ==
  ASSUME ShapeInv, [Next]_vars, NEW m \in arrived, m \notin torn'
  PROVE  /\ m \in held' => m \in held \/ \E p \in Proc : Hides(p, m)
         /\ m \in held => \/ m \in held' \/ Gone(m)'
                          \/ \E a \in Admin : MoveBack(a, m)
<1>1. ASSUME NEW a \in Admin, MoveBack(a, m)
      PROVE  m \notin held'
  BY <1>1 DEF MoveBack
<1>2. \A p \in Proc : Hides(p, m) => m \in held'
  BY DEF Hides
<1> QED
  BY <1>1, <1>2, MailStep DEF Gone

-----------------------------------------------------------------------------
\* The four parts of the invariant about what is known of a message.

LEMMA PendingNext ==
  ASSUME ImapInv, [Next]_vars
  PROVE  PendingInv'
<1> SUFFICES ASSUME NEW p \in Proc, NEW m \in Msg \ torn', NEW u \in Nat \ {0},
                    Pending(p, m, u)'
             PROVE  Accounted(m, u)'
  BY DEF PendingInv
<1>1. ShapeInv /\ m \notin torn
  BY Grows DEF ImapInv
<1>2. CASE Pending(p, m, u)
  <2>1. m \in arrived
    BY <1>1, <1>2 DEF Pending, ShapeInv, PassShape
  <2>2. Accounted(m, u)
    BY <1>1, <1>2 DEF ImapInv, PendingInv
  <2> QED
    BY <1>1, <2>1, <2>2, AccountedStays
<1>3. CASE uid'[m] = u
  BY <1>3 DEF Accounted
<1> QED
  BY <1>1, <1>2, <1>3, NewPending

LEMMA ClaimNext ==
  ASSUME ImapInv, [Next]_vars
  PROVE  ClaimInv'
<1> SUFFICES ASSUME NEW p \in Proc, NEW m \in Msg \ torn', NEW u \in Nat \ {0},
                    Claims(p, m, u)'
             PROVE  (m \in held \/ Gone(m) \/ HasRow(u))'
  BY DEF ClaimInv
<1>1. ShapeInv /\ m \notin torn
  BY Grows DEF ImapInv
<1>2. m \in arrived
  BY <1>1, NewClaim DEF Claims, Act, ShapeInv, PassShape
<1>3. ASSUME NEW q \in Proc, Claims(q, m, u)
      PROVE  (m \in held \/ Gone(m) \/ HasRow(u))'
  <2>1. m \in held \/ Gone(m) \/ HasRow(u)
    BY <1>1, <1>3 DEF ImapInv, ClaimInv
  <2>2. ASSUME NEW a \in Admin, MoveBack(a, m)
        PROVE  FALSE
    <3>1. SpokenOf(a, m)
      BY <1>1, <1>3, ClaimedIsInHand DEF SpokenOf
    <3> QED
      BY <2>2, <3>1 DEF MoveBack
  <2>3. CASE m \in held
    BY <1>1, <1>2, <2>2, <2>3, HeldStep
  <2>4. CASE Gone(m) \/ HasRow(u)
    BY <1>1, <1>2, <2>4, GoneStays, HasRowStays
  <2> QED
    BY <2>1, <2>3, <2>4
<1>4. CASE /\ Act(p) /\ draft[p].msg = m /\ draft[p].uid = u
           /\ draft[p].status = "Quarantined"
  <2>1. Pending(p, m, u)
    BY <1>4 DEF Act, Pending
  <2>2. Accounted(m, u)
    BY <1>1, <2>1 DEF ImapInv, PendingInv
  <2>3. CASE uid[m] = u
    BY <1>4, <2>3 DEF Act, Copied
  <2>4. CASE Gone(m) \/ HasRow(u)
    BY <1>1, <1>2, <2>4, GoneStays, HasRowStays
  <2> QED
    BY <1>3, <2>2, <2>3, <2>4 DEF Accounted
<1> QED
  BY <1>1, <1>3, <1>4, NewClaim

LEMMA RecordNext ==
  ASSUME ImapInv, [Next]_vars
  PROVE  RecordInv'
<1> SUFFICES ASSUME NEW i \in DOMAIN scans', scans'[i].mailbox_action = "quarantined",
                    scans'[i].msg \notin torn'
             PROVE  \/ (scans[i].msg \in held \/ Gone(scans[i].msg))'
                    \/ \E a \in Admin : Completing(a, i)'
  BY DEF RecordInv
<1> DEFINE m == scans'[i].msg
<1>1. ShapeInv /\ m \notin torn
  BY Grows DEF ImapInv
<1>2. CASE i \in DOMAIN scans
  <2>1. scans[i].mailbox_action = "quarantined" /\ scans[i].msg = m
    BY <1>1, <1>2, RowsKeep
  <2>2. m \in arrived
    BY <1>1, <1>2, <2>1 DEF ShapeInv, FolderInv
  <2>3. CASE m \in held
    <3>1. ASSUME NEW a \in Admin, MoveBack(a, m)
          PROVE  Completing(a, i)'
      <4>1. m = Released(a) /\ ~SpokenOf(a, m)
        BY <3>1 DEF MoveBack
      <4>2. i = row_id[a]
        BY <1>2, <2>1, <4>1 DEF SpokenOf
      <4>3. a \in DOMAIN at /\ a \in DOMAIN mailbox_action
        BY <1>1, Basics
      <4> QED
        BY <3>1, <4>2, <4>3 DEF MoveBack, AdminGoes, Completing
    <3> QED
      BY <1>1, <2>2, <2>3, <3>1, HeldStep DEF Gone
  <2>4. CASE Gone(m)
    BY <1>1, <2>2, <2>4, GoneStays DEF Gone
  <2>5. ASSUME NEW a \in Admin, Completing(a, i)
        PROVE  Completing(a, i)'
    <3>1. ~CommitRelease(a)
      BY <1>1, <1>2, <2>5, RowsKeep
    <3>2. ~ReleaseDies(a)
      BY <2>1, <2>5 DEF ReleaseDies, Completing, Released
    <3> QED
      BY <1>1, <2>5, <3>1, <3>2, CompletingEnds
  <2> QED
    BY <1>1, <1>2, <2>1, <2>3, <2>4, <2>5 DEF ImapInv, RecordInv
<1>3. CASE i \notin DOMAIN scans
  <2>1. PICK p \in Proc : Store(p) /\ scans'[i] = draft[p]
    BY <1>1, <1>3, RowsNew
  <2>2. /\ draft[p] \in Row /\ draft[p].uid \in Nat \ {0} /\ m \in Msg
        /\ Claims(p, m, draft[p].uid) /\ ~HasRow(draft[p].uid)
    <3>1. draft[p] \in Row /\ draft[p].uid \in 1..uid_next /\ uid_next \in Nat
      BY <1>1, <2>1, Basics DEF Store, ShapeInv, PassShape
    <3>2. draft[p].uid \in Nat \ {0}
      BY <3>1
    <3> QED
      BY <2>1, <3>1, <3>2 DEF Store, Claims, Taken, Row
  <2>3. m \in held \/ Gone(m)
    BY <1>1, <2>2 DEF ImapInv, ClaimInv
  <2>4. UNCHANGED <<uid, held>>
    BY <2>1 DEF Store, mailbox
  <2> QED
    BY <2>3, <2>4 DEF Gone
<1> QED
  BY <1>2, <1>3

LEMMA HiddenNext ==
  ASSUME ImapInv, [Next]_vars, held' \subseteq arrived
  PROVE  HiddenInv'
<1> SUFFICES ASSUME NEW m \in held', m \notin torn'
             PROVE  \/ \E i \in DOMAIN scans' : Records(i, m)'
                    \/ \E p \in Proc : Claims(p, m, draft[p].uid)'
  BY DEF HiddenInv
<1>1. ShapeInv /\ m \notin torn /\ m \in arrived
  BY Grows DEF ImapInv
<1>2. ASSUME NEW p \in Proc, Hides(p, m)
      PROVE  Claims(p, m, draft[p].uid)'
  BY <1>2 DEF Hides
<1>3. ASSUME NEW i \in DOMAIN scans, Records(i, m)
      PROVE  i \in DOMAIN scans' /\ Records(i, m)'
  <2>1. i \in DOMAIN scans' /\ scans'[i].msg = m
    BY <1>1, <1>3, RowsKeep DEF Records
  <2>2. scans'[i].mailbox_action = "quarantined"
    BY <1>1, <1>3, RowsKeep DEF Records
  <2>3. ASSUME NEW a \in Admin, Completing(a, i)'
        PROVE  FALSE
    <3>1. PICK n \in Msg : MoveBack(a, n) /\ row_id[a] = i
      BY <1>1, <1>3, <2>3, NewCompleting DEF Records
    <3>2. Released(a) = m
      BY <1>3, <3>1 DEF Released, Records
    <3>3. n = m
      BY <3>1, <3>2 DEF MoveBack
    <3> QED
      BY <3>1, <3>3 DEF MoveBack
  <2> QED
    BY <2>1, <2>2, <2>3 DEF Records
<1>4. ASSUME NEW p \in Proc, NEW u, Claims(p, m, u)
      PROVE  \/ \E i \in DOMAIN scans' : Records(i, m)'
             \/ Claims(p, m, draft[p].uid)'
  <2>1. CASE Claims(p, m, u)'
    BY <2>1 DEF Claims
  <2>2. CASE Store(p)
    <3>1. scans \in Seq(Row) /\ Len(scans) \in Nat /\ DOMAIN scans = 1..Len(scans)
          /\ draft[p] \in Row /\ scans' = Append(scans, draft[p])
      BY <1>1, <2>2, Basics DEF Store, ShapeInv, PassShape
    <3>2. PICK i : i = Len(scans) + 1
      OBVIOUS
    <3>3. i \in DOMAIN scans' /\ scans'[i] = draft[p] /\ i \notin DOMAIN scans
      BY <3>1, <3>2, AppendProperties, LenProperties
    <3>4. ASSUME NEW a \in Admin, Completing(a, i)'
          PROVE  FALSE
      <4>1. at[a] = "commit" /\ row_id[a] = i
        BY <2>2, <3>4 DEF Store, release, Completing
      <4> QED
        BY <1>1, <3>3, <4>1 DEF ShapeInv, FolderInv
    <3>5. Records(i, m)'
      BY <1>4, <3>3, <3>4 DEF Records, Claims
    <3> QED
      BY <3>3, <3>5
  <2> QED
    BY <1>1, <1>4, <2>1, <2>2, ClaimStep
<1>5. CASE m \in held
  <2>1. (\E i \in DOMAIN scans : Records(i, m)) \/ \E p \in Proc : Claims(p, m, draft[p].uid)
    BY <1>1, <1>5 DEF ImapInv, HiddenInv
  <2> QED
    BY <1>3, <1>4, <2>1
<1>6. CASE m \notin held
  BY <1>1, <1>2, <1>6, HeldStep
<1> QED
  BY <1>5, <1>6

-----------------------------------------------------------------------------
\* The shape of the state.

LEMMA MailShapeNext ==
  ASSUME ShapeInv, [Next]_vars
  PROVE  /\ \A m \in Msg : uid'[m] # 0 => m \in arrived'
         /\ held' \subseteq arrived
         /\ 1..uid_next \subseteq 1..uid_next'
<1>0. /\ uid \in [Msg -> Nat] /\ uid_next \in Nat /\ held \subseteq arrived
      /\ arrived \subseteq Msg /\ \A m \in Msg : uid[m] # 0 => m \in arrived
  BY Basics DEF ShapeInv, FolderInv
<1>1. 1..uid_next \subseteq 1..(uid_next + 1)
  BY <1>0
<1>2. ASSUME NEW n \in Msg, IntoInbox(n), n \in arrived', arrived \subseteq arrived'
      PROVE  /\ \A m \in Msg : uid'[m] # 0 => m \in arrived'
             /\ 1..uid_next \subseteq 1..uid_next'
  BY <1>0, <1>1, <1>2 DEF IntoInbox
<1>3. ASSUME NEW n \in Msg, Arrive(n)
      PROVE  /\ \A m \in Msg : uid'[m] # 0 => m \in arrived'
             /\ held' \subseteq arrived
             /\ 1..uid_next \subseteq 1..uid_next'
  <2>1. n \in arrived' /\ arrived \subseteq arrived' /\ held' = held
    BY <1>3 DEF Arrive
  <2> QED
    BY <1>0, <1>2, <1>3, <2>1 DEF Arrive
<1>4. ASSUME NEW n \in Msg, UserDeletes(n)
      PROVE  /\ \A m \in Msg : uid'[m] # 0 => m \in arrived'
             /\ held' \subseteq arrived
             /\ 1..uid_next \subseteq 1..uid_next'
  BY <1>0, <1>4 DEF UserDeletes
<1>5. ASSUME NEW p \in Proc, Act(p) \/ ActFails(p)
      PROVE  /\ \A m \in Msg : uid'[m] # 0 => m \in arrived'
             /\ held' \subseteq arrived
             /\ 1..uid_next \subseteq 1..uid_next'
  <2>1. draft[p].msg \in arrived /\ UNCHANGED <<arrived, uid_next>>
    BY <1>5 DEF Act, ActFails, ShapeInv, PassShape
  <2>2. Copied(draft[p]) \/ UNCHANGED held
    BY <1>5 DEF Act, ActFails
  <2>3. held' \subseteq arrived
    BY <1>0, <2>1, <2>2 DEF Copied
  <2>4. Deleted(draft[p]) \/ UNCHANGED uid
    BY <1>5 DEF Act, ActFails
  <2>5. \A m \in Msg : uid'[m] # 0 => m \in arrived'
    BY <1>0, <2>1, <2>4 DEF Deleted
  <2> QED
    BY <2>1, <2>3, <2>5
<1>6. ASSUME NEW a \in Admin, NEW n \in Msg, MoveBack(a, n)
      PROVE  /\ \A m \in Msg : uid'[m] # 0 => m \in arrived'
             /\ held' \subseteq arrived
             /\ 1..uid_next \subseteq 1..uid_next'
  <2>1. n \in held /\ UNCHANGED arrived /\ held' = held \ {n} /\ IntoInbox(n)
    BY <1>6 DEF MoveBack, Matches
  <2> QED
    BY <1>0, <1>2, <2>1
<1>7. ASSUME NEW a \in Admin, MoveBackFails(a)
      PROVE  /\ \A m \in Msg : uid'[m] # 0 => m \in arrived'
             /\ held' \subseteq arrived
             /\ 1..uid_next \subseteq 1..uid_next'
  <2>1. CASE UNCHANGED mailbox
    BY <1>0, <2>1 DEF mailbox
  <2>2. ASSUME NEW n \in Matches(a), IntoInbox(n), UNCHANGED arrived,
               held' = held \ {n} \/ UNCHANGED held
        PROVE  /\ \A m \in Msg : uid'[m] # 0 => m \in arrived'
               /\ held' \subseteq arrived
               /\ 1..uid_next \subseteq 1..uid_next'
    <3>1. n \in arrived' /\ n \in Msg
      BY <1>0, <2>2 DEF Matches
    <3> QED
      BY <1>0, <1>2, <2>2, <3>1
  <2> QED
    BY <1>7, <2>1, <2>2 DEF MoveBackFails
<1>8. CASE UNCHANGED mailbox
  BY <1>0, <1>8 DEF mailbox
<1> QED
  BY <1>3, <1>4, <1>5, <1>6, <1>7, <1>8, MailStands

LEMMA PassShapeNext ==
  ASSUME ShapeInv, [Next]_vars, NEW p \in Proc
  PROVE  PassShape(p)'
<1>0. /\ pc \in [Proc -> Step] /\ draft \in [Proc -> Row \cup {NoRow}]
      /\ todo \in [Proc -> SUBSET [msg: Msg, uid: 1..uid_next]]
      /\ uid \in [Msg -> Nat] /\ uid_next \in Nat
  BY Basics
<1>1. /\ arrived \subseteq arrived' /\ 1..uid_next \subseteq 1..uid_next'
      /\ PassShape(p) /\ FolderInv
  BY Grows, MailShapeNext DEF ShapeInv
<1>2. CASE ~Begin(p) /\ ~PassStep(p) /\ ~Crash(p)
  <2>1. pc'[p] = pc[p] /\ draft'[p] = draft[p] /\ todo'[p] = todo[p]
    BY <1>2, Elsewhere
  <2> QED
    BY <1>1, <2>1 DEF PassShape
<1>3. CASE Crash(p) \/ StoreBreaks(p) \/ Release(p)
  BY <1>0, <1>3 DEF Crash, StoreBreaks, Release, ForgetPass, GoTo, PassShape
<1>4. CASE Begin(p) \/ ReadKnown(p) \/ FetchFails(p)
  <2>1. /\ pc'[p] \in {"known", "fetch", "release"} /\ pc[p] \in {"idle", "known", "fetch"}
        /\ draft' = draft /\ todo' = todo
    BY <1>0, <1>4 DEF Begin, ReadKnown, FetchFails, GoTo
  <2> QED
    BY <1>1, <2>1 DEF PassShape
<1>5. CASE Fetch(p)
  <2>1. \A mail \in Fetched(p) : mail.msg \in arrived
    BY <1>0, <1>1 DEF Fetched, Newest, Inbox, FolderInv
  <2> QED
    BY <1>0, <1>1, <1>5, <2>1 DEF Fetch, GoTo, PassShape
<1>6. ASSUME NEW mail \in todo[p], ClassifyFails(p, mail)
      PROVE  PassShape(p)'
  <2>1. pc' = pc /\ draft' = draft /\ todo'[p] \subseteq todo[p]
    BY <1>0, <1>6 DEF ClassifyFails, Drop
  <2> QED
    BY <1>1, <2>1 DEF PassShape
<1>7. ASSUME NEW mail \in todo[p], NEW s \in Status, Classify(p, mail, s)
      PROVE  PassShape(p)'
  <2>1. /\ draft'[p] = NewRow(mail, s) /\ todo'[p] \subseteq todo[p]
        /\ pc'[p] \in {"act", "store"}
    BY <1>0, <1>7 DEF Classify, Drop, GoTo
  <2>2. mail.msg \in Msg /\ mail.uid \in 1..uid_next /\ mail.uid \in Nat /\ mail.msg \in arrived
    BY <1>0, <1>1 DEF PassShape
  <2>3. /\ draft'[p] \in Row /\ draft'[p].msg = mail.msg /\ draft'[p].uid = mail.uid
        /\ draft'[p].mailbox_action = "none"
    BY <2>1, <2>2, NewRowType
  <2> QED
    BY <1>1, <2>1, <2>2, <2>3 DEF PassShape
<1>8. CASE Act(p)
  <2>1. draft[p] \in Row /\ draft[p].msg \in arrived /\ draft[p].uid \in 1..uid_next
    BY <1>1, <1>8 DEF Act, PassShape
  <2>2. /\ pc'[p] = "store" /\ todo'[p] = todo[p]
        /\ \/ draft[p].status = "Quarantined"
              /\ draft'[p] = [draft[p] EXCEPT !.mailbox_action = "quarantined"]
           \/ draft'[p] = [draft[p] EXCEPT !.mailbox_action = "flagged"]
    BY <1>0, <1>8 DEF Act, GoTo
  <2>3. /\ draft'[p] \in Row /\ draft'[p].msg = draft[p].msg /\ draft'[p].uid = draft[p].uid
        /\ draft'[p].mailbox_action = "quarantined" => draft'[p].status = "Quarantined"
    BY <2>1, <2>2 DEF Row, MailboxAction
  <2> QED
    BY <1>1, <2>1, <2>2, <2>3 DEF PassShape
<1>9. CASE ActFails(p)
  <2>1. /\ draft[p] \in Row /\ draft[p].msg \in arrived /\ draft[p].uid \in 1..uid_next
        /\ draft[p].mailbox_action = "none"
    BY <1>1, <1>9 DEF ActFails, PassShape
  <2>2. pc'[p] = "store" /\ todo'[p] = todo[p] /\ draft'[p] = Failed(draft[p])
    BY <1>0, <1>9 DEF ActFails, GoTo
  <2>3. /\ draft'[p] \in Row /\ draft'[p].msg = draft[p].msg /\ draft'[p].uid = draft[p].uid
        /\ draft'[p].mailbox_action = "none"
    BY <2>1, <2>2, FailedType
  <2> QED
    BY <1>1, <2>1, <2>2, <2>3 DEF PassShape
<1>10. CASE Store(p) \/ StoreDuplicate(p)
  <2>1. pc'[p] = "process" /\ todo'[p] = todo[p] /\ draft'[p] = NoRow
    BY <1>0, <1>10 DEF Store, StoreDuplicate, Stored, GoTo
  <2> QED
    BY <1>1, <2>1 DEF PassShape
<1> QED
  BY <1>2, <1>3, <1>4, <1>5, <1>6, <1>7, <1>8, <1>9, <1>10, PassSteps

LEMMA FolderNext ==
  ASSUME ShapeInv, [Next]_vars
  PROVE  FolderInv'
<1>1. /\ \A m \in Msg : uid'[m] # 0 => m \in arrived'
      /\ held' \subseteq arrived /\ arrived \subseteq arrived'
      /\ 1..uid_next \subseteq 1..uid_next'
  BY Grows, MailShapeNext
<1>2. ASSUME NEW m \in held', m \notin torn'
      PROVE  uid'[m] = 0
  <2>1. m \in arrived /\ m \notin torn
    BY <1>1, <1>2, Grows
  <2>2. ASSUME NEW a \in Admin, MoveBack(a, m)
        PROVE  FALSE
    BY <1>2, <2>2 DEF MoveBack
  <2>3. m \in held => uid[m] = 0
    BY <2>1 DEF ShapeInv, FolderInv
  <2> QED
    BY <1>2, <2>1, <2>2, <2>3, MailStep DEF Hides
<1>3. ASSUME NEW i \in DOMAIN scans'
      PROVE  scans'[i].msg \in arrived' /\ scans'[i].uid \in 1..uid_next'
  <2>1. CASE i \in DOMAIN scans
    BY <1>1, <2>1, RowsKeep DEF ShapeInv, FolderInv
  <2>2. CASE i \notin DOMAIN scans
    <3>1. PICK p \in Proc : Store(p) /\ scans'[i] = draft[p]
      BY <2>2, RowsNew
    <3> QED
      BY <1>1, <3>1 DEF Store, ShapeInv, PassShape
  <2> QED
    BY <2>1, <2>2
<1>4. ASSUME NEW a \in Admin, at'[a] # "idle"
      PROVE  row_id'[a] \in DOMAIN scans'
  <2>0. /\ at \in [Admin -> {"idle", "move", "commit"}] /\ DOMAIN row_id = Admin
        /\ at[a] # "idle" => row_id[a] \in DOMAIN scans
    BY Basics DEF ShapeInv, FolderInv
  <2>1. row_id'[a] \in DOMAIN scans
    <3>1. ASSUME NEW b \in Admin, AdminStep(b)
          PROVE  row_id'[a] \in DOMAIN scans
      <4>1. ASSUME NEW i \in DOMAIN scans, ReleaseScan(b, i)
            PROVE  row_id'[a] \in DOMAIN scans
        BY <1>4, <2>0, <4>1 DEF ReleaseScan, AdminGoes
      <4>2. CASE (\E m \in Msg : MoveBack(b, m)) \/ MoveBackFails(b)
        BY <1>4, <2>0, <4>2 DEF MoveBack, MoveBackFails, AdminGoes
      <4>3. CASE CommitRelease(b) \/ ReleaseDies(b)
        BY <1>4, <2>0, <4>3 DEF CommitRelease, ReleaseDies, AdminEnds, AdminGoes
      <4> QED
        BY <3>1, <4>1, <4>2, <4>3, AdminSteps
    <3>2. CASE UNCHANGED release
      BY <1>4, <2>0, <3>2 DEF release
    <3>3. ASSUME NEW p \in Proc, Begin(p) \/ PassStep(p) \/ Crash(p)
          PROVE  UNCHANGED release
      BY <3>3, PassSteps DEF Begin, Crash, ReadKnown, Fetch, FetchFails, Classify,
         ClassifyFails, Act, ActFails, Store, StoreDuplicate, StoreBreaks, Release
    <3>4. (\E m \in Msg : Arrive(m) \/ UserDeletes(m)) \/ TimePasses \/ UNCHANGED vars
            => UNCHANGED release
      BY DEF Arrive, UserDeletes, TimePasses, vars
    <3> QED
      BY <3>1, <3>2, <3>3, <3>4, Steps
  <2> QED
    BY <2>1, RowsKeep
<1> QED
  BY <1>1, <1>2, <1>3, <1>4 DEF FolderInv

-----------------------------------------------------------------------------
LEMMA ImapInit == Init => ImapInv
<1> SUFFICES ASSUME Init PROVE ImapInv
  OBVIOUS
<1>1. scans = <<>> /\ DOMAIN scans = {} /\ Len(scans) = 0 /\ scans \in Seq(Row)
  BY EmptySeq DEF Init
<1>2. Lock!TypeOK
  <2>1. LockProofs!TypeOK
    BY LockAssumption, SameLock, LockProofs!TypeCorrectInit DEF Init
  <2> QED
    BY <2>1, SameLock
<1>3. UidTypes
  BY DEF Init, UidTypes
<1>4. TypeOK
  <2>1. 0 \in 0..Len(scans) /\ faults_left \in 0..MaxFaults /\ releases_left \in 0..MaxReleases
    BY <1>1, ImapSyncAssumption DEF Init
  <2> QED
    BY <1>1, <1>2, <1>3, <2>1 DEF Init, TypeOK, UidTypes, Step, MailboxAction
<1>5. \A p \in Proc : PassShape(p)
  BY DEF Init, PassShape
<1>6. FolderInv
  BY <1>1 DEF Init, FolderInv
<1>7. PendingInv /\ ClaimInv /\ HiddenInv
  BY DEF Init, PendingInv, Pending, ClaimInv, Claims, HiddenInv
<1>8. RecordInv
  BY <1>1 DEF RecordInv
<1> QED
  BY <1>4, <1>5, <1>6, <1>7, <1>8 DEF ImapInv, ShapeInv

LEMMA ImapNext == ImapInv /\ [Next]_vars => ImapInv'
<1> SUFFICES ASSUME ImapInv, [Next]_vars PROVE ImapInv'
  OBVIOUS
<1>1. ShapeInv
  BY DEF ImapInv
<1>2. TypeOK' /\ FolderInv' /\ \A p \in Proc : PassShape(p)'
  BY <1>1, TypeNext, FolderNext, PassShapeNext
<1>3. HiddenInv'
  BY <1>1, HiddenNext, MailShapeNext
<1> QED
  BY <1>2, <1>3, PendingNext, ClaimNext, RecordNext DEF ImapInv, ShapeInv

LEMMA ImapImplies == ImapInv => QuarantineMatchesRows
<1> SUFFICES ASSUME ImapInv PROVE QuarantineMatchesRows
  OBVIOUS
<1>1. RecordedQuarantineIsReal
  BY DEF ImapInv, RecordInv, Completing, RecordedQuarantineIsReal
<1>2. HiddenMailIsReleasable
  <2>1. \A p \in Proc : \A m : Claims(p, m, draft[p].uid) => InHand(m)
    BY ClaimedIsInHand DEF ImapInv
  <2> QED
    BY <2>1 DEF ImapInv, HiddenInv, Records, HiddenMailIsReleasable
<1> QED
  BY <1>1, <1>2 DEF QuarantineMatchesRows

\* The inductive invariant holds in every reachable state.
THEOREM ImapInvariant == Spec => []ImapInv
BY ImapInit, ImapNext, PTL DEF Spec

\* The columns, the folders and the locals of passes and releases keep their
\* types, and no UID is recorded that the inbox has not given.
THEOREM ImapTypes == Spec => []TypeOK
<1>1. ImapInv => TypeOK
  BY DEF ImapInv, ShapeInv
<1> QED
  BY <1>1, ImapInvariant, PTL

\* The table and the quarantine folder tell the same story, although passes
\* outlive their lock, calls fail half way, workers die and the owner deletes
\* mail: a row says a message is quarantined only while it is, and mail that
\* is hidden has a row whose release brings it back (mailbox/sync.py,
\* _process_one_message; app.py, admin_action).
THEOREM TablesMatchFolders == Spec => []QuarantineMatchesRows
BY ImapInvariant, ImapImplies, PTL

=============================================================================
