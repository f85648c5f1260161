--------------------------- MODULE AccountsProofs ---------------------------
(***************************************************************************)
(* What Accounts guarantees for any number of people, browsers, requests   *)
(* and deaths of a worker.                                                 *)
(*                                                                         *)
(* A request holds a copy of its row while others commit.  The inductive   *)
(* invariant says of that copy what its commit relies on: which columns    *)
(* the request may have changed (Held), that the secrets it brings are in  *)
(* no other place (SecretsInv), and what is still true of the row since it *)
(* was loaded (Standing, OneDecision).                                     *)
(***************************************************************************)
EXTENDS Accounts, SequenceTheorems, TLAPS

-----------------------------------------------------------------------------
\* The inductive invariant.

Active(c) == at[c] # "idle"

\* A change that leaves the rights of the account alone, ...
SameRights(old, new) == new.role = old.role /\ new.is_active = old.is_active

\* ... and one that leaves its password and links alone.
SameSecrets(old, new) ==
    /\ new.password = old.password
    /\ new.verification_token = old.verification_token
    /\ new.reset_token = old.reset_token

\* What the request at a place may have changed: the console the rights, the
\* account's owner the secrets, and nobody takes a verification back.
Change(place, old, new) ==
    /\ old \in User /\ new \in User
    /\ new.email = old.email
    /\ new.email_verified # old.email_verified => new.email_verified = "yes"
    /\ place \notin Deciding => SameRights(old, new)
    /\ place \notin {"own", "arm"} => SameSecrets(old, new)
    /\ place = "insert" => new = old

Held(c) ==
    /\ Change(at[c], was[c], now[c])
    /\ at[c] = "insert" \/ row_id[c] \in DOMAIN rows

\* The secrets a change brings into the table.
Brought(place, old, new) ==
    IF place = "insert" THEN Secrets(new) ELSE Secrets(new) \ Secrets(old)

Pending(c) == IF Active(c) THEN Brought(at[c], was[c], now[c]) ELSE {}

\* A column of secrets that differs is cleared or holds one of those.
BringsNew(place, old, new) ==
    LET new_ones == Brought(place, old, new) \cup {0} IN
    /\ new.password = old.password \/ new.password \in new_ones
    /\ \/ new.verification_token = old.verification_token
       \/ new.verification_token \in new_ones
    /\ new.reset_token = old.reset_token \/ new.reset_token \in new_ones

\* Every secret was issued, is in one place, and is not a retired one.
SecretsInv ==
    /\ \A i \in DOMAIN rows : /\ Secrets(rows[i]) \subseteq 1..issued
                              /\ Secrets(rows[i]) \cap retired = {}
    /\ \A i, j \in DOMAIN rows :
           i # j => Secrets(rows[i]) \cap Secrets(rows[j]) = {}
    /\ \A c \in Client : Active(c) =>
           /\ Secrets(was[c]) \subseteq 1..issued
           /\ BringsNew(at[c], was[c], now[c])
    /\ \A c \in Client : /\ Pending(c) \subseteq 1..issued
                         /\ Pending(c) \cap retired = {}
    /\ \A c \in Client, i \in DOMAIN rows : Pending(c) \cap Secrets(rows[i]) = {}
    /\ \A c, d \in Client : c # d => Pending(c) \cap Pending(d) = {}

\* Of the row a request has loaded: an address once verified stays verified, ...
StaysVerified(c) ==
    Active(c) /\ at[c] # "insert" /\ was[c].email_verified = "yes" =>
        rows[row_id[c]].email_verified = "yes"

\* ... and a login that was allowed still is, until the console decides.
MayEnter(c) ==
    at[c] = "enter" /\ c \notin outdated =>
        /\ MayLogIn(rows[row_id[c]])
        /\ rows[row_id[c]].role = was[c].role

Standing == \A c \in Client : StaysVerified(c) /\ MayEnter(c)

HeldInv ==
    /\ TypeOK
    /\ DOMAIN was = Client /\ DOMAIN now = Client
    /\ \A c \in Client : Active(c) => Held(c)

AccountsInv ==
    HeldInv /\ SecretsInv /\ Standing /\ SessionsAreCurrent

\* A change that does not take an active administrator away.
StaysAdmin(old, new) ==
    old.role = "admin" /\ old.is_active = "yes" =>
        new.role = "admin" /\ new.is_active = "yes"

\* One decision at a time: the rights of its row are as it loaded them, and
\* another administrator remains or the decision leaves this one one.
OneDecision ==
    /\ \A c, d \in Client : at[c] \in Deciding /\ at[d] \in Deciding => c = d
    /\ \A c \in Client : at[c] \in Deciding =>
           SameRights(rows[row_id[c]], was[c])
    /\ \A c \in Client : at[c] = "rights" =>
           OtherAdmins(row_id[c]) # {} \/ StaysAdmin(was[c], now[c])

DecisionsInv == contested \/ (OneDecision /\ SomeAdminRemains)

\* The table is seeded with an administrator (seed_db, create_admin).
SeededAdmin == \E i \in DOMAIN Seeded : Seeded[i][2] = "admin"

-----------------------------------------------------------------------------
\* Rows and what a commit makes of them.

\* What Updated does to a row, column by column.
LEMMA UpdatedColumns ==
  ASSUME NEW row \in User, NEW old \in User, NEW new \in User
  PROVE  /\ Updated(row, old, new) \in User
         /\ LET u == Updated(row, old, new) IN
            /\ u.email = IF new.email # old.email THEN new.email ELSE row.email
            /\ u.role = IF new.role # old.role THEN new.role ELSE row.role
            /\ u.is_active =
                  IF new.is_active # old.is_active THEN new.is_active ELSE row.is_active
            /\ u.email_verified =
                  IF new.email_verified # old.email_verified
                  THEN new.email_verified ELSE row.email_verified
            /\ u.password =
                  IF new.password # old.password THEN new.password ELSE row.password
            /\ u.verification_token =
                  IF new.verification_token # old.verification_token
                  THEN new.verification_token ELSE row.verification_token
            /\ u.reset_token =
                  IF new.reset_token # old.reset_token
                  THEN new.reset_token ELSE row.reset_token
BY DEF Updated, User

\* A commit adds no secret but those it brings.
LEMMA UpdatedSecrets ==
  ASSUME NEW row \in User, NEW old \in User, NEW new \in User, NEW place,
         BringsNew(place, old, new)
  PROVE  Secrets(Updated(row, old, new)) \subseteq Secrets(row) \cup Brought(place, old, new)
<1> DEFINE u == Updated(row, old, new)
<1>1. /\ u.password \in {row.password, 0} \cup Brought(place, old, new)
      /\ u.verification_token \in {row.verification_token, 0} \cup Brought(place, old, new)
      /\ u.reset_token \in {row.reset_token, 0} \cup Brought(place, old, new)
  BY UpdatedColumns DEF BringsNew
<1> QED
  BY <1>1 DEF Secrets

LEMMA NewUserType ==
  ASSUME NEW username \in Username, NEW email \in Email \cup {NoEmail},
         NEW role \in Role, NEW password \in Nat
  PROVE  NewUser(username, email, role, password) \in User
BY DEF NewUser, User, Role

LEMMA RowsType ==
  TypeOK => /\ Len(rows) \in Nat /\ DOMAIN rows = 1..Len(rows)
            /\ \A i \in DOMAIN rows : rows[i] \in User
BY LenProperties DEF TypeOK

-----------------------------------------------------------------------------
\* A step of one request: what it leaves alone.

\* Where the requests are after a step of c.
LEMMA OneRequestMoves ==
  ASSUME HeldInv, NEW c \in Client, NEW place, NEW id, NEW old, NEW new,
         Goes(c, place), Hold(c, id, old, new)
  PROVE  /\ \A d \in Client :
                /\ at'[d] = IF d = c THEN place ELSE at[d]
                /\ row_id'[d] = IF d = c THEN id ELSE row_id[d]
                /\ was'[d] = IF d = c THEN old ELSE was[d]
                /\ now'[d] = IF d = c THEN new ELSE now[d]
         /\ DOMAIN was' = Client /\ DOMAIN now' = Client
         /\ place \in Place => at' \in [Client -> Place]
         /\ DOMAIN row_id' = Client
BY DEF HeldInv, TypeOK, Goes, Hold

\* Secrets stay issued, in one place and out of the retired ones when a step
\* of c writes only one row, with secrets of that row or that c had pending,
\* and c has nothing pending after it but a secret just issued.
LEMMA SecretsStep ==
  ASSUME SecretsInv, retired \subseteq 1..issued,
         issued \in Nat, issued' \in {issued, issued + 1},
         NEW c \in Client, NEW id,
         \A d \in Client \ {c} :
             at'[d] = at[d] /\ was'[d] = was[d] /\ now'[d] = now[d],
         Active(c)' => /\ Secrets(was'[c]) \subseteq 1..issued'
                       /\ BringsNew(at'[c], was'[c], now'[c]),
         \A s \in Pending(c)' : s = issued + 1 /\ issued' = issued + 1,
         \A j \in DOMAIN rows' \ {id} : j \in DOMAIN rows /\ rows'[j] = rows[j],
         id \in DOMAIN rows' =>
             \A s \in Secrets(rows'[id]) :
                 s \in Pending(c) \/ (id \in DOMAIN rows /\ s \in Secrets(rows[id])),
         \A s \in retired' : s \in retired
             \/ /\ id \in DOMAIN rows /\ s \in Secrets(rows[id])
                /\ s \notin Secrets(rows'[id])
  PROVE  SecretsInv'
<1>1. 1..issued \subseteq 1..issued' /\ issued + 1 \notin 1..issued
      /\ (issued' = issued + 1 => issued + 1 \in 1..issued')
  OBVIOUS
<1>2. \A d \in Client \ {c} : Pending(d)' = Pending(d) /\ Active(d)' = Active(d)
  BY DEF Pending, Active
<1>3. \A d \in Client : Pending(d) \subseteq 1..issued /\ Pending(d) \cap retired = {}
  BY DEF SecretsInv
<1>4. \A d \in Client, i \in DOMAIN rows : Pending(d) \cap Secrets(rows[i]) = {}
  BY DEF SecretsInv
<1>5. \A d, e \in Client : d # e => Pending(d) \cap Pending(e) = {}
  BY DEF SecretsInv
<1>6. \A i \in DOMAIN rows : Secrets(rows[i]) \subseteq 1..issued
                             /\ Secrets(rows[i]) \cap retired = {}
  BY DEF SecretsInv
<1>7. \A i, j \in DOMAIN rows : i # j => Secrets(rows[i]) \cap Secrets(rows[j]) = {}
  BY DEF SecretsInv
\* A secret of a row of the new table.
<1>8. \A i \in DOMAIN rows' : \A s \in Secrets(rows'[i]) :
          \/ i \in DOMAIN rows /\ s \in Secrets(rows[i])
          \/ i = id /\ s \in Pending(c)
  OBVIOUS
<1>9. \A s \in retired' : s \in 1..issued
  BY <1>6
<1>10. \A i \in DOMAIN rows' : Secrets(rows'[i]) \subseteq 1..issued'
  BY <1>1, <1>3, <1>6, <1>8
<1>11. ASSUME NEW i \in DOMAIN rows', NEW s \in Secrets(rows'[i]), s \in retired'
       PROVE  FALSE
  <2>1. CASE i \in DOMAIN rows /\ s \in Secrets(rows[i])
    BY <2>1, <1>11, <1>6, <1>7
  <2>2. CASE i = id /\ s \in Pending(c)
    BY <2>2, <1>11, <1>3, <1>4
  <2> QED
    BY <2>1, <2>2, <1>8, <1>11
<1>12. ASSUME NEW i \in DOMAIN rows', NEW j \in DOMAIN rows', i # j,
              NEW s \in Secrets(rows'[i]), s \in Secrets(rows'[j])
       PROVE  FALSE
  BY <1>12, <1>8, <1>7, <1>4
<1>13. ASSUME NEW d \in Client, Active(d)'
       PROVE  /\ Secrets(was'[d]) \subseteq 1..issued'
              /\ BringsNew(at'[d], was'[d], now'[d])
  <2>1. CASE d = c
    BY <2>1, <1>13
  <2>2. CASE d # c
    BY <2>2, <1>13, <1>1, <1>2 DEF SecretsInv
  <2> QED
    BY <2>1, <2>2
<1>14. ASSUME NEW d \in Client, NEW s \in Pending(d)'
       PROVE  s \in 1..issued' /\ s \notin retired'
  <2>1. CASE d = c
    BY <2>1, <1>14, <1>1, <1>9
  <2>2. CASE d # c
    BY <2>2, <1>14, <1>1, <1>2, <1>3, <1>4
  <2> QED
    BY <2>1, <2>2
<1>15. ASSUME NEW d \in Client, NEW i \in DOMAIN rows',
              NEW s \in Pending(d)', s \in Secrets(rows'[i])
       PROVE  FALSE
  <2>1. CASE d = c
    BY <2>1, <1>15, <1>1, <1>3, <1>6, <1>8
  <2>2. CASE d # c
    BY <2>2, <1>15, <1>2, <1>4, <1>5, <1>8
  <2> QED
    BY <2>1, <2>2
<1>16. ASSUME NEW d \in Client, NEW e \in Client, d # e,
              NEW s \in Pending(d)', s \in Pending(e)'
       PROVE  FALSE
  BY <1>16, <1>1, <1>2, <1>3, <1>5
<1> QED
  <2>1. \A i \in DOMAIN rows' : Secrets(rows'[i]) \subseteq 1..issued'
                                /\ Secrets(rows'[i]) \cap retired' = {}
    BY <1>10, <1>11
  <2>2. \A i, j \in DOMAIN rows' :
            i # j => Secrets(rows'[i]) \cap Secrets(rows'[j]) = {}
    BY <1>12
  <2>3. \A d \in Client : /\ Pending(d)' \subseteq 1..issued'
                          /\ Pending(d)' \cap retired' = {}
    BY <1>14
  <2>4. \A d \in Client, i \in DOMAIN rows' : Pending(d)' \cap Secrets(rows'[i]) = {}
    BY <1>15
  <2>5. \A d, e \in Client : d # e => Pending(d)' \cap Pending(e)' = {}
    BY <1>16
  <2> QED
    BY <1>13, <2>1, <2>2, <2>3, <2>4, <2>5 DEF SecretsInv

\* What a step leaves true of row i, whatever it writes: the row is there, has
\* its address, and a verified address stays verified.
Kept(i) ==
    /\ i \in DOMAIN rows' /\ rows'[i].email = rows[i].email
    /\ rows[i].email_verified = "yes" => rows'[i].email_verified = "yes"

\* Its rights change only if every client they could be stale for is noted.
RightsKept(i) ==
    \/ rows'[i].role = rows[i].role /\ rows'[i].is_active = rows[i].is_active
    \/ ClientsOf(i) \subseteq outdated'

Current(c) ==
    c \notin outdated /\ session[c] # LoggedOut =>
        LET row == rows[session[c].id]
        IN  /\ row.is_active = "yes" /\ row.role = session[c].role
            /\ row.email = NoEmail \/ row.email_verified = "yes"

\* A step of c leaves every other request's claim on its row, and every other
\* session, as current as they were.
LEMMA StandingStep ==
  ASSUME HeldInv, Standing, SessionsAreCurrent, NEW c \in Client,
         \A d \in Client \ {c} :
             /\ at'[d] = at[d] /\ row_id'[d] = row_id[d] /\ was'[d] = was[d]
             /\ session'[d] = session[d]
             /\ d \in outdated => d \in outdated',
         \A i \in DOMAIN rows : Kept(i) /\ RightsKept(i),
         StaysVerified(c)', MayEnter(c)', Current(c)'
  PROVE  Standing' /\ SessionsAreCurrent'
<1>1. ASSUME NEW d \in Client \ {c}
      PROVE  StaysVerified(d)'
  <2>1. ASSUME at[d] # "idle", at[d] # "insert", was[d].email_verified = "yes"
        PROVE  rows'[row_id[d]].email_verified = "yes"
    BY <2>1 DEF HeldInv, Held, Standing, StaysVerified, Active, Kept
  <2> QED
    BY <2>1 DEF StaysVerified, Active
<1>2. ASSUME NEW d \in Client \ {c}
      PROVE  MayEnter(d)'
  <2>1. ASSUME at[d] = "enter", d \notin outdated'
        PROVE  /\ MayLogIn(rows'[row_id[d]])
               /\ rows'[row_id[d]].role = was[d].role
    <3>1. row_id[d] \in DOMAIN rows /\ d \in ClientsOf(row_id[d])
      BY <2>1 DEF HeldInv, Held, Active, ClientsOf
    <3>2. MayLogIn(rows[row_id[d]]) /\ rows[row_id[d]].role = was[d].role
      BY <2>1 DEF Standing, MayEnter
    <3> QED
      BY <2>1, <3>1, <3>2 DEF Kept, RightsKept, MayLogIn
  <2> QED
    BY <2>1 DEF MayEnter
<1>3. ASSUME NEW d \in Client \ {c}
      PROVE  Current(d)'
  <2>1. ASSUME d \notin outdated', session[d] # LoggedOut
        PROVE  LET row == rows'[session[d].id]
               IN  /\ row.is_active = "yes" /\ row.role = session[d].role
                   /\ row.email = NoEmail \/ row.email_verified = "yes"
    <3>1. session[d].id \in DOMAIN rows /\ d \in ClientsOf(session[d].id)
      BY <2>1 DEF HeldInv, TypeOK, ClientsOf
    <3>2. Current(d) /\ d \notin outdated
      BY <2>1 DEF SessionsAreCurrent, Current
    <3> QED
      BY <2>1, <3>1, <3>2 DEF Kept, RightsKept, Current
  <2> QED
    BY <2>1 DEF Current
<1>4. Standing'
  BY <1>1, <1>2 DEF Standing
<1>5. SessionsAreCurrent'
  BY <1>3 DEF SessionsAreCurrent, Current
<1> QED
  BY <1>4, <1>5

-----------------------------------------------------------------------------
\* Steps that write no row.

\* A request that loads row i, as every action of a person or of the console
\* begins: it may change what its place allows and brings only a new secret.
LEMMA Loading ==
  ASSUME AccountsInv, NEW c \in Client, NEW i \in DOMAIN rows,
         NEW place \in Place \ {"idle", "insert", "arm"}, NEW new,
         Loads(c, i, place, new),
         Change(place, rows[i], new), BringsNew(place, rows[i], new),
         issued' \in {issued, issued + 1},
         \A s \in Brought(place, rows[i], new) : s = issued + 1 /\ issued' = issued + 1,
         contested' \in BOOLEAN,
         IF place = "enter"
         THEN outdated' = outdated \ {c} /\ MayLogIn(rows[i]) /\ session[c] = LoggedOut
         ELSE outdated' = outdated
  PROVE  AccountsInv'
<1>1. HeldInv /\ TypeOK /\ SecretsInv /\ Standing /\ SessionsAreCurrent
  BY DEF AccountsInv, HeldInv
<1>2. /\ rows' = rows /\ session' = session /\ retired' = retired
      /\ expired' = expired
      /\ at[c] = "idle" /\ requests_left' = requests_left - 1 /\ requests_left > 0
      /\ Goes(c, place) /\ Hold(c, i, rows[i], new)
  BY DEF Loads, Starts
<1>3. /\ \A d \in Client :
             /\ at'[d] = IF d = c THEN place ELSE at[d]
             /\ row_id'[d] = IF d = c THEN i ELSE row_id[d]
             /\ was'[d] = IF d = c THEN rows[i] ELSE was[d]
             /\ now'[d] = IF d = c THEN new ELSE now[d]
      /\ DOMAIN was' = Client /\ DOMAIN now' = Client
      /\ at' \in [Client -> Place]
  BY <1>1, <1>2, OneRequestMoves
<1>4. issued \in Nat /\ issued' \in Nat /\ 1..issued \subseteq 1..issued'
      /\ retired \subseteq 1..issued /\ expired \subseteq 1..issued
  BY <1>1 DEF TypeOK
<1>5. HeldInv'
  <2>1. \A d \in Client : Active(d)' => Held(d)'
    BY <1>1, <1>2, <1>3 DEF HeldInv, Held, Active
  <2>2. row_id' \in [Client -> 0..Len(rows)]
    BY <1>1, <1>2, RowsType DEF TypeOK, Hold
  <2>3. requests_left' \in 0..MaxRequests
    BY <1>1, <1>2, AccountsAssumption DEF TypeOK
  <2>4. \A d \in Client : at'[d] # "idle" => was'[d] \in User /\ now'[d] \in User
    BY <2>1 DEF Active, Held, Change
  <2>5. outdated' \subseteq Client
    BY <1>1 DEF TypeOK
  <2>6. retired' \subseteq 1..issued' /\ expired' \subseteq 1..issued'
    BY <1>2, <1>4
  <2> QED
    BY <1>1, <1>2, <1>3, <1>4, <2>1, <2>2, <2>3, <2>4, <2>5, <2>6 DEF HeldInv, TypeOK
<1>6. SecretsInv'
  <2>1. Secrets(rows[i]) \subseteq 1..issued'
    BY <1>1, <1>4 DEF SecretsInv
  <2>2. Pending(c)' = Brought(place, rows[i], new)
    BY <1>3 DEF Pending, Active
  <2> QED
    BY <1>1, <1>2, <1>3, <1>4, <2>1, <2>2, SecretsStep
<1>7. Standing' /\ SessionsAreCurrent'
  <2>1. \A j \in DOMAIN rows : Kept(j) /\ RightsKept(j)
    BY <1>2 DEF Kept, RightsKept
  <2>2. StaysVerified(c)'
    BY <1>2, <1>3 DEF StaysVerified
  <2>3. MayEnter(c)'
    BY <1>2, <1>3 DEF MayEnter
  <2>4. Current(c)'
    BY <1>1, <1>2 DEF Current, SessionsAreCurrent
  <2> QED
    BY <1>1, <1>2, <1>3, <2>1, <2>2, <2>3, <2>4, StandingStep
<1> QED
  BY <1>5, <1>6, <1>7 DEF AccountsInv

\* A request that ends, or goes on, without writing its row.
LEMMA NotWriting ==
  ASSUME AccountsInv, NEW c \in Client, NEW place, NEW id, NEW old, NEW new,
         at[c] # "idle",
         Goes(c, place), Hold(c, id, old, new),
         \/ place = "idle" /\ id = 0
         \/ /\ place \in Deciding /\ at[c] \in Deciding
            /\ id = row_id[c] /\ old = was[c] /\ new = now[c],
         \A d \in Client \ {c} : session'[d] = session[d],
         session' \in [Client -> [id : DOMAIN rows, role : Role] \cup {LoggedOut}],
         Current(c)',
         UNCHANGED <<rows, issued, expired, retired, outdated, contested, requests_left>>
  PROVE  AccountsInv'
<1>1. HeldInv /\ TypeOK /\ SecretsInv /\ Standing /\ SessionsAreCurrent
  BY DEF AccountsInv, HeldInv
<1>2. /\ \A d \in Client :
             /\ at'[d] = IF d = c THEN place ELSE at[d]
             /\ row_id'[d] = IF d = c THEN id ELSE row_id[d]
             /\ was'[d] = IF d = c THEN old ELSE was[d]
             /\ now'[d] = IF d = c THEN new ELSE now[d]
      /\ DOMAIN was' = Client /\ DOMAIN now' = Client
      /\ at' \in [Client -> Place]
  BY <1>1, OneRequestMoves DEF Place
<1>3. Held(c) /\ (at[c] \in Deciding => SameSecrets(was[c], now[c]))
  BY <1>1 DEF HeldInv, Active, Held, Change, Deciding
<1>4. HeldInv'
  <2>1. \A d \in Client : Active(d)' => Held(d)'
    <3>1. ASSUME Active(c)'
          PROVE  Held(c)'
      BY <3>1, <1>2, <1>3 DEF Active, Held, Change, Deciding
    <3> QED
      BY <1>1, <1>2, <3>1 DEF HeldInv, Held, Active
  <2>2. row_id' \in [Client -> 0..Len(rows)]
    BY <1>1, <1>2, RowsType DEF TypeOK, Hold
  <2>3. \A d \in Client : at'[d] # "idle" => was'[d] \in User /\ now'[d] \in User
    BY <2>1 DEF Active, Held, Change
  <2> QED
    BY <1>1, <1>2, <2>1, <2>2, <2>3 DEF HeldInv, TypeOK
<1>5. SecretsInv'
  <2>1. Pending(c)' = {}
    <3>1. CASE place = "idle"
      BY <3>1, <1>2 DEF Pending, Active
    <3>2. CASE place # "idle"
      BY <3>2, <1>2, <1>3 DEF Pending, Active, Brought, Secrets, SameSecrets, Deciding
    <3> QED
      BY <3>1, <3>2
  <2>2. Active(c)' => Secrets(was'[c]) \subseteq 1..issued'
                      /\ BringsNew(at'[c], was'[c], now'[c])
    BY <1>1, <1>2, <1>3 DEF Active, SecretsInv, BringsNew, SameSecrets
  <2>3. issued \in Nat /\ retired \subseteq 1..issued
    BY <1>1 DEF TypeOK
  <2> QED
    BY <1>1, <1>2, <2>1, <2>2, <2>3, SecretsStep
<1>6. Standing' /\ SessionsAreCurrent'
  <2>1. \A j \in DOMAIN rows : Kept(j) /\ RightsKept(j)
    BY DEF Kept, RightsKept
  <2>2. StaysVerified(c)'
    BY <1>1, <1>2 DEF StaysVerified, Active, Standing, Deciding
  <2>3. MayEnter(c)'
    BY <1>2 DEF MayEnter, Deciding
  <2> QED
    BY <1>1, <1>2, <2>1, <2>2, <2>3, StandingStep
<1> QED
  BY <1>4, <1>5, <1>6 DEF AccountsInv

-----------------------------------------------------------------------------
\* Steps that write.

\* What Write leaves in the table.
LEMMA WriteEffect ==
  ASSUME AccountsInv, NEW c \in Client, at[c] \in {"arm", "own", "rights"}, Write(c)
  PROVE  LET id == row_id[c]  u == Updated(rows[id], was[c], now[c]) IN
         /\ id \in DOMAIN rows /\ u \in User
         /\ rows' \in Seq(User) /\ DOMAIN rows' = DOMAIN rows /\ Len(rows') = Len(rows)
         /\ rows'[id] = u
         /\ \A j \in DOMAIN rows \ {id} : rows'[j] = rows[j]
         /\ \A j \in DOMAIN rows : Kept(j)
         /\ at[c] # "rights" => u.role = rows[id].role /\ u.is_active = rows[id].is_active
         /\ \A s \in Secrets(u) : s \in Secrets(rows[id]) \/ s \in Pending(c)
<1> DEFINE id == row_id[c]
<1> DEFINE u == Updated(rows[id], was[c], now[c])
<1>1. HeldInv /\ TypeOK /\ Held(c) /\ Change(at[c], was[c], now[c]) /\ Active(c)
  BY DEF AccountsInv, HeldInv, Active, Held
<1>2. /\ id \in DOMAIN rows /\ id \in 1..Len(rows) /\ rows \in Seq(User)
      /\ rows[id] \in User /\ was[c] \in User /\ now[c] \in User
      /\ DOMAIN rows = 1..Len(rows)
  BY <1>1, RowsType DEF Held, Change, TypeOK
<1>3. u \in User
  BY <1>2, UpdatedColumns
<1>4. rows' = [rows EXCEPT ![id] = u]
  BY DEF Write
<1> HIDE DEF u, id
<1>5. /\ rows' \in Seq(User) /\ Len(rows') = Len(rows)
      /\ \A j \in 1..Len(rows) : rows'[j] = IF j = id THEN u ELSE rows[j]
  BY <1>2, <1>3, <1>4, ExceptSeq
<1>6. DOMAIN rows' = DOMAIN rows
  BY <1>2, <1>5, LenProperties
<1>7. /\ u.email = rows[id].email
      /\ rows[id].email_verified = "yes" => u.email_verified = "yes"
      /\ at[c] # "rights" => u.role = rows[id].role /\ u.is_active = rows[id].is_active
  BY <1>1, <1>2, UpdatedColumns DEF u, Change, SameRights, Deciding
<1>8. \A s \in Secrets(u) : s \in Secrets(rows[id]) \/ s \in Pending(c)
  <2>1. BringsNew(at[c], was[c], now[c]) /\ Pending(c) = Brought(at[c], was[c], now[c])
    BY <1>1 DEF AccountsInv, SecretsInv, Pending
  <2> QED
    BY <1>2, <2>1, UpdatedSecrets DEF u
<1>9. \A j \in DOMAIN rows : Kept(j)
  BY <1>2, <1>5, <1>6, <1>7 DEF Kept
<1> QED
  BY <1>2, <1>3, <1>5, <1>6, <1>7, <1>8, <1>9 DEF u, id

\* A commit, of a person about their account or of the console.
LEMMA Writing ==
  ASSUME AccountsInv, NEW c \in Client, at[c] \in {"arm", "own", "rights"},
         Write(c), Ends(c),
         outdated' = IF at[c] = "rights" THEN outdated \cup ClientsOf(row_id[c])
                     ELSE outdated,
         UNCHANGED <<session, issued, expired, contested, requests_left>>
  PROVE  AccountsInv'
<1> DEFINE id == row_id[c]
<1> DEFINE u == Updated(rows[id], was[c], now[c])
<1>1. HeldInv /\ TypeOK /\ SecretsInv /\ Standing /\ SessionsAreCurrent
  BY DEF AccountsInv, HeldInv
<1>2. /\ id \in DOMAIN rows /\ u \in User
      /\ rows' \in Seq(User) /\ DOMAIN rows' = DOMAIN rows /\ Len(rows') = Len(rows)
      /\ rows'[id] = u
      /\ \A j \in DOMAIN rows \ {id} : rows'[j] = rows[j]
      /\ \A j \in DOMAIN rows : Kept(j)
      /\ at[c] # "rights" => u.role = rows[id].role /\ u.is_active = rows[id].is_active
      /\ \A s \in Secrets(u) : s \in Secrets(rows[id]) \/ s \in Pending(c)
  BY WriteEffect
<1>3. retired' = retired \cup (Secrets(rows[id]) \ Secrets(u))
  BY DEF Write
<1> HIDE DEF u, id
<1>4. /\ \A d \in Client :
             /\ at'[d] = IF d = c THEN "idle" ELSE at[d]
             /\ row_id'[d] = IF d = c THEN 0 ELSE row_id[d]
             /\ was'[d] = IF d = c THEN "none" ELSE was[d]
             /\ now'[d] = IF d = c THEN "none" ELSE now[d]
      /\ DOMAIN was' = Client /\ DOMAIN now' = Client
      /\ at' \in [Client -> Place]
  BY <1>1, OneRequestMoves DEF Ends, Place
<1>5. HeldInv'
  <2>1. \A d \in Client : Active(d)' => Held(d)'
    BY <1>1, <1>2, <1>4 DEF HeldInv, Held, Active
  <2>2. row_id' \in [Client -> 0..Len(rows')]
    BY <1>1, <1>2, <1>4, RowsType DEF TypeOK, Ends, Hold
  <2>3. \A d \in Client : at'[d] # "idle" => was'[d] \in User /\ now'[d] \in User
    BY <2>1 DEF Active, Held, Change
  <2>4. retired' \subseteq 1..issued
    BY <1>1, <1>2, <1>3 DEF TypeOK, SecretsInv
  <2>5. outdated' \subseteq Client
    BY <1>1 DEF TypeOK, ClientsOf
  <2> QED
    BY <1>1, <1>2, <1>4, <2>1, <2>2, <2>3, <2>4, <2>5 DEF HeldInv, TypeOK
<1>6. SecretsInv'
  <2>1. Pending(c)' = {} /\ ~Active(c)'
    BY <1>4 DEF Pending, Active
  <2>2. issued \in Nat /\ retired \subseteq 1..issued
    BY <1>1 DEF TypeOK
  <2>3. \A s \in retired' : s \in retired
            \/ (id \in DOMAIN rows /\ s \in Secrets(rows[id])
                /\ s \notin Secrets(rows'[id]))
    BY <1>2, <1>3
  <2> QED
    BY <1>1, <1>2, <1>4, <2>1, <2>2, <2>3, SecretsStep
<1>7. Standing' /\ SessionsAreCurrent'
  <2>1. \A j \in DOMAIN rows : RightsKept(j)
    BY <1>2 DEF RightsKept, id
  <2>2. StaysVerified(c)' /\ MayEnter(c)'
    BY <1>4 DEF StaysVerified, Active, MayEnter
  <2>3. Current(c)'
    <3>1. ASSUME c \notin outdated', session[c] # LoggedOut
          PROVE  LET row == rows'[session[c].id]
                 IN  /\ row.is_active = "yes" /\ row.role = session[c].role
                     /\ row.email = NoEmail \/ row.email_verified = "yes"
      <4>1. session[c].id \in DOMAIN rows /\ c \in ClientsOf(session[c].id)
        BY <3>1, <1>1 DEF TypeOK, ClientsOf
      <4>2. Current(c) /\ c \notin outdated
        BY <3>1, <1>1 DEF SessionsAreCurrent, Current
      <4> QED
        BY <3>1, <4>1, <4>2, <1>2, <2>1 DEF Kept, RightsKept, Current
    <3> QED
      BY <3>1 DEF Current
  <2>4. \A d \in outdated : d \in outdated'
    OBVIOUS
  <2> QED
    BY <1>1, <1>2, <1>4, <2>1, <2>2, <2>3, <2>4, StandingStep
<1> QED
  BY <1>5, <1>6, <1>7 DEF AccountsInv

\* A registration begins: its row is in no table yet.
LEMMA Registering ==
  ASSUME AccountsInv, NEW c \in Client, NEW username \in Username, NEW email \in Email,
         Register(c, username, email)
  PROVE  AccountsInv'
<1> DEFINE new == NewUser(username, email, "user", issued + 1)
<1>1. HeldInv /\ TypeOK /\ SecretsInv /\ Standing /\ SessionsAreCurrent
  BY DEF AccountsInv, HeldInv
<1>2. /\ rows' = rows /\ session' = session /\ retired' = retired
      /\ expired' = expired /\ outdated' = outdated /\ contested' = contested
      /\ at[c] = "idle" /\ requests_left' = requests_left - 1 /\ requests_left > 0
      /\ issued' = issued + 1 /\ Goes(c, "insert") /\ Hold(c, 0, new, new)
  BY DEF Register, Starts, NoDecision
<1>3. issued \in Nat /\ issued' \in Nat
      /\ retired \subseteq 1..issued /\ expired \subseteq 1..issued
      /\ 1..issued \subseteq 1..issued' /\ issued + 1 \in 1..issued'
  BY <1>1, <1>2 DEF TypeOK
<1>4. new \in User /\ Change("insert", new, new) /\ Secrets(new) = {issued + 1}
  <2>1. new \in User
    BY <1>3, NewUserType DEF Role
  <2>2. /\ new.email_verified = "no" /\ new.password = issued + 1
        /\ new.verification_token = 0 /\ new.reset_token = 0
    BY DEF NewUser
  <2> HIDE DEF new
  <2>3. Change("insert", new, new)
    BY <2>1, <2>2 DEF Change, SameRights, SameSecrets
  <2>4. issued + 1 # 0
    BY <1>3
  <2>5. Secrets(new) = {issued + 1}
    BY <2>2, <2>4 DEF Secrets
  <2> QED
    BY <2>1, <2>3, <2>5
<1> HIDE DEF new
<1>5. /\ \A d \in Client :
             /\ at'[d] = IF d = c THEN "insert" ELSE at[d]
             /\ row_id'[d] = IF d = c THEN 0 ELSE row_id[d]
             /\ was'[d] = IF d = c THEN new ELSE was[d]
             /\ now'[d] = IF d = c THEN new ELSE now[d]
      /\ DOMAIN was' = Client /\ DOMAIN now' = Client
      /\ at' \in [Client -> Place]
  BY <1>1, <1>2, OneRequestMoves DEF Place
<1>6. HeldInv'
  <2>1. \A d \in Client : Active(d)' => Held(d)'
    BY <1>1, <1>2, <1>4, <1>5 DEF HeldInv, Held, Active
  <2>2. row_id' \in [Client -> 0..Len(rows)]
    BY <1>1, <1>2, RowsType DEF TypeOK, Hold
  <2>3. requests_left' \in 0..MaxRequests
    BY <1>1, <1>2, AccountsAssumption DEF TypeOK
  <2>4. \A d \in Client : at'[d] # "idle" => was'[d] \in User /\ now'[d] \in User
    BY <2>1 DEF Active, Held, Change
  <2>5. retired' \subseteq 1..issued' /\ expired' \subseteq 1..issued'
    BY <1>2, <1>3
  <2> QED
    BY <1>1, <1>2, <1>3, <1>5, <2>1, <2>2, <2>3, <2>4, <2>5 DEF HeldInv, TypeOK
<1>7. SecretsInv'
  <2>1. Pending(c)' = {issued + 1}
    BY <1>4, <1>5 DEF Pending, Active, Brought
  <2>2. Secrets(was'[c]) \subseteq 1..issued' /\ BringsNew(at'[c], was'[c], now'[c])
    BY <1>3, <1>4, <1>5 DEF BringsNew
  <2> QED
    BY <1>1, <1>2, <1>3, <1>5, <2>1, <2>2, SecretsStep
<1>8. Standing' /\ SessionsAreCurrent'
  <2>1. \A j \in DOMAIN rows : Kept(j) /\ RightsKept(j)
    BY <1>2 DEF Kept, RightsKept
  <2>2. StaysVerified(c)' /\ MayEnter(c)'
    BY <1>5 DEF StaysVerified, MayEnter
  <2>3. Current(c)'
    BY <1>1, <1>2 DEF Current, SessionsAreCurrent
  <2> QED
    BY <1>1, <1>2, <1>5, <2>1, <2>2, <2>3, StandingStep
<1> QED
  BY <1>6, <1>7, <1>8 DEF AccountsInv

\* The row is in the table, and its link is about to be.
LEMMA Inserting ==
  ASSUME AccountsInv, NEW c \in Client, Insert(c)
  PROVE  AccountsInv'
<1> DEFINE id == Len(rows) + 1
<1> DEFINE armed == [now[c] EXCEPT !.verification_token = issued + 1]
<1>1. HeldInv /\ TypeOK /\ SecretsInv /\ Standing /\ SessionsAreCurrent
  BY DEF AccountsInv, HeldInv
<1>2. /\ at[c] = "insert" /\ rows' = Append(rows, now[c]) /\ issued' = issued + 1
      /\ Goes(c, "arm")
      /\ UNCHANGED <<session, was, expired, retired, outdated, contested, requests_left>>
  BY DEF Insert, history
<1>3. issued \in Nat /\ issued' \in Nat
      /\ retired \subseteq 1..issued /\ expired \subseteq 1..issued
      /\ 1..issued \subseteq 1..issued' /\ issued + 1 \in 1..issued' /\ issued + 1 # 0
      /\ issued + 1 \notin 1..issued
  BY <1>1, <1>2 DEF TypeOK
<1>4. was[c] \in User /\ now[c] = was[c] /\ Active(c)
  BY <1>1, <1>2 DEF HeldInv, Held, Change, Active
<1>5. /\ now' = [now EXCEPT ![c] = armed] /\ row_id' = [row_id EXCEPT ![c] = id]
      /\ was' = was
  BY DEF Insert
<1>6. /\ armed \in User /\ armed.verification_token = issued + 1
      /\ armed.email = now[c].email /\ armed.role = now[c].role
      /\ armed.is_active = now[c].is_active
      /\ armed.email_verified = now[c].email_verified
      /\ armed.password = now[c].password /\ armed.reset_token = now[c].reset_token
  BY <1>3, <1>4 DEF User
<1>7. /\ Len(rows) \in Nat /\ DOMAIN rows = 1..Len(rows) /\ id = Len(rows) + 1
      /\ rows' \in Seq(User) /\ Len(rows') = id /\ DOMAIN rows' = 1..id
      /\ rows'[id] = now[c] /\ id \notin DOMAIN rows
      /\ \A j \in 1..Len(rows) : rows'[j] = rows[j]
  <2>1. rows \in Seq(User) /\ now[c] \in User
    BY <1>1, <1>4 DEF TypeOK
  <2>2. /\ Append(rows, now[c]) \in Seq(User)
        /\ Len(Append(rows, now[c])) = Len(rows) + 1
        /\ \A j \in 1..Len(rows) : Append(rows, now[c])[j] = rows[j]
        /\ Append(rows, now[c])[Len(rows) + 1] = now[c]
    BY <2>1, AppendProperties
  <2> QED
    BY <1>2, <2>1, <2>2, LenProperties
<1> HIDE DEF id, armed
<1>8. /\ \A d \in Client :
             /\ at'[d] = IF d = c THEN "arm" ELSE at[d]
             /\ row_id'[d] = IF d = c THEN id ELSE row_id[d]
             /\ was'[d] = was[d]
             /\ now'[d] = IF d = c THEN armed ELSE now[d]
      /\ DOMAIN was' = Client /\ DOMAIN now' = Client
      /\ at' \in [Client -> Place]
  BY <1>1, <1>2, <1>5 DEF HeldInv, TypeOK, Goes, Place
<1>9. HeldInv'
  <2>1. Change("arm", was[c], armed)
    BY <1>3, <1>4, <1>6 DEF Change, SameRights, Deciding
  <2>2. \A d \in Client : Active(d)' => Held(d)'
    BY <1>1, <1>2, <1>7, <1>8, <2>1 DEF HeldInv, Held, Active
  <2>3. row_id' \in [Client -> 0..Len(rows')]
    <3>1. \A d \in Client : row_id[d] \in 0..Len(rows')
      BY <1>1, <1>7 DEF TypeOK
    <3>2. id \in 0..Len(rows')
      BY <1>7
    <3> QED
      BY <1>1, <1>5, <3>1, <3>2 DEF TypeOK
  <2>4. \A d \in Client : at'[d] # "idle" => was'[d] \in User /\ now'[d] \in User
    BY <2>2 DEF Active, Held, Change
  <2>5. retired' \subseteq 1..issued' /\ expired' \subseteq 1..issued'
        /\ DOMAIN rows \subseteq DOMAIN rows'
    BY <1>1, <1>2, <1>3, <1>7 DEF TypeOK
  <2>6. session' \in [Client -> [id : DOMAIN rows', role : Role] \cup {LoggedOut}]
    BY <1>1, <1>2, <2>5 DEF TypeOK
  <2> QED
    BY <1>1, <1>2, <1>3, <1>7, <1>8, <2>2, <2>3, <2>4, <2>5, <2>6 DEF HeldInv, TypeOK
<1>10. SecretsInv'
  <2>1. Secrets(armed) \subseteq Secrets(now[c]) \cup {issued + 1}
    BY <1>6 DEF Secrets
  <2>2. Secrets(was[c]) \subseteq 1..issued
    BY <1>1, <1>4 DEF SecretsInv
  <2>3. \A s \in Pending(c)' : s = issued + 1
    BY <1>4, <1>8, <2>1 DEF Pending, Active, Brought
  <2>4. BringsNew("arm", was[c], armed)
    <3>1. issued + 1 \in Secrets(armed)
      BY <1>3, <1>6 DEF Secrets
    <3>2. issued + 1 \in Brought("arm", was[c], armed)
      BY <1>3, <2>2, <3>1 DEF Brought
    <3> QED
      BY <1>4, <1>6, <3>2 DEF BringsNew
  <2>5. \A s \in Secrets(rows'[id]) : s \in Pending(c)
    BY <1>2, <1>4, <1>7 DEF Pending, Brought
  <2>6. \A j \in DOMAIN rows' \ {id} : j \in DOMAIN rows /\ rows'[j] = rows[j]
    BY <1>7
  <2>7. Secrets(was'[c]) \subseteq 1..issued' /\ BringsNew(at'[c], was'[c], now'[c])
    BY <1>3, <1>8, <2>2, <2>4
  <2> QED
    BY <1>1, <1>2, <1>3, <1>7, <1>8, <2>3, <2>5, <2>6, <2>7, SecretsStep
<1>11. Standing' /\ SessionsAreCurrent'
  <2>1. \A j \in DOMAIN rows : Kept(j) /\ RightsKept(j)
    BY <1>7 DEF Kept, RightsKept
  <2>2. StaysVerified(c)'
    BY <1>4, <1>7, <1>8 DEF StaysVerified
  <2>3. MayEnter(c)'
    BY <1>8 DEF MayEnter
  <2>4. Current(c)'
    BY <1>1, <1>2, <1>7 DEF Current, SessionsAreCurrent, TypeOK
  <2> QED
    BY <1>1, <1>2, <1>8, <2>1, <2>2, <2>3, <2>4, StandingStep
<1> QED
  BY <1>9, <1>10, <1>11 DEF AccountsInv

-----------------------------------------------------------------------------
\* Every action keeps the invariant.

\* A change whose columns of secrets stay, are cleared or hold the number n + 1.
LEMMA NewSecret ==
  ASSUME NEW row, NEW new, NEW place, place # "insert", NEW n \in Nat,
         Secrets(row) \subseteq 1..n,
         new.password \in {row.password, 0, n + 1},
         new.verification_token \in {row.verification_token, 0, n + 1},
         new.reset_token \in {row.reset_token, 0, n + 1}
  PROVE  BringsNew(place, row, new) /\ \A s \in Brought(place, row, new) : s = n + 1
<1>1. n + 1 # 0 /\ n + 1 \notin Secrets(row)
  OBVIOUS
<1>2. \A s \in Secrets(new) \ Secrets(row) : s = n + 1
  BY DEF Secrets
<1>3. /\ new.password \in {row.password, 0} \cup Brought(place, row, new)
      /\ new.verification_token \in {row.verification_token, 0} \cup Brought(place, row, new)
      /\ new.reset_token \in {row.reset_token, 0} \cup Brought(place, row, new)
  BY <1>1 DEF Brought, Secrets
<1> QED
  BY <1>2, <1>3 DEF BringsNew, Brought

\* A change that holds no new one.
LEMMA NoNewSecret ==
  ASSUME NEW row, NEW new, NEW place, place # "insert",
         new.password = row.password,
         new.verification_token \in {row.verification_token, 0},
         new.reset_token = row.reset_token
  PROVE  BringsNew(place, row, new) /\ Brought(place, row, new) = {}
<1>1. Secrets(new) \subseteq Secrets(row)
  BY DEF Secrets
<1> QED
  BY <1>1 DEF BringsNew, Brought

LEMMA RowFacts ==
  ASSUME AccountsInv, NEW i \in DOMAIN rows
  PROVE  rows[i] \in User /\ Secrets(rows[i]) \subseteq 1..issued /\ issued \in Nat
         /\ issued + 1 \in Nat /\ issued + 1 # 0 /\ contested \in BOOLEAN
BY RowsType DEF AccountsInv, HeldInv, SecretsInv, TypeOK

\* What a person does about their own account.
LEMMA OwnRequests ==
  ASSUME AccountsInv, NEW c \in Client, NEW i \in DOMAIN rows,
         \/ Login(c, i) \/ VerifyEmail(c, i) \/ ForgotPassword(c, i)
         \/ ResetPassword(c, i) \/ ChangePassword(c, i)
  PROVE  AccountsInv'
<1>0. /\ rows[i] \in User /\ Secrets(rows[i]) \subseteq 1..issued /\ issued \in Nat
      /\ issued + 1 \in Nat /\ issued + 1 # 0 /\ contested \in BOOLEAN
  BY RowFacts
<1>1. CASE Login(c, i)
  <2>1. Change("enter", rows[i], rows[i])
    BY <1>0 DEF Change, SameRights, SameSecrets
  <2>2. BringsNew("enter", rows[i], rows[i]) /\ Brought("enter", rows[i], rows[i]) = {}
    BY NoNewSecret
  <2>3. "enter" \in Place \ {"idle", "insert", "arm"}
    BY DEF Place
  <2> QED
    BY <1>0, <1>1, <2>1, <2>2, <2>3, Loading DEF Login
<1>2. CASE VerifyEmail(c, i)
  <2> DEFINE new == [rows[i] EXCEPT !.email_verified = "yes", !.verification_token = 0]
  <2>1. Change("own", rows[i], new)
    BY <1>0 DEF Change, SameRights, User, Deciding
  <2>2. BringsNew("own", rows[i], new) /\ Brought("own", rows[i], new) = {}
    <3>1. /\ new.password = rows[i].password /\ new.verification_token = 0
          /\ new.reset_token = rows[i].reset_token
      BY <1>0 DEF User
    <3> HIDE DEF new
    <3> QED
      BY <3>1, NoNewSecret
  <2>3. Loads(c, i, "own", new) /\ issued' = issued /\ UNCHANGED <<outdated, contested>>
    BY <1>2 DEF VerifyEmail, NoDecision
  <2>4. "own" \in Place \ {"idle", "insert", "arm"}
    BY DEF Place
  <2> HIDE DEF new
  <2> QED
    BY <1>0, <2>1, <2>2, <2>3, <2>4, Loading
<1>3. CASE ForgotPassword(c, i)
  <2> DEFINE new == [rows[i] EXCEPT !.reset_token = issued + 1]
  <2>1. Change("own", rows[i], new)
    BY <1>0 DEF Change, SameRights, User, Deciding
  <2>2. BringsNew("own", rows[i], new)
        /\ \A s \in Brought("own", rows[i], new) : s = issued + 1
    <3>1. /\ new.password = rows[i].password
          /\ new.verification_token = rows[i].verification_token
          /\ new.reset_token = issued + 1
      BY <1>0 DEF User
    <3> HIDE DEF new
    <3> QED
      BY <1>0, <3>1, NewSecret
  <2>3. Loads(c, i, "own", new) /\ issued' = issued + 1 /\ UNCHANGED <<outdated, contested>>
    BY <1>3 DEF ForgotPassword, NoDecision
  <2>4. "own" \in Place \ {"idle", "insert", "arm"}
    BY DEF Place
  <2> HIDE DEF new
  <2> QED
    BY <1>0, <2>1, <2>2, <2>3, <2>4, Loading
<1>4. CASE ResetPassword(c, i)
  <2> DEFINE new == [rows[i] EXCEPT !.password = issued + 1, !.reset_token = 0]
  <2>1. Change("own", rows[i], new)
    BY <1>0 DEF Change, SameRights, User, Deciding
  <2>2. BringsNew("own", rows[i], new)
        /\ \A s \in Brought("own", rows[i], new) : s = issued + 1
    <3>1. /\ new.password = issued + 1
          /\ new.verification_token = rows[i].verification_token
          /\ new.reset_token = 0
      BY <1>0 DEF User
    <3> HIDE DEF new
    <3> QED
      BY <1>0, <3>1, NewSecret
  <2>3. Loads(c, i, "own", new) /\ issued' = issued + 1 /\ UNCHANGED <<outdated, contested>>
    BY <1>4 DEF ResetPassword, NoDecision
  <2>4. "own" \in Place \ {"idle", "insert", "arm"}
    BY DEF Place
  <2> HIDE DEF new
  <2> QED
    BY <1>0, <2>1, <2>2, <2>3, <2>4, Loading
<1>5. CASE ChangePassword(c, i)
  <2> DEFINE new == [rows[i] EXCEPT !.password = issued + 1]
  <2>1. Change("own", rows[i], new)
    BY <1>0 DEF Change, SameRights, User, Deciding
  <2>2. BringsNew("own", rows[i], new)
        /\ \A s \in Brought("own", rows[i], new) : s = issued + 1
    <3>1. /\ new.password = issued + 1
          /\ new.verification_token = rows[i].verification_token
          /\ new.reset_token = rows[i].reset_token
      BY <1>0 DEF User
    <3> HIDE DEF new
    <3> QED
      BY <1>0, <3>1, NewSecret
  <2>3. Loads(c, i, "own", new) /\ issued' = issued + 1 /\ UNCHANGED <<outdated, contested>>
    BY <1>5 DEF ChangePassword, NoDecision
  <2>4. "own" \in Place \ {"idle", "insert", "arm"}
    BY DEF Place
  <2> HIDE DEF new
  <2> QED
    BY <1>0, <2>1, <2>2, <2>3, <2>4, Loading
<1> QED
  BY <1>1, <1>2, <1>3, <1>4, <1>5

\* What an administrator decides: only the rights of the row are to change.
RightsOnly(row, new) ==
    /\ new \in User /\ SameSecrets(row, new)
    /\ new.email = row.email /\ new.email_verified = row.email_verified

LEMMA ConsoleChange ==
  ASSUME AccountsInv, NEW c \in Client, NEW i \in DOMAIN rows,
         \/ SuspendUser(c, i) \/ ActivateUser(c, i)
         \/ \E role \in Role : ChangeRole(c, i, role)
  PROVE  \E place \in Deciding, new \in User :
             /\ Decides(c, i, place, new) /\ RightsOnly(rows[i], new)
             /\ place = "rights" => StaysAdmin(rows[i], new)
<1>0. rows[i] \in User
  BY RowFacts
<1>1. CASE SuspendUser(c, i)
  <2>1. Suspended(rows[i]) \in User /\ RightsOnly(rows[i], Suspended(rows[i]))
    BY <1>0 DEF Suspended, User, RightsOnly, SameSecrets
  <2>2. rows[i].role # "admin" => StaysAdmin(rows[i], Suspended(rows[i]))
    BY DEF StaysAdmin
  <2> QED
    BY <1>1, <2>1, <2>2 DEF SuspendUser, Deciding
<1>2. CASE ActivateUser(c, i)
  <2>1. /\ [rows[i] EXCEPT !.is_active = "yes"] \in User
        /\ RightsOnly(rows[i], [rows[i] EXCEPT !.is_active = "yes"])
        /\ StaysAdmin(rows[i], [rows[i] EXCEPT !.is_active = "yes"])
    BY <1>0 DEF User, RightsOnly, SameSecrets, StaysAdmin
  <2> QED
    BY <1>2, <2>1 DEF ActivateUser, Deciding
<1>3. ASSUME NEW role \in Role, ChangeRole(c, i, role)
      PROVE  \E place \in Deciding, new \in User :
                 /\ Decides(c, i, place, new) /\ RightsOnly(rows[i], new)
                 /\ place = "rights" => StaysAdmin(rows[i], new)
  <2>1. /\ [rows[i] EXCEPT !.role = role] \in User
        /\ RightsOnly(rows[i], [rows[i] EXCEPT !.role = role])
        /\ \/ rows[i].role = "admin" /\ role = "user"
           \/ StaysAdmin(rows[i], [rows[i] EXCEPT !.role = role])
    BY <1>0 DEF User, Role, RightsOnly, SameSecrets, StaysAdmin
  <2> QED
    BY <1>3, <2>1 DEF ChangeRole, Deciding
<1> QED
  BY <1>1, <1>2, <1>3

LEMMA Console ==
  ASSUME AccountsInv, NEW c \in Client, NEW i \in DOMAIN rows,
         \/ SuspendUser(c, i) \/ ActivateUser(c, i)
         \/ \E role \in Role : ChangeRole(c, i, role)
  PROVE  AccountsInv'
<1>1. PICK place \in Deciding, new \in User :
          Decides(c, i, place, new) /\ RightsOnly(rows[i], new)
  BY ConsoleChange
<1>2. rows[i] \in User /\ contested \in BOOLEAN
  BY RowFacts
<1>3. place \in Place \ {"idle", "insert", "arm"} /\ place # "enter" /\ place # "insert"
  BY DEF Place, Deciding
<1>4. Change(place, rows[i], new)
  BY <1>1, <1>2, <1>3 DEF Change, RightsOnly, SameSecrets, Deciding
<1>5. BringsNew(place, rows[i], new) /\ Brought(place, rows[i], new) = {}
  BY <1>1, <1>3, NoNewSecret DEF RightsOnly, SameSecrets
<1>6. Loads(c, i, place, new) /\ issued' = issued /\ outdated' = outdated
  BY <1>1 DEF Decides
<1>7. contested' \in BOOLEAN
  BY <1>1 DEF Decides
<1> QED
  BY <1>3, <1>4, <1>5, <1>6, <1>7, Loading

LEMMA EnterKeeps ==
  ASSUME AccountsInv, NEW c \in Client, Enter(c)
  PROVE  AccountsInv'
<1> DEFINE cookie == [id |-> row_id[c], role |-> was[c].role]
<1>1. HeldInv /\ TypeOK /\ Held(c) /\ row_id[c] \in DOMAIN rows /\ was[c] \in User
      /\ MayEnter(c) /\ at[c] = "enter"
  BY DEF AccountsInv, HeldInv, Held, Change, Active, Standing, Enter
<1>2. session' = [session EXCEPT ![c] = cookie] /\ rows' = rows /\ outdated' = outdated
  BY DEF Enter, history
<1>3. cookie \in [id : DOMAIN rows, role : Role] /\ cookie.id = row_id[c]
      /\ cookie.role = was[c].role
  BY <1>1 DEF User
<1> HIDE DEF cookie
<1>4. session' \in [Client -> [id : DOMAIN rows, role : Role] \cup {LoggedOut}]
      /\ session'[c] = cookie /\ \A d \in Client \ {c} : session'[d] = session[d]
  BY <1>1, <1>2, <1>3 DEF TypeOK
<1>5. Current(c)'
  <2>1. c \notin outdated =>
            /\ MayLogIn(rows[row_id[c]]) /\ rows[row_id[c]].role = was[c].role
    BY <1>1 DEF MayEnter
  <2> QED
    BY <1>2, <1>3, <1>4, <2>1 DEF Current, MayLogIn
<1>6. /\ Goes(c, "idle") /\ Hold(c, 0, "none", "none")
      /\ UNCHANGED <<rows, issued, expired, retired, outdated, contested, requests_left>>
  BY DEF Enter, Ends, history
<1> QED
  BY <1>1, <1>4, <1>5, <1>6, NotWriting

LEMMA EndsKeeps ==
  ASSUME AccountsInv, NEW c \in Client, InsertClashes(c) \/ RequestDies(c)
  PROVE  AccountsInv'
<1>1. /\ at[c] # "idle" /\ Goes(c, "idle") /\ Hold(c, 0, "none", "none")
      /\ UNCHANGED <<rows, session, issued, expired, retired, outdated, contested,
                     requests_left>>
  BY DEF InsertClashes, RequestDies, Ends, history
<1>2. session' \in [Client -> [id : DOMAIN rows, role : Role] \cup {LoggedOut}]
      /\ Current(c)'
  BY <1>1 DEF AccountsInv, HeldInv, TypeOK, SessionsAreCurrent, Current
<1> QED
  BY <1>1, <1>2, NotWriting

LEMMA CountKeeps ==
  ASSUME AccountsInv, NEW c \in Client, CountAdmins(c)
  PROVE  AccountsInv'
<1>1. /\ at[c] = "count"
      /\ UNCHANGED <<rows, session, issued, expired, retired, outdated, contested,
                     requests_left>>
  BY DEF CountAdmins, history
<1>2. session' \in [Client -> [id : DOMAIN rows, role : Role] \cup {LoggedOut}]
      /\ Current(c)'
  BY <1>1 DEF AccountsInv, HeldInv, TypeOK, SessionsAreCurrent, Current
<1>3. CASE Ends(c)
  BY <1>1, <1>2, <1>3, NotWriting DEF Ends
<1>4. CASE Goes(c, "rights") /\ UNCHANGED <<row_id, was, now>>
  <2>1. row_id \in [Client -> 0..Len(rows)] /\ DOMAIN was = Client /\ DOMAIN now = Client
    BY DEF AccountsInv, HeldInv, TypeOK
  <2>2. /\ \A d \in Client :
               /\ at'[d] = IF d = c THEN "rights" ELSE at[d]
               /\ row_id'[d] = row_id[d] /\ was'[d] = was[d] /\ now'[d] = now[d]
        /\ at' \in [Client -> Place]
    BY <1>4 DEF AccountsInv, HeldInv, TypeOK, Goes, Place, Deciding
  <2>3. HeldInv'
    <3>1. \A d \in Client : Active(d)' => Held(d)'
      BY <1>1, <2>2 DEF AccountsInv, HeldInv, Held, Active, Change, Deciding
    <3>2. \A d \in Client : at'[d] # "idle" => was'[d] \in User /\ now'[d] \in User
      BY <3>1 DEF Active, Held, Change
    <3> QED
      BY <1>1, <1>4, <2>1, <2>2, <3>1, <3>2 DEF AccountsInv, HeldInv, TypeOK
  <2>4. \A d \in Client : Pending(d)' = Pending(d) /\ Active(d)' = Active(d)
    BY <1>1, <2>2 DEF Pending, Active, Brought
  <2>5. SecretsInv'
    <3>1. \A d \in Client : Active(d)' => BringsNew(at'[d], was'[d], now'[d])
      BY <1>1, <2>2, <2>4 DEF AccountsInv, SecretsInv, BringsNew, Active, Brought
    <3> QED
      BY <1>1, <2>2, <2>4, <3>1 DEF AccountsInv, SecretsInv
  <2>6. Standing'
    BY <1>1, <2>2 DEF AccountsInv, Standing, StaysVerified, MayEnter, Active
  <2>7. SessionsAreCurrent'
    BY <1>1 DEF AccountsInv, SessionsAreCurrent
  <2> QED
    BY <2>3, <2>5, <2>6, <2>7 DEF AccountsInv
<1> QED
  BY <1>3, <1>4 DEF CountAdmins

LEMMA LogoutKeeps ==
  ASSUME AccountsInv, NEW c \in Client, Logout(c)
  PROVE  AccountsInv'
<1>1. session' = [session EXCEPT ![c] = LoggedOut]
      /\ UNCHANGED <<rows, at, row_id, was, now, issued, expired, retired, outdated,
                     contested, requests_left>>
  BY DEF Logout, request, history
<1>2. \A d \in Client : session'[d] = IF d = c THEN LoggedOut ELSE session[d]
  BY <1>1 DEF AccountsInv, HeldInv, TypeOK
<1>3. HeldInv'
  BY <1>1 DEF AccountsInv, HeldInv, TypeOK, Held, Active
<1>4. SecretsInv'
  BY <1>1 DEF AccountsInv, SecretsInv, Pending, Active
<1>5. Standing'
  BY <1>1 DEF AccountsInv, Standing, StaysVerified, MayEnter, Active
<1>6. SessionsAreCurrent'
  BY <1>1, <1>2 DEF AccountsInv, SessionsAreCurrent
<1> QED
  BY <1>3, <1>4, <1>5, <1>6 DEF AccountsInv

LEMMA WritersKeep ==
  ASSUME AccountsInv, NEW c \in Client, Arm(c) \/ Commit(c)
  PROVE  AccountsInv'
<1>1. CASE Arm(c)
  BY <1>1, Writing DEF Arm, history
<1>2. CASE Commit(c)
  BY <1>2, Writing DEF Commit
<1> QED
  BY <1>1, <1>2

LEMMA StutterKeeps ==
  ASSUME AccountsInv, UNCHANGED vars
  PROVE  AccountsInv'
<1>1. UNCHANGED <<rows, session, at, row_id, was, now, issued, expired, retired,
                  outdated, contested, requests_left>>
  BY DEF vars, request, history
<1>2. HeldInv'
  BY <1>1 DEF AccountsInv, HeldInv, TypeOK, Held, Active
<1>3. SecretsInv' /\ Standing' /\ SessionsAreCurrent'
  BY <1>1 DEF AccountsInv, SecretsInv, Pending, Active, Standing, StaysVerified,
              MayEnter, SessionsAreCurrent
<1> QED
  BY <1>2, <1>3 DEF AccountsInv

LEMMA ExpiryKeeps ==
  ASSUME AccountsInv, NEW i \in DOMAIN rows, LinkExpires(i)
  PROVE  AccountsInv'
<1>1. UNCHANGED <<rows, session, at, row_id, was, now, issued, retired, outdated,
                  contested, requests_left>>
  BY DEF LinkExpires, request, history
<1>2. expired' \subseteq 1..issued
  <2>1. PICK token \in {rows[i].verification_token, rows[i].reset_token} \ {0} :
            expired' = expired \cup {token}
    BY DEF LinkExpires
  <2>2. token \in Secrets(rows[i])
    BY DEF Secrets
  <2>3. token \in 1..issued
    BY <2>2 DEF AccountsInv, SecretsInv
  <2> QED
    BY <2>1, <2>3 DEF AccountsInv, HeldInv, TypeOK
<1>3. HeldInv'
  BY <1>1, <1>2 DEF AccountsInv, HeldInv, TypeOK, Held, Active
<1>4. SecretsInv' /\ Standing' /\ SessionsAreCurrent'
  BY <1>1 DEF AccountsInv, SecretsInv, Pending, Active, Standing, StaysVerified,
              MayEnter, SessionsAreCurrent
<1> QED
  BY <1>3, <1>4 DEF AccountsInv

LEMMA AccountsStep == AccountsInv /\ [Next]_vars => AccountsInv'
<1> SUFFICES ASSUME AccountsInv, Next PROVE AccountsInv'
  BY StutterKeeps
<1>1. ASSUME NEW c \in Client, Request(c)
      PROVE  AccountsInv'
  BY <1>1, EnterKeeps, LogoutKeeps, Registering, Inserting, EndsKeeps, WritersKeep,
     OwnRequests, Console, CountKeeps DEF Request
<1> QED
  BY <1>1, ExpiryKeeps DEF Next

LEMMA InitialRows ==
  ASSUME Init
  PROVE  /\ rows \in Seq(User) /\ DOMAIN rows = 1..Len(Seeded) /\ Len(Seeded) \in Nat
         /\ \A i \in DOMAIN rows :
                /\ Secrets(rows[i]) = {i} /\ rows[i].email = NoEmail
                /\ rows[i].role = Seeded[i][2] /\ rows[i].is_active = "yes"
<1>1. DOMAIN Seeded = 1..Len(Seeded) /\ Len(Seeded) \in Nat
      /\ \A i \in 1..Len(Seeded) : Seeded[i] \in Username \X Role
  BY AccountsAssumption, LenProperties
<1>2. ASSUME NEW i \in 1..Len(Seeded)
      PROVE  /\ rows[i] = NewUser(Seeded[i][1], NoEmail, Seeded[i][2], i)
             /\ rows[i] \in User /\ Secrets(rows[i]) = {i}
             /\ rows[i].email = NoEmail /\ rows[i].role = Seeded[i][2]
             /\ rows[i].is_active = "yes"
  <2>1. rows[i] = NewUser(Seeded[i][1], NoEmail, Seeded[i][2], i)
    BY <1>1 DEF Init
  <2>2. Seeded[i][1] \in Username /\ Seeded[i][2] \in Role /\ i \in Nat /\ i # 0
    BY <1>1
  <2>3. rows[i] \in User
    BY <2>1, <2>2, NewUserType
  <2>4. Secrets(rows[i]) = {i}
    BY <2>1, <2>2 DEF NewUser, Secrets
  <2> QED
    BY <2>1, <2>3, <2>4 DEF NewUser
<1>3. rows \in [1..Len(Seeded) -> User]
  <2>1. rows = [i \in 1..Len(Seeded) |-> NewUser(Seeded[i][1], NoEmail, Seeded[i][2], i)]
    BY <1>1 DEF Init
  <2> QED
    BY <1>2, <2>1
<1> QED
  BY <1>1, <1>2, <1>3, SeqDef

LEMMA AccountsStart == Init => AccountsInv
<1> SUFFICES ASSUME Init PROVE AccountsInv
  OBVIOUS
<1>1. /\ rows \in Seq(User) /\ DOMAIN rows = 1..Len(Seeded) /\ Len(Seeded) \in Nat
      /\ \A i \in DOMAIN rows : Secrets(rows[i]) = {i} /\ rows[i].email = NoEmail
  BY InitialRows
<1>2. \A c \in Client : at[c] = "idle" /\ session[c] = LoggedOut
  BY DEF Init
<1>3. HeldInv
  <2>1. Len(rows) \in Nat /\ issued \in Nat /\ requests_left \in 0..MaxRequests
    BY <1>1, LenProperties, AccountsAssumption DEF Init
  <2>2. /\ at \in [Client -> Place] /\ row_id \in [Client -> 0..Len(rows)]
        /\ DOMAIN was = Client /\ DOMAIN now = Client
    BY <2>1 DEF Init, Place
  <2>3. /\ session \in [Client -> [id : DOMAIN rows, role : Role] \cup {LoggedOut}]
        /\ retired \subseteq 1..issued /\ outdated \subseteq Client
        /\ contested \in BOOLEAN /\ expired \subseteq 1..issued
    BY DEF Init
  <2>4. TypeOK
    BY <1>1, <1>2, <2>1, <2>2, <2>3 DEF TypeOK
  <2> QED
    BY <1>2, <2>2, <2>4 DEF HeldInv, Active
<1>4. SecretsInv
  <2>1. \A c \in Client : Pending(c) = {} /\ ~Active(c)
    BY <1>2 DEF Pending, Active
  <2>2. issued = Len(Seeded) /\ retired = {}
    BY DEF Init
  <2> QED
    BY <1>1, <2>1, <2>2 DEF SecretsInv
<1>5. Standing /\ SessionsAreCurrent
  BY <1>2 DEF Standing, StaysVerified, MayEnter, Active, SessionsAreCurrent
<1> QED
  BY <1>3, <1>4, <1>5 DEF AccountsInv

-----------------------------------------------------------------------------
\* The invariants of the run, for every value of the constants.

\* The inductive invariant holds of every state that requests on the accounts,
\* overlapping or dying as they may, can reach.
THEOREM AccountsInvariant == Spec => []AccountsInv
BY AccountsStart, AccountsStep, PTL DEF Spec

\* Every variable of Accounts has its type in every state.
THEOREM AccountsTypes == Spec => []TypeOK
<1>1. AccountsInv => TypeOK
  BY DEF AccountsInv, HeldInv
<1> QED
  BY <1>1, AccountsInvariant, PTL

\* A session is for an account that may log in and has the account's role, until
\* the console changes the account: however the login, the person's own requests
\* and the console interleave.
THEOREM SessionsStayCurrent == Spec => []SessionsAreCurrent
<1>1. AccountsInv => SessionsAreCurrent
  BY DEF AccountsInv
<1> QED
  BY <1>1, AccountsInvariant, PTL

\* A replaced password and a used or replaced link never work again, although
\* requests that loaded the row before may commit after.
THEOREM RetiredSecretsNeverReturn == Spec => []RetiredSecretsStayOut
<1>1. AccountsInv => RetiredSecretsStayOut
  BY DEF AccountsInv, SecretsInv, RetiredSecretsStayOut
<1> QED
  BY <1>1, AccountsInvariant, PTL

-----------------------------------------------------------------------------
\* Who changes rights.

\* The actions that write no row of the table that was there.
LEMMA WhoWrites ==
  ASSUME AccountsInv, NEW c \in Client, Request(c), ~Arm(c), ~Commit(c)
  PROVE  \A i \in DOMAIN rows : i \in DOMAIN rows' /\ rows'[i] = rows[i]
<1>1. CASE Insert(c)
  <2>1. rows' = Append(rows, now[c]) /\ now[c] \in User /\ rows \in Seq(User)
    BY <1>1 DEF Insert, AccountsInv, HeldInv, TypeOK
  <2> QED
    BY <2>1, AppendProperties, LenProperties
<1>2. CASE ~Insert(c)
  <2>1. rows' = rows
    BY <1>2 DEF Request, Enter, Logout, Register, InsertClashes, Login, VerifyEmail,
                ForgotPassword, ResetPassword, ChangePassword, SuspendUser, ActivateUser,
                ChangeRole, Decides, Loads, CountAdmins, RequestDies
  <2> QED
    BY <2>1
<1> QED
  BY <1>1, <1>2

\* Role and suspension change only when a decision of the console on that very
\* account commits: no other request that loaded the row earlier undoes one.
LEMMA RightsStep ==
  ASSUME AccountsInv, NEW c \in Client, Request(c), NEW i \in DOMAIN rows,
         rows'[i].role # rows[i].role \/ rows'[i].is_active # rows[i].is_active
  PROVE  at[c] = "rights" /\ row_id[c] = i /\ Commit(c)
<1>1. CASE Arm(c)
  <2>1. at[c] = "arm" /\ Write(c)
    BY <1>1 DEF Arm
  <2> QED
    BY <2>1, WriteEffect
<1>2. CASE Commit(c)
  <2>1. at[c] \in {"own", "rights"} /\ Write(c)
    BY <1>2 DEF Commit
  <2> QED
    BY <1>2, <2>1, WriteEffect
<1>3. CASE ~Arm(c) /\ ~Commit(c)
  BY <1>3, WhoWrites
<1> QED
  BY <1>1, <1>2, <1>3

THEOREM RightsChangeOnlyByConsole == Spec => RightsChangeByConsole
<1>1. AccountsInv /\ [Next]_vars =>
          [\A i \in DOMAIN rows :
              rows'[i].role # rows[i].role \/ rows'[i].is_active # rows[i].is_active =>
                  \E c \in Client : at[c] = "rights" /\ row_id[c] = i /\ Commit(c)]_vars
  BY RightsStep DEF Next, LinkExpires
<1> QED
  BY <1>1, AccountsInvariant, PTL DEF Spec, RightsChangeByConsole

-----------------------------------------------------------------------------
\* The last administrator.

\* A step of c that leaves every row its rights and leaves c deciding nothing.
LEMMA NoDecisionStep ==
  ASSUME AccountsInv, OneDecision, SomeAdminRemains, NEW c \in Client,
         \A d \in Client \ {c} : /\ at'[d] = at[d] /\ row_id'[d] = row_id[d]
                                 /\ was'[d] = was[d] /\ now'[d] = now[d],
         \A i \in DOMAIN rows : /\ i \in DOMAIN rows'
                                /\ rows'[i].role = rows[i].role
                                /\ rows'[i].is_active = rows[i].is_active,
         at'[c] \notin Deciding
  PROVE  OneDecision' /\ SomeAdminRemains'
<1>1. ActiveAdmins \subseteq ActiveAdmins'
  BY DEF ActiveAdmins
<1>2. \A d \in Client : at'[d] \in Deciding =>
          /\ d # c /\ at[d] \in Deciding /\ row_id[d] \in DOMAIN rows
          /\ at'[d] = at[d] /\ row_id'[d] = row_id[d]
          /\ was'[d] = was[d] /\ now'[d] = now[d]
  BY DEF AccountsInv, HeldInv, Held, Active, Deciding
<1>3. SomeAdminRemains'
  BY <1>1 DEF SomeAdminRemains
<1>4. \A d, e \in Client : at'[d] \in Deciding /\ at'[e] \in Deciding => d = e
  BY <1>2 DEF OneDecision
<1>5. \A d \in Client : at'[d] \in Deciding => SameRights(rows'[row_id'[d]], was'[d])
  BY <1>2 DEF OneDecision, SameRights
<1>6. ASSUME NEW d \in Client, at'[d] = "rights"
      PROVE  OtherAdmins(row_id[d])' # {} \/ StaysAdmin(was'[d], now'[d])
  <2>1. at[d] = "rights" /\ row_id'[d] = row_id[d]
        /\ was'[d] = was[d] /\ now'[d] = now[d]
    BY <1>2, <1>6 DEF Deciding
  <2>2. OtherAdmins(row_id[d]) # {} \/ StaysAdmin(was[d], now[d])
    BY <2>1 DEF OneDecision
  <2> QED
    BY <1>1, <2>1, <2>2 DEF OtherAdmins
<1> QED
  BY <1>3, <1>4, <1>5, <1>6 DEF OneDecision

\* A request that is no decision moves only itself.
LEMMA OthersStay ==
  ASSUME AccountsInv, NEW c \in Client, Request(c)
  PROVE  \A d \in Client \ {c} : /\ at'[d] = at[d] /\ row_id'[d] = row_id[d]
                                 /\ was'[d] = was[d] /\ now'[d] = now[d]
<1> USE DEF AccountsInv, HeldInv, TypeOK, Goes, Hold, Ends
<1>1. CASE Enter(c) \/ InsertClashes(c) \/ Arm(c) \/ Commit(c) \/ RequestDies(c)
  BY <1>1 DEF Enter, InsertClashes, Arm, Commit, RequestDies
<1>2. CASE Logout(c)
  BY <1>2 DEF Logout, request
<1>3. CASE Insert(c)
  BY <1>3 DEF Insert
<1>4. CASE CountAdmins(c)
  BY <1>4 DEF CountAdmins
<1>5. ASSUME NEW n \in Username, NEW e \in Email, Register(c, n, e)
      PROVE  \A d \in Client \ {c} : /\ at'[d] = at[d] /\ row_id'[d] = row_id[d]
                                     /\ was'[d] = was[d] /\ now'[d] = now[d]
  BY <1>5 DEF Register
<1>6. ASSUME NEW i, NEW place, NEW new, Loads(c, i, place, new)
      PROVE  \A d \in Client \ {c} : /\ at'[d] = at[d] /\ row_id'[d] = row_id[d]
                                     /\ was'[d] = was[d] /\ now'[d] = now[d]
  BY <1>6 DEF Loads
<1> QED
  BY <1>1, <1>2, <1>3, <1>4, <1>5, <1>6
  DEF Request, Login, VerifyEmail, ForgotPassword, ResetPassword, ChangePassword,
      SuspendUser, ActivateUser, ChangeRole, Decides

\* A decision that begins while no other is in progress.
LEMMA DecidesStep ==
  ASSUME AccountsInv, OneDecision, SomeAdminRemains, NEW c \in Client,
         NEW i \in DOMAIN rows, NEW place \in Deciding, NEW new \in User,
         Decides(c, i, place, new), ~contested',
         place = "rights" => StaysAdmin(rows[i], new)
  PROVE  OneDecision' /\ SomeAdminRemains'
<1>1. /\ rows' = rows /\ Goes(c, place) /\ Hold(c, i, rows[i], new)
      /\ \A d \in Client : at[d] \notin Deciding
  BY DEF Decides, Loads
<1>2. HeldInv
  BY DEF AccountsInv
<1>3. \A d \in Client :
          /\ at'[d] = IF d = c THEN place ELSE at[d]
          /\ row_id'[d] = IF d = c THEN i ELSE row_id[d]
          /\ was'[d] = IF d = c THEN rows[i] ELSE was[d]
          /\ now'[d] = IF d = c THEN new ELSE now[d]
  BY <1>1, <1>2, OneRequestMoves
<1>4. \A d \in Client : at'[d] \in Deciding => d = c
  BY <1>1, <1>3
<1>5. SameRights(rows'[row_id'[c]], was'[c])
  BY <1>1, <1>3 DEF SameRights
<1>6. at'[c] = "rights" => StaysAdmin(was'[c], now'[c])
  BY <1>3
<1>7. SomeAdminRemains'
  BY <1>1 DEF SomeAdminRemains, ActiveAdmins
<1> QED
  BY <1>4, <1>5, <1>6, <1>7 DEF OneDecision, Deciding

\* The check that another administrator remains, at the moment it is made.
LEMMA CountStep ==
  ASSUME AccountsInv, OneDecision, SomeAdminRemains, NEW c \in Client, CountAdmins(c)
  PROVE  OneDecision' /\ SomeAdminRemains'
<1>1. rows' = rows /\ at[c] = "count" /\ at[c] \in Deciding
  BY DEF CountAdmins, Deciding
<1>2. \A d \in Client \ {c} : /\ at'[d] = at[d] /\ row_id'[d] = row_id[d]
                              /\ was'[d] = was[d] /\ now'[d] = now[d]
  BY OthersStay DEF Request
<1>3. CASE Ends(c)
  <2>1. at'[c] = "idle"
    BY <1>3 DEF AccountsInv, HeldInv, TypeOK, Ends, Goes
  <2> QED
    BY <1>1, <1>2, <2>1, NoDecisionStep DEF Deciding
<1>4. CASE OtherAdmins(row_id[c]) # {} /\ Goes(c, "rights") /\ UNCHANGED <<row_id, was, now>>
  <2>1. at'[c] = "rights" /\ \A d \in Client \ {c} : at[d] \notin Deciding
    BY <1>1, <1>4 DEF AccountsInv, HeldInv, TypeOK, Goes, OneDecision
  <2>2. \A d \in Client : at'[d] \in Deciding => d = c
    BY <1>2, <2>1
  <2>3. SameRights(rows'[row_id'[c]], was'[c])
    BY <1>1, <1>4 DEF OneDecision
  <2>4. OtherAdmins(row_id[c])' # {} /\ SomeAdminRemains'
    BY <1>1, <1>4 DEF OtherAdmins, ActiveAdmins, SomeAdminRemains
  <2> QED
    BY <1>4, <2>2, <2>3, <2>4 DEF OneDecision, Deciding
<1> QED
  BY <1>3, <1>4 DEF CountAdmins

\* A decision commits: its check still holds, for nobody else has decided.
LEMMA CommitStep ==
  ASSUME AccountsInv, OneDecision, SomeAdminRemains, NEW c \in Client, Commit(c),
         at[c] = "rights"
  PROVE  OneDecision' /\ SomeAdminRemains'
<1> DEFINE id == row_id[c]
<1>1. /\ id \in DOMAIN rows /\ DOMAIN rows' = DOMAIN rows
      /\ rows'[id] = Updated(rows[id], was[c], now[c])
      /\ \A j \in DOMAIN rows \ {id} : rows'[j] = rows[j]
  BY WriteEffect DEF Commit
<1>2. /\ SameRights(rows[id], was[c])
      /\ OtherAdmins(id) # {} \/ StaysAdmin(was[c], now[c])
      /\ \A d \in Client \ {c} : at[d] \notin Deciding
  BY DEF OneDecision, Deciding
<1>3. rows[id] \in User /\ was[c] \in User /\ now[c] \in User
  BY <1>1, RowsType DEF AccountsInv, HeldInv, Held, Change, Active
<1>4. rows'[id].role = now[c].role /\ rows'[id].is_active = now[c].is_active
  BY <1>1, <1>2, <1>3, UpdatedColumns DEF SameRights
<1> HIDE DEF id
<1>5. SomeAdminRemains'
  <2>1. CASE OtherAdmins(id) # {}
    BY <1>1, <2>1 DEF OtherAdmins, ActiveAdmins, SomeAdminRemains
  <2>2. CASE StaysAdmin(was[c], now[c])
    <3>1. PICK i \in DOMAIN rows : rows[i].role = "admin" /\ rows[i].is_active = "yes"
      BY DEF SomeAdminRemains, ActiveAdmins
    <3>2. rows'[i].role = "admin" /\ rows'[i].is_active = "yes"
      BY <1>1, <1>2, <1>4, <2>2, <3>1 DEF SameRights, StaysAdmin
    <3> QED
      BY <1>1, <3>1, <3>2 DEF SomeAdminRemains, ActiveAdmins
  <2> QED
    BY <1>2, <2>1, <2>2
<1>6. \A d \in Client : at'[d] \notin Deciding
  <2>1. \A d \in Client \ {c} : at'[d] = at[d]
    BY OthersStay DEF Request
  <2>2. at'[c] = "idle"
    BY DEF Commit, Ends, Goes, AccountsInv, HeldInv, TypeOK
  <2> QED
    BY <1>2, <2>1, <2>2 DEF Deciding
<1> QED
  BY <1>5, <1>6 DEF OneDecision, Deciding

LEMMA DecisionsStep ==
  ASSUME AccountsInv, DecisionsInv, NEW c \in Client, Request(c)
  PROVE  DecisionsInv'
<1>1. contested => contested'
  BY DEF Request, Enter, Logout, Register, Insert, InsertClashes, Arm, Login,
      VerifyEmail, ForgotPassword, ResetPassword, ChangePassword, SuspendUser,
      ActivateUser, ChangeRole, Decides, CountAdmins, Commit, RequestDies, history,
      NoDecision
<1> SUFFICES ASSUME ~contested, ~contested', OneDecision, SomeAdminRemains
             PROVE  OneDecision' /\ SomeAdminRemains'
  BY <1>1 DEF DecisionsInv
<1>2. \A d \in Client \ {c} : /\ at'[d] = at[d] /\ row_id'[d] = row_id[d]
                              /\ was'[d] = was[d] /\ now'[d] = now[d]
  BY OthersStay
<1>3. ASSUME NEW i \in DOMAIN rows,
             \/ SuspendUser(c, i) \/ ActivateUser(c, i)
             \/ \E role \in Role : ChangeRole(c, i, role)
      PROVE  OneDecision' /\ SomeAdminRemains'
  BY <1>3, ConsoleChange, DecidesStep
<1>4. CASE CountAdmins(c)
  BY <1>4, CountStep
<1>5. CASE Commit(c) /\ at[c] = "rights"
  BY <1>5, CommitStep
<1>6. CASE /\ ~CountAdmins(c) /\ ~(Commit(c) /\ at[c] = "rights")
           /\ ~\E i \in DOMAIN rows : \/ SuspendUser(c, i) \/ ActivateUser(c, i)
                                      \/ \E role \in Role : ChangeRole(c, i, role)
  <2>1. \A i \in DOMAIN rows : /\ i \in DOMAIN rows'
                               /\ rows'[i].role = rows[i].role
                               /\ rows'[i].is_active = rows[i].is_active
    <3>1. CASE Arm(c) \/ Commit(c)
      <4>1. at[c] \in {"arm", "own", "rights"} /\ Write(c)
        BY <3>1 DEF Arm, Commit
      <4> QED
        BY <1>6, <4>1, WriteEffect, RightsStep
    <3>2. CASE ~Arm(c) /\ ~Commit(c)
      BY <3>2, WhoWrites
    <3> QED
      BY <3>1, <3>2
  <2>2. at'[c] \in {"idle", "enter", "insert", "arm", "own"}
    BY <1>6 DEF AccountsInv, HeldInv, TypeOK, Request, Enter, Logout, Register,
        Insert, InsertClashes, Arm, Login, VerifyEmail, ForgotPassword, ResetPassword,
        ChangePassword, Loads, Commit, RequestDies, Goes, Ends, request
  <2>3. at'[c] \notin Deciding
    BY <2>2 DEF Deciding
  <2> QED
    BY <1>2, <2>1, <2>3, NoDecisionStep
<1> QED
  BY <1>3, <1>4, <1>5, <1>6

\* The console can never be locked out: as long as no two decisions overlap, an
\* active administrator remains, whatever the accounts do, if one was seeded.
THEOREM AnAdminAlwaysRemains ==
  ASSUME SeededAdmin
  PROVE  Spec => []AdminRemains
<1>1. Init => DecisionsInv
  <2> SUFFICES ASSUME Init PROVE OneDecision /\ SomeAdminRemains
    BY DEF DecisionsInv
  <2>1. OneDecision
    BY DEF Init, OneDecision, Deciding
  <2>2. SomeAdminRemains
    <3>1. DOMAIN Seeded = 1..Len(Seeded)
      BY AccountsAssumption, LenProperties
    <3> QED
      BY <3>1, InitialRows DEF SeededAdmin, SomeAdminRemains, ActiveAdmins
  <2> QED
    BY <2>1, <2>2
<1>2. AccountsInv /\ DecisionsInv /\ UNCHANGED vars => DecisionsInv'
  BY DEF vars, request, history, DecisionsInv, OneDecision, SomeAdminRemains,
         OtherAdmins, ActiveAdmins
<1>3. ASSUME AccountsInv, DecisionsInv, NEW i \in DOMAIN rows, LinkExpires(i)
      PROVE  DecisionsInv'
  BY <1>3 DEF LinkExpires, request, history, DecisionsInv, OneDecision,
              SomeAdminRemains, OtherAdmins, ActiveAdmins
<1>4. AccountsInv /\ DecisionsInv /\ [Next]_vars => DecisionsInv'
  BY <1>2, <1>3, DecisionsStep DEF Next
<1>5. DecisionsInv => AdminRemains
  BY DEF DecisionsInv, AdminRemains
<1> QED
  BY <1>1, <1>4, <1>5, AccountsInvariant, PTL DEF Spec

=============================================================================
