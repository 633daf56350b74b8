---------------------------- MODULE PartsProofs -----------------------------
(***************************************************************************)
(* Six parts that stand alone.  Service opens and closes at its two times  *)
(* and at no other, for days and hours of any length.  What is stored of   *)
(* the settings stays as it was written, up to races that are named, for   *)
(* any number of tables, rules, writers and updates.  Sessions end with    *)
(* the account they belong to, and a password is only changed by who knows *)
(* it, for any accounts, connections and sessions: a transaction that has  *)
(* a row's lock alone changes it, and what it has read of it stays true.   *)
(* A reader of pages gets every message once and in order, from either     *)
(* store.  And the two loops that hand out conversations one by one, to    *)
(* release an agent's and to pick up waiting ones, have the outcomes       *)
(* Dispatch describes, for any agents, maximums and conversations.         *)
(***************************************************************************)
EXTENDS BusinessHours, Settings, Sessions, Paging, ReleaseLoop, PickUpLoop,
        FiniteSetTheorems, TLAPS

-----------------------------------------------------------------------------
(* The hours of service *)

HoursTyped == opens \in MinutesOfDay /\ closes \in MinutesOfDay /\ minute \in MinutesOfDay

\* The next minute is the following one, or midnight.
LEMMA NextMinute ==
  ASSUME NEW m \in MinutesOfDay
  PROVE  IF m = MinutesPerDay - 1 THEN (m + 1) % MinutesPerDay = 0
                                  ELSE (m + 1) % MinutesPerDay = m + 1
<1>1. MinutesPerDay \in Nat \ {0} /\ m \in Int /\ 0 <= m /\ m <= MinutesPerDay - 1
  BY DayAssumption DEF MinutesOfDay
<1>2. CASE m = MinutesPerDay - 1
  BY <1>1, <1>2
<1>3. CASE m # MinutesPerDay - 1
  BY <1>1, <1>3
<1> QED
  BY <1>2, <1>3

LEMMA StaysTyped == HoursSpec => []HoursTyped
<1>1. HoursInit => HoursTyped
  BY DEF HoursInit, HoursTyped
<1>2. HoursTyped /\ [HoursNext]_hoursVars => HoursTyped'
  <2> SUFFICES ASSUME HoursTyped, [HoursNext]_hoursVars PROVE HoursTyped'
    OBVIOUS
  <2>1. CASE HoursNext
    <3>1. minute' \in MinutesOfDay
      BY <2>1, NextMinute, DayAssumption DEF HoursNext, HoursTyped, MinutesOfDay
    <3> QED
      BY <2>1, <3>1 DEF HoursNext, HoursTyped
  <2>2. CASE UNCHANGED hoursVars
    BY <2>2 DEF hoursVars, HoursTyped
  <2> QED
    BY <2>1, <2>2
<1> QED
  BY <1>1, <1>2, PTL DEF HoursSpec

\* The minute at which service changes is its first or the first after it.
THEOREM HoursAreKept == HoursSpec => OpensAndCloses
<1> DEFINE A == /\ Open' # Open => minute' = IF Open' THEN opens ELSE closes
                /\ minute' = opens /\ opens # closes => Open'
                /\ opens = closes => ~Open
<1>1. HoursTyped /\ [HoursNext]_hoursVars => [A]_hoursVars
  <2> SUFFICES ASSUME HoursTyped, HoursNext PROVE A
    OBVIOUS
  <2>1. /\ opens \in Int /\ closes \in Int /\ minute \in Int /\ MinutesPerDay \in Int
        /\ 0 <= opens /\ opens < MinutesPerDay /\ 0 <= closes /\ closes < MinutesPerDay
        /\ 0 <= minute /\ minute < MinutesPerDay
        /\ opens' = opens /\ closes' = closes
    BY DayAssumption DEF HoursTyped, MinutesOfDay, HoursNext
  <2>2. \/ minute = MinutesPerDay - 1 /\ minute' = 0
        \/ minute # MinutesPerDay - 1 /\ minute' = minute + 1
    BY NextMinute DEF HoursTyped, HoursNext
  <2> DEFINE now == minute
             next == minute'
             is(m) == IF opens <= closes THEN opens <= m /\ m < closes ELSE opens <= m \/ m < closes
  <2>3. Open = is(now) /\ Open' = is(next)
    BY <2>1 DEF Open, IsBusinessTime
  <2>4. is(next) # is(now) => next = IF is(next) THEN opens ELSE closes
    BY <2>1, <2>2
  <2>5. next = opens /\ opens # closes => is(next)
    BY <2>1, <2>2
  <2>6. opens = closes => ~is(now)
    BY <2>1
  <2> QED
    BY <2>3, <2>4, <2>5, <2>6
<1> QED
  BY <1>1, StaysTyped, PTL DEF HoursSpec, OpensAndCloses

-----------------------------------------------------------------------------
(* Stored settings *)

StoredRows == [present : BOOLEAN, kept : Values \cup {Blank}, always : Values \cup {Blank}]
NothingGiven == [kept |-> Blank, always |-> Blank]
Updates == [busy : BOOLEAN, row : Rows \cup {"none"}, given : Edits \cup {NothingGiven},
            current : Values \cup {Blank}, seen : Nat, failed : BOOLEAN]

RowTypes ==
  /\ version \in [Rows -> Nat]
  /\ stored \in [Rows -> StoredRows]
  /\ updating \in [Writers -> Updates]

\* An update that read its row has the field that is stored, or knows an older version.
IsCurrent(w) ==
  LET u == updating[w]
  IN u.busy =>
       /\ u.row \in Rows
       /\ u.seen <= version[u.row]
       /\ ~u.failed => /\ stored[u.row].present
                       /\ u.seen < version[u.row] \/ u.current = stored[u.row].kept

ReadsAreCurrent == RowTypes /\ \A w \in Writers : IsCurrent(w)

LEMMA GivenTypes ==
  \A g \in Edits \cup {NothingGiven} :
    g.kept \in Values \cup {Blank} /\ g.always \in Values \cup {Blank}
BY EditsAssumption DEF NothingGiven

LEMMA MergedType == ASSUME NEW u \in Updates PROVE Merged(u) \in StoredRows
BY GivenTypes DEF Updates, Merged, StoredRow, StoredRows

LEMMA InitCurrent == RowsInit => ReadsAreCurrent
BY DEF RowsInit, ReadsAreCurrent, RowTypes, IsCurrent, Updates, StoredRows, NothingGiven,
       NoRow, NotUpdating, Blank

\* A row that appears, or gets its greeting back, disturbs no update that has read it.
LEMMA RowAppears ==
  ASSUME ReadsAreCurrent, NEW r \in Rows, NEW row \in StoredRows,
         stored' = [stored EXCEPT ![r] = row], UNCHANGED <<updating, version>>,
         row.present, stored[r].present => row.kept = stored[r].kept
  PROVE  ReadsAreCurrent'
BY DEF ReadsAreCurrent, RowTypes, IsCurrent, Updates, StoredRows

LEMMA StepCurrent == ReadsAreCurrent /\ [RowsNext]_rowVars => ReadsAreCurrent'
<1> SUFFICES ASSUME ReadsAreCurrent, [RowsNext]_rowVars PROVE ReadsAreCurrent'
  OBVIOUS
<1>1. CASE UNCHANGED rowVars
  BY <1>1 DEF rowVars, ReadsAreCurrent, RowTypes, IsCurrent
<1>2. ASSUME NEW w \in Writers, NEW r \in Rows, NEW given \in Edits,
             ReadStored(w, r, given) \/ ReadFails(w, r, given)
      PROVE  ReadsAreCurrent'
  <2>1. PICK u \in Updates :
          /\ updating' = [updating EXCEPT ![w] = u]
          /\ u.row = r /\ u.seen = version[r]
          /\ ~u.failed => stored[r].present /\ u.current = stored[r].kept
    <3>1. CASE ReadStored(w, r, given)
      <4>1. Updating(r, given, stored[r].kept, version[r], FALSE) \in Updates
        BY DEF Updating, Updates, ReadsAreCurrent, RowTypes, StoredRows
      <4>2. QED
        BY <3>1, <4>1 DEF ReadStored, Updating
    <3>2. CASE ReadFails(w, r, given)
      <4>1. Updating(r, given, Blank, version[r], TRUE) \in Updates
        BY DEF Updating, Updates, ReadsAreCurrent, RowTypes
      <4>2. QED
        BY <3>2, <4>1 DEF ReadFails, Updating
    <3>3. QED
      BY <1>2, <3>1, <3>2
  <2>2. UNCHANGED <<stored, version>>
    BY <1>2 DEF ReadStored, ReadFails
  <2>3. RowTypes'
    BY <2>1, <2>2 DEF ReadsAreCurrent, RowTypes
  <2>4. ASSUME NEW v \in Writers PROVE IsCurrent(v)'
    BY <2>1, <2>2 DEF ReadsAreCurrent, RowTypes, IsCurrent
  <2>5. QED
    BY <2>3, <2>4 DEF ReadsAreCurrent
<1>3. ASSUME NEW w \in Writers, WriteBack(w) PROVE ReadsAreCurrent'
  <2> DEFINE u == updating[w]
  <2>1. u \in Updates /\ u.row \in Rows /\ NotUpdating \in Updates /\ ~NotUpdating.busy
    BY <1>3 DEF WriteBack, ReadsAreCurrent, RowTypes, IsCurrent, Updates, NotUpdating,
                NothingGiven
  <2>2. Merged(u) \in StoredRows /\ Merged(u).present
    BY <2>1, MergedType DEF Merged, StoredRow
  <2>3. RowTypes'
    BY <1>3, <2>1, <2>2 DEF WriteBack, ReadsAreCurrent, RowTypes
  <2>4. ASSUME NEW v \in Writers PROVE IsCurrent(v)'
    BY <1>3, <2>1, <2>2 DEF WriteBack, ReadsAreCurrent, RowTypes, IsCurrent, Updates
  <2>5. QED
    BY <2>3, <2>4 DEF ReadsAreCurrent
<1>4. ASSUME NEW w \in Writers, WriteFails(w) PROVE ReadsAreCurrent'
  BY <1>4 DEF WriteFails, NotUpdating, NothingGiven, ReadsAreCurrent, RowTypes, IsCurrent,
              Updates
<1>5. ASSUME NEW r \in RuleRows, NEW given \in Edits, CreateKeywordRule(r, given)
      PROVE  ReadsAreCurrent'
  <2>1. StoredRow(given.kept, given.always) \in StoredRows /\ r \in Rows
    BY GivenTypes DEF StoredRow, StoredRows, Rows
  <2>2. QED
    BY <1>5, <2>1, RowAppears DEF CreateKeywordRule, StoredRow
<1>6. ASSUME NEW r \in Rows, SeedDefaults(r) PROVE ReadsAreCurrent'
  <2>1. StoredRow(Default, Default) \in StoredRows
    BY ValuesAssumption DEF StoredRow, StoredRows
  <2>2. QED
    BY <1>6, <2>1, RowAppears DEF SeedDefaults, StoredRow
<1>7. ASSUME NEW r \in GreetingRows, RestoreGreeting(r) PROVE ReadsAreCurrent'
  <2>1. r \in Rows /\ stored[r] \in StoredRows
    BY RowsAssumption DEF Rows, ReadsAreCurrent, RowTypes
  <2>2. [stored[r] EXCEPT !.always = Default] \in StoredRows
    BY <2>1, ValuesAssumption DEF StoredRows
  <2>3. QED
    BY <1>7, <2>1, <2>2, RowAppears DEF RestoreGreeting, StoredRows
<1>8. QED
  BY <1>1, <1>2, <1>3, <1>4, <1>5, <1>6, <1>7 DEF RowsNext

\* Of every step, only WriteBack and RestoreGreeting change a row that is there.
LEMMA OnlyWritesUndo ==
  ASSUME ReadsAreCurrent, RowsNext, NEW r \in Rows,
         stored[r].present, stored'[r] # stored[r]
  PROVE  \/ \E w \in Writers : WriteBack(w) /\ updating[w].row = r
         \/ RestoreGreeting(r) /\ r \in GreetingRows
<1> USE DEF ReadsAreCurrent, RowTypes, StoredRows
<1>1. ASSUME NEW q \in Rows,
             SeedDefaults(q) \/ \E given \in Edits : CreateKeywordRule(q, given)
      PROVE  FALSE
  BY <1>1 DEF CreateKeywordRule, SeedDefaults
<1>2. ASSUME NEW q \in GreetingRows, RestoreGreeting(q) PROVE q = r
  BY <1>2, RowsAssumption DEF RestoreGreeting, Rows
<1>3. ASSUME NEW w \in Writers, WriteFails(w) \/ \E q \in Rows, given \in Edits :
                                  ReadStored(w, q, given) \/ ReadFails(w, q, given)
      PROVE  FALSE
  BY <1>3 DEF WriteFails, ReadStored, ReadFails
<1>4. ASSUME NEW w \in Writers, WriteBack(w) PROVE updating[w].row = r
  BY <1>4 DEF WriteBack, IsCurrent
<1>5. QED
  BY <1>1, <1>2, <1>3, <1>4 DEF RowsNext, Rows

\* Of the fields that are blank in an update, one is replaced only if the update was
\* overtaken or could not read the row (UpdateAISettings and its likes); of the
\* others, a greeting only if it is empty, by a node that starts.
THEOREM SettingsAreKept == RowsSpec => UndoneOnlyInARace
<1>1. ReadsAreCurrent /\ [RowsNext]_rowVars =>
        [\A r \in Rows : stored[r].present /\ stored'[r] # stored[r]
           => GreetingRestored(r) \/ \E w \in Writers : ReplacedByUpdate(w, r)]_rowVars
  <2> SUFFICES ASSUME ReadsAreCurrent, RowsNext, NEW r \in Rows,
                      stored[r].present, stored'[r] # stored[r]
               PROVE  GreetingRestored(r) \/ \E w \in Writers : ReplacedByUpdate(w, r)
    OBVIOUS
  <2>1. CASE RestoreGreeting(r) /\ r \in GreetingRows
    BY <2>1 DEF RestoreGreeting, GreetingRestored, ReadsAreCurrent, RowTypes
  <2>2. ASSUME NEW w \in Writers, WriteBack(w), updating[w].row = r PROVE ReplacedByUpdate(w, r)
    <3>1. /\ stored'[r] = Merged(updating[w]) /\ updating[w].busy /\ ~updating'[w].busy
          /\ IsCurrent(w)
      BY <2>2 DEF WriteBack, NotUpdating, ReadsAreCurrent, RowTypes
    <3>2. QED
      BY <2>2, <3>1 DEF IsCurrent, Merged, StoredRow, ReplacedByUpdate
  <2>3. QED
    BY <2>1, <2>2, OnlyWritesUndo
<1>2. QED
  BY <1>1, InitCurrent, StepCurrent, PTL DEF RowsSpec, UndoneOnlyInARace

-----------------------------------------------------------------------------
(* Sessions and passwords *)

Steps == {"idle", "insert", "lock", "revoke", "commit"}

Doings ==
  [step : Steps, account : Accounts \cup {NoAccount}, op : Changing \cup {"login"},
   old : Passwords \cup {NoPassword}, new : Passwords \cup {NoPassword}, seen : Nat]

TokenRows ==
  [state : {"none", "live", "expired", "revoked"}, account : Accounts \cup {NoAccount},
   seen : Nat, overlaps : BOOLEAN]

AccountRows == [live : BOOLEAN, disabled : BOOLEAN, password : Passwords]

Typed ==
  /\ account \in [Accounts -> AccountRows]
  /\ lockedBy \in [Accounts -> Connections \cup {Nobody}]
  /\ doing \in [Connections -> Doings]
  /\ marked \in [Connections -> SUBSET Tokens]
  /\ token \in [Tokens -> TokenRows]
  /\ changes \in [Accounts -> Nat]

\* The steps of a transaction that has the lock.
Inside(t) == doing[t].step \in {"revoke", "commit"}

\* Only calls of the change methods have an account to lock, and a new password.
WellBegun ==
  \A t \in Connections :
    /\ doing[t].step # "idle" => doing[t].account \in Accounts
    /\ doing[t].step \in {"lock", "revoke", "commit"} =>
         doing[t].op \in Changing /\ doing[t].new \in Passwords

\* Who is inside has locked its account, and nobody else has.
LockDiscipline ==
  \A t \in Connections, x \in Accounts :
    lockedBy[x] = t <=> Inside(t) /\ doing[t].account = x

\* What a session that counts as current relies on.
Current(k) ==
  /\ token[k].account \in Accounts
  /\ token[k].seen = changes[token[k].account]
  /\ \A t \in Connections :
       doing[t].step = "commit" /\ doing[t].account = token[k].account => k \in marked[t]

CurrentTokens ==
  \A k \in Tokens : Authenticated(k) /\ ~token[k].overlaps => Current(k)

\* What ChangePassword checked still holds.
StillKnown ==
  \A t \in Connections :
    Inside(t) /\ doing[t].op = "change_password" =>
      /\ account[doing[t].account].password = doing[t].old
      /\ ~account[doing[t].account].disabled

IInv == Typed /\ WellBegun /\ LockDiscipline /\ CurrentTokens /\ StillKnown

-----------------------------------------------------------------------------
LEMMA InitIInv == SessionInit => IInv
<1> SUFFICES ASSUME SessionInit PROVE IInv
  OBVIOUS
<1> USE DEF SessionInit, Idle, Doing, NoToken
<1>1. Typed
  BY DEF Typed, AccountRows, Doings, Steps, TokenRows, Changing
<1>2. WellBegun /\ StillKnown
  BY DEF WellBegun, StillKnown, Inside
<1>3. LockDiscipline
  BY ConnectionsAssumption DEF LockDiscipline, Inside, Nobody
<1>4. CurrentTokens
  BY DEF CurrentTokens, Authenticated
<1> QED
  BY <1>1, <1>2, <1>3, <1>4 DEF IInv

\* What the three kinds of records are after a change of one field.
LEMMA NextStepIs ==
  ASSUME NEW d \in Doings, NEW s \in Steps
  PROVE  /\ NextStep(d, s) \in Doings
         /\ NextStep(d, s).step = s
         /\ NextStep(d, s).account = d.account /\ NextStep(d, s).op = d.op
         /\ NextStep(d, s).old = d.old /\ NextStep(d, s).new = d.new
         /\ NextStep(d, s).seen = d.seen
  BY DEF NextStep, Doings

LEMMA InStateIs ==
  ASSUME NEW row \in TokenRows, NEW s \in {"none", "live", "expired", "revoked"}
  PROVE  /\ InState(row, s) \in TokenRows
         /\ InState(row, s).state = s
         /\ InState(row, s).account = row.account
         /\ InState(row, s).seen = row.seen /\ InState(row, s).overlaps = row.overlaps
  BY DEF InState, TokenRows

LEMMA ChangedIs ==
  ASSUME NEW d \in Doings, d.op \in Changing, d.new \in Passwords, NEW row \in AccountRows
  PROVE  Changed(d, row) \in AccountRows
<1>1. CASE d.op \in {"reset_password", "change_password"}
  BY <1>1 DEF Changed, AccountRows
<1>2. CASE d.op = "disable_agent"
  BY <1>2 DEF Changed, AccountRows
<1>3. CASE d.op = "delete_agent"
  BY <1>3 DEF Changed, AccountRows
<1> QED
  BY <1>1, <1>2, <1>3 DEF Changing

LEMMA LoginKeeps ==
  ASSUME NEW t \in Connections, NEW x \in Accounts, NEW p \in Passwords,
         IInv, Login(t, x, p)
  PROVE  IInv'
<1> USE DEF IInv, Login, Idle, Doing
<1>1. Typed'
  BY DEF Typed, Doings, Steps, TokenRows, AccountRows, Changing, WellBegun
<1>2. WellBegun'
  BY DEF WellBegun, Typed, Doings, Changing
<1>3. LockDiscipline'
  BY ConnectionsAssumption DEF LockDiscipline, WellBegun, Inside, Typed, Doings, Nobody
<1>4. CurrentTokens'
  BY DEF CurrentTokens, Current, Authenticated, WellBegun, LockDiscipline, Inside, Typed, Doings, TokenRows
<1>5. StillKnown'
  BY DEF StillKnown, LockDiscipline, WellBegun, Inside, Typed, Doings, AccountRows
<1> QED
  BY <1>1, <1>2, <1>3, <1>4, <1>5

LEMMA CreateAuthKeeps ==
  ASSUME NEW t \in Connections,
         IInv, CreateAuth(t)
  PROVE  IInv'
<1> USE DEF IInv, CreateAuth, Idle, Doing
<1>1. Typed'
  BY DEF Typed, Doings, Steps, TokenRows, AccountRows, Changing, WellBegun
<1>2. WellBegun'
  BY DEF WellBegun, Typed, Doings, Changing
<1>3. LockDiscipline'
  BY ConnectionsAssumption DEF LockDiscipline, WellBegun, Inside, Typed, Doings, Nobody
<1>4. CurrentTokens'
  <2>1. PICK k \in Tokens :
          token' = [token EXCEPT ![k] =
            [state |-> "live", account |-> doing[t].account, seen |-> doing[t].seen,
             overlaps |-> doing[t].seen # changes[doing[t].account]
                            \/ EndingSessions(doing[t].account)]]
    OBVIOUS
  <2>2. \A j \in Tokens \ {k} : token'[j] = token[j]
    BY <2>1 DEF Typed
  <2>3. (Authenticated(k) /\ ~token[k].overlaps)' => Current(k)'
    <3> SUFFICES ASSUME ~token'[k].overlaps
                 PROVE  Current(k)'
      OBVIOUS
    <3>1. /\ token'[k].account = doing[t].account /\ token'[k].seen = doing[t].seen
          /\ doing[t].seen = changes[doing[t].account]
          /\ ~EndingSessions(doing[t].account)
          /\ doing[t].account \in Accounts
      BY <2>1 DEF Typed, WellBegun
    <3>2. \A u \in Connections : doing[u].step = "commit" => doing[u].account # doing[t].account
      BY <3>1 DEF EndingSessions, LockDiscipline, Inside
    <3> QED
      BY <3>1, <3>2 DEF Current, Typed
  <2> QED
    BY <2>2, <2>3 DEF CurrentTokens, Current, Authenticated, Typed
<1>5. StillKnown'
  BY DEF StillKnown, LockDiscipline, WellBegun, Inside, Typed, Doings, AccountRows
<1> QED
  BY <1>1, <1>2, <1>3, <1>4, <1>5

LEMMA BeginKeeps ==
  ASSUME NEW t \in Connections, NEW x \in Accounts, NEW p \in Passwords, NEW q \in Passwords,
              NEW op \in Changing,
         IInv, Begin(t, op, x, p, q)
  PROVE  IInv'
<1> USE DEF IInv, Begin, Idle, Doing
<1>1. Typed'
  BY DEF Typed, Doings, Steps, TokenRows, AccountRows, Changing, WellBegun
<1>2. WellBegun'
  BY DEF WellBegun, Typed, Doings, Changing
<1>3. LockDiscipline'
  BY ConnectionsAssumption DEF LockDiscipline, WellBegun, Inside, Typed, Doings, Nobody
<1>4. CurrentTokens'
  BY DEF CurrentTokens, Current, Authenticated, WellBegun, LockDiscipline, Inside, Typed, Doings, TokenRows
<1>5. StillKnown'
  BY DEF StillKnown, LockDiscipline, WellBegun, Inside, Typed, Doings, AccountRows
<1> QED
  BY <1>1, <1>2, <1>3, <1>4, <1>5

LEMMA LockAccountKeeps ==
  ASSUME NEW t \in Connections,
         IInv, LockAccount(t)
  PROVE  IInv'
<1> DEFINE d == doing[t]
           n == NextStep(d, "revoke")
<1>1. d \in Doings /\ doing \in [Connections -> Doings]
  BY DEF IInv, Typed
<1>2. /\ n \in Doings /\ n.step = "revoke" /\ n.account = d.account /\ n.op = d.op
      /\ n.old = d.old /\ n.new = d.new
  BY <1>1, NextStepIs DEF Steps
<1>3. /\ d.step = "lock" /\ lockedBy[d.account] = Nobody
      /\ MayChange(d, account[d.account])
      /\ lockedBy' = [lockedBy EXCEPT ![d.account] = t]
      /\ doing' = [doing EXCEPT ![t] = n]
      /\ account' = account /\ marked' = marked /\ token' = token /\ changes' = changes
  BY DEF LockAccount
<1> HIDE DEF n
<1>4. /\ doing'[t] = n
      /\ \A u \in Connections \ {t} : doing'[u] = doing[u]
      /\ doing' \in [Connections -> Doings]
  BY <1>1, <1>2, <1>3
<1>5. d.account \in Accounts /\ d.op \in Changing /\ d.new \in Passwords
  BY <1>3 DEF IInv, WellBegun
<1>6. Typed'
  BY <1>3, <1>4, <1>5 DEF IInv, Typed, OpenTokens
<1>7. WellBegun'
  BY <1>2, <1>4, <1>5 DEF IInv, WellBegun
<1>8. LockDiscipline'
  BY <1>2, <1>3, <1>4, <1>5, ConnectionsAssumption DEF IInv, LockDiscipline, Inside, Typed, Nobody
<1>9. CurrentTokens'
  BY <1>2, <1>3, <1>4 DEF IInv, CurrentTokens, Current, Authenticated
<1>10. StillKnown'
  BY <1>2, <1>3, <1>4 DEF IInv, StillKnown, Inside, MayChange
<1> QED
  BY <1>6, <1>7, <1>8, <1>9, <1>10 DEF IInv

LEMMA RefuseChangeKeeps ==
  ASSUME NEW t \in Connections,
         IInv, RefuseChange(t)
  PROVE  IInv'
<1> USE DEF IInv, RefuseChange, Idle, Doing
<1>1. Typed'
  BY DEF Typed, Doings, Steps, TokenRows, AccountRows, Changing, WellBegun
<1>2. WellBegun'
  BY DEF WellBegun, Typed, Doings, Changing
<1>3. LockDiscipline'
  BY ConnectionsAssumption DEF LockDiscipline, WellBegun, Inside, Typed, Doings, Nobody
<1>4. CurrentTokens'
  BY DEF CurrentTokens, Current, Authenticated, WellBegun, LockDiscipline, Inside, Typed, Doings, TokenRows
<1>5. StillKnown'
  BY DEF StillKnown, LockDiscipline, WellBegun, Inside, Typed, Doings, AccountRows
<1> QED
  BY <1>1, <1>2, <1>3, <1>4, <1>5

LEMMA RevokeKeeps ==
  ASSUME NEW t \in Connections,
         IInv, Revoke(t)
  PROVE  IInv'
<1> DEFINE d == doing[t]
           n == NextStep(d, "commit")
<1>1. d \in Doings /\ doing \in [Connections -> Doings]
  BY DEF IInv, Typed
<1>2. /\ n \in Doings /\ n.step = "commit" /\ n.account = d.account /\ n.op = d.op
      /\ n.old = d.old /\ n.new = d.new
  BY <1>1, NextStepIs DEF Steps
<1>3. /\ d.step = "revoke"
      /\ marked' = [marked EXCEPT ![t] = OpenTokens(d.account)]
      /\ doing' = [doing EXCEPT ![t] = n]
      /\ account' = account /\ lockedBy' = lockedBy /\ token' = token /\ changes' = changes
  BY DEF Revoke
<1> HIDE DEF n
<1>4. /\ doing'[t] = n
      /\ \A u \in Connections \ {t} : doing'[u] = doing[u]
      /\ doing' \in [Connections -> Doings]
  BY <1>1, <1>2, <1>3
<1>5. d.account \in Accounts /\ d.op \in Changing /\ d.new \in Passwords
  BY <1>3 DEF IInv, WellBegun
<1>6. Typed'
  BY <1>3, <1>4, <1>5 DEF IInv, Typed, OpenTokens
<1>7. WellBegun'
  BY <1>2, <1>4, <1>5 DEF IInv, WellBegun
<1>8. LockDiscipline'
  BY <1>2, <1>3, <1>4, <1>5, ConnectionsAssumption DEF IInv, LockDiscipline, Inside, Typed, Nobody
<1>9. CurrentTokens'
  BY <1>2, <1>3, <1>4 DEF IInv, CurrentTokens, Current, Authenticated, OpenTokens, Typed
<1>10. StillKnown'
  BY <1>2, <1>3, <1>4 DEF IInv, StillKnown, Inside
<1> QED
  BY <1>6, <1>7, <1>8, <1>9, <1>10 DEF IInv

LEMMA CommitKeeps ==
  ASSUME NEW t \in Connections,
         IInv, Commit(t)
  PROVE  IInv'
<1> DEFINE d == doing[t]
<1>1. /\ d \in Doings /\ doing \in [Connections -> Doings] /\ token \in [Tokens -> TokenRows]
      /\ account \in [Accounts -> AccountRows]
      /\ marked \in [Connections -> SUBSET Tokens] /\ changes \in [Accounts -> Nat]
      /\ lockedBy \in [Accounts -> Connections \cup {Nobody}]
  BY DEF IInv, Typed
<1>2. /\ d.step = "commit"
      /\ account' = [account EXCEPT ![d.account] = Changed(d, @)]
      /\ token' = [k \in Tokens |-> IF k \in marked[t] THEN InState(token[k], "revoked")
                                    ELSE token[k]]
      /\ lockedBy' = [lockedBy EXCEPT ![d.account] = Nobody]
      /\ marked' = [marked EXCEPT ![t] = {}]
      /\ changes' = [changes EXCEPT ![d.account] = @ + 1]
      /\ doing' = [doing EXCEPT ![t] = Idle]
  BY DEF Commit
<1>3. d.account \in Accounts /\ d.op \in Changing /\ d.new \in Passwords
  BY <1>2 DEF IInv, WellBegun
<1>4. /\ \A u \in Connections \ {t} : doing'[u] = doing[u] /\ marked'[u] = marked[u]
      /\ doing'[t] = Idle /\ Idle \in Doings /\ Idle.step = "idle"
  BY <1>1, <1>2 DEF Idle, Doing, Doings, Steps
\* Nobody else is inside the account.
<1>5. \A u \in Connections \ {t} : Inside(u) => doing[u].account # d.account
  <2>1. lockedBy[d.account] = t
    BY <1>2, <1>3 DEF IInv, LockDiscipline, Inside
  <2> QED
    BY <2>1, <1>3 DEF IInv, LockDiscipline
<1>6. \A k \in Tokens : /\ InState(token[k], "revoked") \in TokenRows
                        /\ InState(token[k], "revoked").state = "revoked"
  BY <1>1, InStateIs
<1>7. Typed'
  <2>1. account' \in [Accounts -> AccountRows]
    BY <1>1, <1>2, <1>3, ChangedIs
  <2>2. token' \in [Tokens -> TokenRows]
    BY <1>1, <1>2, <1>6
  <2> QED
    BY <1>1, <1>2, <1>3, <1>4, <2>1, <2>2 DEF Typed
<1>8. WellBegun'
  BY <1>4 DEF IInv, WellBegun
<1>9. LockDiscipline'
  <2> SUFFICES ASSUME NEW u \in Connections, NEW x \in Accounts
               PROVE  (lockedBy[x] = u <=> Inside(u) /\ doing[u].account = x)'
    BY DEF LockDiscipline
  <2>1. u # Nobody /\ t # Nobody
    BY ConnectionsAssumption
  <2>2. CASE x = d.account
    BY <2>1, <2>2, <1>1, <1>2, <1>3, <1>4, <1>5 DEF Inside
  <2>3. CASE x # d.account
    BY <2>1, <2>3, <1>1, <1>2, <1>3, <1>4 DEF IInv, LockDiscipline, Inside
  <2> QED
    BY <2>2, <2>3
<1>10. CurrentTokens'
  <2> SUFFICES ASSUME NEW k \in Tokens, (Authenticated(k) /\ ~token[k].overlaps)'
               PROVE  Current(k)'
    BY DEF CurrentTokens
  <2>1. k \notin marked[t] /\ token'[k] = token[k]
    BY <1>2, <1>6 DEF Authenticated
  <2>2. Current(k)
    BY <2>1 DEF Authenticated, IInv, CurrentTokens
  <2>3. token[k].account # d.account
    BY <2>1, <2>2, <1>2 DEF Current
  <2> QED
    BY <2>1, <2>2, <2>3, <1>1, <1>2, <1>4 DEF Current
<1>11. StillKnown'
  BY <1>1, <1>2, <1>4, <1>5 DEF IInv, StillKnown, WellBegun, Inside
<1> QED
  BY <1>7, <1>8, <1>9, <1>10, <1>11 DEF IInv

LEMMA AbortKeeps ==
  ASSUME NEW t \in Connections,
         IInv, Abort(t)
  PROVE  IInv'
<1> USE DEF IInv, Abort, Idle, Doing
<1>1. Typed'
  BY DEF Typed, Doings, Steps, TokenRows, AccountRows, Changing, WellBegun
<1>2. WellBegun'
  BY DEF WellBegun, Typed, Doings, Changing
<1>3. LockDiscipline'
  BY ConnectionsAssumption DEF LockDiscipline, WellBegun, Inside, Typed, Doings, Nobody
<1>4. CurrentTokens'
  BY DEF CurrentTokens, Current, Authenticated, WellBegun, LockDiscipline, Inside, Typed, Doings, TokenRows
<1>5. StillKnown'
  BY DEF StillKnown, LockDiscipline, WellBegun, Inside, Typed, Doings, AccountRows
<1> QED
  BY <1>1, <1>2, <1>3, <1>4, <1>5

\* Seeding touches accounts that no transaction holds, and no session.
LEMMA SeedKeeps ==
  ASSUME NEW x \in Accounts, IInv, SeedAccount(x) \/ ReplaceOldHash(x)
  PROVE  IInv'
<1>1. /\ account \in [Accounts -> AccountRows] /\ lockedBy[x] = Nobody
      /\ UNCHANGED <<lockedBy, doing, marked, token, changes>>
  BY DEF SeedAccount, ReplaceOldHash, IInv, Typed
<1>2. account' \in [Accounts -> AccountRows] /\ \A y \in Accounts \ {x} : account'[y] = account[y]
  <2>1. CASE SeedAccount(x)
    <3>1. SeedRow \in AccountRows
      BY SeedsAssumption DEF SeedRow, AccountRows
    <3>2. QED
      BY <2>1, <3>1, <1>1 DEF SeedAccount
  <2>2. CASE ReplaceOldHash(x)
    <3>1. [account[x] EXCEPT !.password = Bootstrap] \in AccountRows
      BY <1>1, SeedsAssumption DEF AccountRows
    <3>2. account' = [account EXCEPT ![x] = [account[x] EXCEPT !.password = Bootstrap]]
      BY <2>2, <1>1 DEF ReplaceOldHash
    <3>3. QED
      BY <3>1, <3>2, <1>1
  <2>3. QED
    BY <2>1, <2>2
<1>3. Typed' /\ WellBegun' /\ LockDiscipline' /\ CurrentTokens'
  BY <1>1, <1>2 DEF IInv, Typed, WellBegun, LockDiscipline, Inside, CurrentTokens, Current,
                    Authenticated
<1>4. StillKnown'
  <2>1. \A t \in Connections : Inside(t) => doing[t].account \in Accounts \ {x}
    BY <1>1, ConnectionsAssumption DEF IInv, WellBegun, LockDiscipline, Inside, Nobody
  <2>2. QED
    BY <2>1, <1>1, <1>2 DEF IInv, StillKnown, Inside
<1>5. QED
  BY <1>3, <1>4 DEF IInv

LEMMA ExpireKeeps ==
  ASSUME NEW k \in Tokens,
         IInv, Expire(k)
  PROVE  IInv'
<1>1. /\ token \in [Tokens -> TokenRows]
      /\ token' = [token EXCEPT ![k] = InState(@, "expired")]
      /\ UNCHANGED <<account, lockedBy, doing, marked, changes>>
  BY DEF Expire, IInv, Typed
<1>2. InState(token[k], "expired") \in TokenRows /\ InState(token[k], "expired").state = "expired"
  BY <1>1, InStateIs
<1>3. Typed'
  BY <1>1, <1>2 DEF IInv, Typed
<1>4. WellBegun' /\ LockDiscipline' /\ StillKnown'
  BY <1>1 DEF IInv, WellBegun, LockDiscipline, StillKnown, Inside
<1>5. CurrentTokens'
  BY <1>1, <1>2 DEF IInv, CurrentTokens, Current, Authenticated
<1> QED
  BY <1>3, <1>4, <1>5 DEF IInv

\* Locks, what transactions have read and what tokens were created from hold together in
\* every run of logins, password changes, disablings and deletions.
THEOREM Inductive == SessionSpec => []IInv
<1>1. IInv /\ [SessionNext]_sessionVars => IInv'
  <2> SUFFICES ASSUME IInv, [SessionNext]_sessionVars PROVE IInv'
    OBVIOUS
  <2>1. CASE UNCHANGED sessionVars
    BY <2>1 DEF sessionVars, IInv, Typed, WellBegun, LockDiscipline, CurrentTokens, Current,
                StillKnown, Inside, Authenticated
  <2>2. CASE SessionNext
    BY <2>2, LoginKeeps, CreateAuthKeeps, BeginKeeps, LockAccountKeeps, RefuseChangeKeeps,
       RevokeKeeps, CommitKeeps, AbortKeeps, SeedKeeps, ExpireKeeps DEF SessionNext
  <2> QED
    BY <2>1, <2>2
<1> QED
  BY <1>1, InitIInv, PTL DEF SessionSpec

-----------------------------------------------------------------------------
\* Every session that works, and was not created while its account changed, was
\* created after the last change of a password, disabling or deletion.
THEOREM SessionsEnd == SessionSpec => []SessionsAreCurrent
<1>1. IInv => SessionsAreCurrent
  BY DEF IInv, CurrentTokens, Current, SessionsAreCurrent
<1> QED
  BY <1>1, Inductive, PTL

\* The password a transaction has checked is the one it replaces.
THEOREM PasswordsAreKept == SessionSpec => ChangesKnowThePassword
<1> DEFINE A == \A t \in Connections :
       (doing[t].step = "commit" /\ doing[t].op = "change_password" /\ changes' # changes
        /\ doing'[t] = Idle)
         => /\ account[doing[t].account].password = doing[t].old
            /\ ~account[doing[t].account].disabled
<1>1. IInv /\ [SessionNext]_sessionVars => [A]_sessionVars
  BY DEF IInv, StillKnown, Inside
<1> QED
  BY <1>1, Inductive, PTL DEF SessionSpec, ChangesKnowThePassword

-----------------------------------------------------------------------------
(* Paging *)

PagingTyped ==
  /\ written \in Seq([at : Times, id : Ids])
  /\ cursor \in Positions \cup {NoCursor}
  /\ pages \in Seq(Positions)
  /\ atStart \in SUBSET Positions
  /\ ended \in BOOLEAN
  /\ cutShort \in BOOLEAN /\ (cutShort => ended)

\* Two messages may have the same time but never the same id.
OwnIds == \A i, j \in Positions : written[i].id = written[j].id => i = j

\* A reader with a cursor has the page the cursor is the first message of.
CursorIsFirst ==
  /\ cursor # NoCursor => pages # << >> /\ cursor = pages[1]
  /\ ~ended /\ cursor = NoCursor => pages = << >> /\ atStart = {}

\* What the reader does not have yet lies before its cursor, and what it will not
\* get because a read failed before all that it has.
RestIsAhead ==
  \A i \in atStart :
    \/ \E k \in DOMAIN pages : pages[k] = i
    \/ ~ended /\ cursor # NoCursor /\ Before(i, cursor)
    \/ cutShort /\ \A k \in DOMAIN pages : Before(i, pages[k])

PagesInOrder == \A i, j \in DOMAIN pages : i < j => Before(pages[i], pages[j])

PagingInv == PagingTyped /\ OwnIds /\ CursorIsFirst /\ RestIsAhead /\ PagesInOrder

LEMMA PositionsAreFinite ==
  ASSUME PagingTyped
  PROVE  /\ Len(written) \in Nat /\ Positions = 1..Len(written)
         /\ IsFiniteSet(Positions) /\ NoCursor \notin Positions
         /\ \A i \in Positions : written[i].at \in Int /\ written[i].id \in Int
<1>1. Len(written) \in Nat /\ Positions = 1..Len(written)
  BY DEF PagingTyped, Positions
<1>2. IsFiniteSet(Positions)
  BY <1>1, FS_Interval
<1> DEFINE R == [at : Times, id : Ids]
<1>3. written \in Seq(R)
  BY DEF PagingTyped
<1> HIDE DEF R
<1>4. \A i \in Positions : written[i] \in R
  BY <1>1, <1>3
<1>5. Times \subseteq Int /\ Ids \subseteq Int
  BY TimesAssumption, WrittenAssumption DEF Ids
<1>6. \A i \in Positions : written[i].at \in Int /\ written[i].id \in Int
  BY <1>4, <1>5 DEF R
<1>7. NoCursor \notin Positions
  BY <1>1 DEF NoCursor
<1> QED
  BY <1>1, <1>2, <1>6, <1>7

\* Messages are never equal in (created_at, server_msg_id): it is an order.
LEMMA BeforeIsAnOrder ==
  ASSUME PagingTyped, OwnIds
  PROVE  /\ \A i \in Positions : ~Before(i, i)
         /\ \A i, j \in Positions : i # j => Before(i, j) \/ Before(j, i)
         /\ \A i, j, k \in Positions : Before(i, j) /\ Before(j, k) => Before(i, k)
<1>1. \A i \in Positions : written[i].at \in Int /\ written[i].id \in Int
  BY PositionsAreFinite
<1>2. \A i \in Positions : ~Before(i, i)
  BY <1>1 DEF Before
<1>3. \A i, j \in Positions : i # j => Before(i, j) \/ Before(j, i)
  BY <1>1 DEF Before, OwnIds
<1>4. \A i, j, k \in Positions : Before(i, j) /\ Before(j, k) => Before(i, k)
  BY <1>1 DEF Before
<1> QED
  BY <1>2, <1>3, <1>4

Sorted(S) == {s \in [1..Cardinality(S) -> S] :
                \A i, j \in DOMAIN s : i < j => Before(s[i], s[j])}

\* Messages can be put in order: each one's place is the number of those before it.
LEMMA SortedExists ==
  ASSUME PagingTyped, OwnIds, NEW S \in SUBSET Positions
  PROVE  /\ IsFiniteSet(S) /\ Cardinality(S) \in Nat
         /\ Sorted(S) # {}
<1> DEFINE n == Cardinality(S)
           below(x) == {y \in S : Before(y, x)}
           rank == [x \in S |-> Cardinality(below(x)) + 1]
<1>1. IsFiniteSet(S) /\ n \in Nat
  BY PositionsAreFinite, FS_Subset, FS_CardinalityType
<1>2. \A x \in S : ~Before(x, x)
  BY BeforeIsAnOrder
<1>3. \A x, y \in S : x # y => Before(x, y) \/ Before(y, x)
  BY BeforeIsAnOrder
<1>4. \A x, y, z \in S : Before(x, y) /\ Before(y, z) => Before(x, z)
  BY BeforeIsAnOrder
<1>5. \A x \in S : IsFiniteSet(below(x)) /\ Cardinality(below(x)) \in Nat /\ Cardinality(below(x)) < n
  <2> TAKE x \in S
  <2>1. below(x) \in SUBSET S /\ x \in S /\ x \notin below(x)
    BY <1>2
  <2> QED
    BY <2>1, <1>1, FS_Subset, FS_CardinalityType
<1>6. \A x, y \in S : Before(x, y) => Cardinality(below(x)) < Cardinality(below(y))
  <2> TAKE x, y \in S
  <2> HAVE Before(x, y)
  <2>1. below(x) \in SUBSET below(y) /\ x \in below(y) /\ x \notin below(x)
    BY <1>2, <1>4
  <2>2. below(x) # below(y)
    BY <2>1
  <2> HIDE DEF below
  <2> QED
    BY <2>1, <2>2, <1>5, FS_Subset
<1> HIDE DEF below
<1>7. rank \in [S -> 1..n] /\ \A x, y \in S : Before(x, y) => rank[x] < rank[y]
  BY <1>1, <1>5, <1>6
<1>8. \A x \in S : rank[x] \in Int
  BY <1>7
<1> HIDE DEF rank
<1>9. rank \in Injection(S, 1..n)
  <2>1. \A x, y \in S : rank[x] = rank[y] => x = y
    BY <1>3, <1>7, <1>8
  <2> QED
    BY <2>1, <1>7 DEF Injection, IsInjective
<1>10. IsFiniteSet(1..n) /\ Cardinality(1..n) = n
  BY <1>1, FS_Interval
<1>11. rank \in Surjection(S, 1..n)
  BY <1>9, <1>10, FS_Injection
<1>12. \A k \in 1..n : \E x \in S : rank[x] = k
  BY <1>11 DEF Surjection
<1> DEFINE s == [k \in 1..n |-> CHOOSE x \in S : rank[x] = k]
<1>13. \A k \in 1..n : s[k] \in S /\ rank[s[k]] = k
  BY <1>12
<1>14. s \in [1..n -> S] /\ DOMAIN s = 1..n
  BY <1>13
<1> HIDE DEF s
<1>15. \A i, j \in DOMAIN s : i < j => Before(s[i], s[j])
  <2> SUFFICES ASSUME NEW i \in 1..n, NEW j \in 1..n, i < j PROVE Before(s[i], s[j])
    BY <1>14
  <2>1. s[i] # s[j] /\ ~Before(s[j], s[i])
    BY <1>1, <1>7, <1>13
  <2> QED
    BY <2>1, <1>3, <1>13
<1>16. s \in Sorted(S)
  BY <1>14, <1>15 DEF Sorted
<1> QED
  BY <1>1, <1>16

\* ORDER BY returns every message once, each before the next.
LEMMA ByTimeSorts ==
  ASSUME PagingTyped, OwnIds, NEW S \in SUBSET Positions
  PROVE  /\ Cardinality(S) \in Nat
         /\ ByTime(S) \in [1..Cardinality(S) -> S]
         /\ \A i, j \in 1..Cardinality(S) : i < j => Before(ByTime(S)[i], ByTime(S)[j])
         /\ \A x \in S : \E k \in 1..Cardinality(S) : ByTime(S)[k] = x
<1> DEFINE n == Cardinality(S)
           s == ByTime(S)
<1>1. IsFiniteSet(S) /\ n \in Nat
  BY SortedExists
<1>2. \E t \in [1..n -> S] : \A i, j \in DOMAIN t : i < j => Before(t[i], t[j])
  BY SortedExists DEF Sorted
<1>3. s \in [1..n -> S] /\ \A i, j \in DOMAIN s : i < j => Before(s[i], s[j])
  BY <1>2 DEF ByTime
<1> HIDE DEF s
<1>4. \A i, j \in 1..n : i < j => Before(s[i], s[j])
  BY <1>3
<1>5. \A i, j \in 1..n : s[i] = s[j] => i = j
  <2> TAKE i, j \in 1..n
  <2>1. s[i] \in Positions /\ s[j] \in Positions
    BY <1>3
  <2>2. i < j \/ j < i \/ i = j
    BY <1>1
  <2> QED
    BY <2>1, <2>2, <1>4, BeforeIsAnOrder
<1>6. s \in Injection(1..n, S)
  BY <1>3, <1>5 DEF Injection, IsInjective
<1>7. Cardinality(1..n) = n
  BY <1>1, FS_Interval
<1>8. s \in Surjection(1..n, S)
  BY <1>1, <1>6, <1>7, FS_Injection
<1>9. \A x \in S : \E k \in 1..n : s[k] = x
  BY <1>8 DEF Surjection
<1> QED
  BY <1>1, <1>3, <1>4, <1>9 DEF s

Older(upTo) == IF upTo = NoCursor THEN Positions
                 ELSE {i \in Positions : upTo \in Positions /\ Before(i, upTo)}

\* The newest of n messages in order, limit of them.
LEMMA PageOfNewest ==
  ASSUME NEW S, NEW n \in Nat, NEW s \in [1..n -> S], NEW limit \in Nat \ {0}, n > limit
  PROVE  /\ Len(s) = n /\ s \in Seq(S)
         /\ Tail(SubSeq(s, n - limit, n)) = [k \in 1..limit |-> s[n - limit + k]]
<1>1. Len(s) = n /\ s \in Seq(S)
  OBVIOUS
<1> DEFINE t == SubSeq(s, n - limit, n)
<1>2. t = [i \in 1..(limit + 1) |-> s[i + (n - limit) - 1]]
  BY <1>1
<1>3. Len(t) = limit + 1
  BY <1>2
<1>4. Tail(t) = [k \in 1..limit |-> t[k + 1]]
  BY <1>2, <1>3
<1>5. \A k \in 1..limit : t[k + 1] = s[n - limit + k]
  BY <1>2
<1> HIDE DEF t
<1>6. Tail(t) = [k \in 1..limit |-> s[n - limit + k]]
  BY <1>4, <1>5
<1> QED
  BY <1>1, <1>6 DEF t

\* A page is the newest part of what is older than its cursor.
LEMMA PageOfOlder ==
  ASSUME PagingTyped, OwnIds, NEW limit \in PageSizes, NEW upTo \in Positions \cup {NoCursor}
  PROVE  LET n == Cardinality(Older(upTo))
             s == ByTime(Older(upTo))
         IN PgPage(limit, upTo) =
              IF n > limit THEN Page([k \in 1..limit |-> s[n - limit + k]], TRUE)
                           ELSE Page(s, FALSE)
<1> DEFINE S == Older(upTo)
           n == Cardinality(S)
           s == ByTime(S)
<1>1. S \in SUBSET Positions
  BY DEF Older
<1>2. n \in Nat /\ s \in [1..n -> S]
  BY <1>1, ByTimeSorts
<1>3. limit \in Nat \ {0}
  BY SizesAssumption
<1>4. Len(s) = n
  BY <1>2
<1>5. PgPage(limit, upTo) = IF Len(s) > limit THEN Page(Tail(SubSeq(s, Len(s) - limit, Len(s))), TRUE)
                                                ELSE Page(s, FALSE)
  BY DEF PgPage, Older
<1> HIDE DEF S, s, n
<1>6. CASE n > limit
  <2>1. Tail(SubSeq(s, n - limit, n)) = [k \in 1..limit |-> s[n - limit + k]]
    BY <1>2, <1>3, <1>6, PageOfNewest
  <2>2. PgPage(limit, upTo) = Page([k \in 1..limit |-> s[n - limit + k]], TRUE)
    BY <2>1, <1>4, <1>5, <1>6
  <2> QED
    BY <2>2, <1>6 DEF S, s, n
<1>7. CASE ~(n > limit)
  BY <1>4, <1>5, <1>7 DEF S, s, n
<1> QED
  BY <1>6, <1>7

\* The reader's next page: in order, behind it nothing older is left out.
LEMMA PageFits ==
  ASSUME PagingTyped, OwnIds, NEW limit \in PageSizes, NEW upTo \in Positions \cup {NoCursor}
  PROVE  LET page == PgPage(limit, upTo)
         IN /\ page.list \in Seq(Older(upTo)) /\ page.more \in BOOLEAN
            /\ page.next = IF page.more THEN page.list[1] ELSE NoCursor
            /\ page.more => 1 \in DOMAIN page.list
            /\ \A i, j \in DOMAIN page.list : i < j => Before(page.list[i], page.list[j])
            /\ \A x \in Older(upTo) :
                 \/ \E k \in DOMAIN page.list : page.list[k] = x
                 \/ page.more /\ Before(x, page.list[1])
<1> DEFINE S == Older(upTo)
           n == Cardinality(S)
           s == ByTime(S)
           page == PgPage(limit, upTo)
           newest == [k \in 1..limit |-> s[n - limit + k]]
<1>1. S \in SUBSET Positions
  BY DEF Older
<1>2. /\ n \in Nat /\ s \in [1..n -> S]
      /\ \A i, j \in 1..n : i < j => Before(s[i], s[j])
      /\ \A x \in S : \E k \in 1..n : s[k] = x
  BY <1>1, ByTimeSorts
<1>3. limit \in Nat \ {0}
  BY SizesAssumption
<1>4. page = IF n > limit THEN Page(newest, TRUE) ELSE Page(s, FALSE)
  BY PageOfOlder
<1>5. Len(s) = n /\ DOMAIN s = 1..n /\ s \in Seq(S)
  BY <1>2
<1> HIDE DEF S, n, s, page
<1>6. CASE n > limit
  <2>1. \A k \in 1..limit : n - limit + k \in 1..n
    BY <1>2, <1>3, <1>6
  <2>2. newest \in [1..limit -> S] /\ DOMAIN newest = 1..limit /\ 1 \in 1..limit
    BY <1>2, <1>3, <2>1
  <2>3. newest \in Seq(S) /\ newest # << >>
    BY <2>2, <1>3
  <2>4. page.list = newest /\ page.more = TRUE /\ page.next = newest[1]
    BY <1>4, <1>6, <2>3 DEF Page
  <2>5. \A i, j \in 1..limit : i < j => Before(newest[i], newest[j])
    <3> SUFFICES ASSUME NEW i \in 1..limit, NEW j \in 1..limit, i < j
                 PROVE  Before(newest[i], newest[j])
      OBVIOUS
    <3>1. n - limit + i < n - limit + j
      BY <1>2, <1>3
    <3>2. Before(s[n - limit + i], s[n - limit + j])
      BY <1>2, <2>1, <3>1
    <3> QED
      BY <3>2
  <2>6. \A x \in S : (\E k \in 1..limit : newest[k] = x) \/ Before(x, newest[1])
    <3> SUFFICES ASSUME NEW x \in S
                 PROVE  (\E k \in 1..limit : newest[k] = x) \/ Before(x, newest[1])
      OBVIOUS
    <3>1. PICK k \in 1..n : s[k] = x
      BY <1>2
    <3>2. CASE k > n - limit
      <4>1. k - (n - limit) \in 1..limit /\ n - limit + (k - (n - limit)) = k
        BY <1>2, <1>3, <3>2
      <4>2. newest[k - (n - limit)] = x
        BY <3>1, <4>1
      <4> QED
        BY <4>1, <4>2
    <3>3. CASE ~(k > n - limit)
      <4>1. k < n - limit + 1 /\ n - limit + 1 \in 1..n
        BY <1>2, <1>3, <2>1, <2>2, <3>3
      <4>2. Before(s[k], s[n - limit + 1])
        BY <1>2, <4>1
      <4> QED
        BY <3>1, <4>2, <2>2
    <3> QED
      BY <3>2, <3>3
  <2> HIDE DEF newest
  <2> QED
    BY <2>2, <2>3, <2>4, <2>5, <2>6 DEF S, page
<1>7. CASE ~(n > limit)
  <2>1. page.list = s /\ page.more = FALSE /\ page.next = NoCursor
    BY <1>4, <1>7 DEF Page
  <2> QED
    BY <1>2, <1>5, <2>1 DEF S, page
<1> QED
  BY <1>6, <1>7

-----------------------------------------------------------------------------
LEMMA PagingInitInv == PagingInit => PagingInv
<1> SUFFICES ASSUME PagingInit PROVE PagingInv
  OBVIOUS
<1>1. Positions = {}
  BY DEF PagingInit, Positions
<1>2. PagingTyped
  <2>1. \A S : << >> \in Seq(S)
    OBVIOUS
  <2> QED
    BY <2>1 DEF PagingInit, PagingTyped
<1> QED
  BY <1>1, <1>2 DEF PagingInit, PagingInv, OwnIds, CursorIsFirst, RestIsAhead, PagesInOrder, NoCursor

LEMMA WriteKeeps ==
  ASSUME PagingInv, NEW at \in Times, NEW id \in Ids, WriteMessage(at, id)
  PROVE  PagingInv'
<1> DEFINE R == [at : Times, id : Ids]
           m == [at |-> at, id |-> id]
<1>1. PagingTyped /\ OwnIds
  BY DEF PagingInv
<1>2. /\ written \in Seq(R) /\ m \in R /\ written' = Append(written, m)
      /\ cursor' = cursor /\ pages' = pages /\ atStart' = atStart /\ ended' = ended
      /\ cutShort' = cutShort
      /\ \A i \in Positions : written[i].id # id
  BY <1>1 DEF PagingTyped, WriteMessage
<1>3. Len(written) \in Nat /\ Positions = 1..Len(written)
  BY <1>1, PositionsAreFinite
<1> HIDE DEF R, m
<1>4. /\ written' \in Seq(R) /\ Len(written') = Len(written) + 1
      /\ \A i \in Positions : written'[i] = written[i]
      /\ written'[Len(written) + 1] = m
  BY <1>2, <1>3
<1>5. Positions' = 1..(Len(written) + 1)
  BY <1>2, <1>4 DEF Positions
<1>6. Positions \subseteq Positions'
  BY <1>3, <1>5
<1>7. \A i \in Positions' : i \in Positions \/ i = Len(written) + 1
  BY <1>3, <1>5
<1>8. \A i, j \in Positions : Before(i, j)' <=> Before(i, j)
  BY <1>4 DEF Before
<1>9. m.id = id
  BY DEF m
<1>10. OwnIds'
  <2>1. \A i, j \in Positions' : written'[i].id = written'[j].id => i = j
    BY <1>1, <1>2, <1>4, <1>7, <1>9 DEF OwnIds
  <2> QED
    BY <2>1 DEF OwnIds
<1>11. pages \in Seq(Positions')
  <2>1. pages \in Seq(Positions)
    BY <1>1 DEF PagingTyped
  <2> QED
    BY <2>1, <1>6
<1>12. PagingTyped'
  BY <1>1, <1>2, <1>4, <1>6, <1>11 DEF PagingTyped, R
<1>13. \A i \in DOMAIN pages : pages[i] \in Positions
  BY <1>1 DEF PagingTyped
<1>14. PagesInOrder'
  <2>1. \A i, j \in DOMAIN pages : i < j => Before(pages[i], pages[j])'
    BY <1>8, <1>13, <1>2 DEF PagingInv, PagesInOrder
  <2> QED
    BY <2>1, <1>2 DEF PagesInOrder
<1>15. RestIsAhead'
  <2>1. \A i \in atStart : i \in Positions
    BY <1>1 DEF PagingTyped
  <2>2. cursor # NoCursor => cursor \in Positions
    BY <1>1 DEF PagingTyped
  <2> QED
    BY <2>1, <2>2, <1>2, <1>8, <1>13 DEF PagingInv, RestIsAhead
<1>16. CursorIsFirst'
  BY <1>2 DEF PagingInv, CursorIsFirst
<1> QED
  BY <1>10, <1>12, <1>14, <1>15, <1>16 DEF PagingInv

LEMMA Joined ==
  ASSUME NEW S, NEW s \in Seq(S), NEW t \in Seq(S)
  PROVE  /\ s \o t \in Seq(S)
         /\ DOMAIN s = 1..Len(s) /\ DOMAIN t = 1..Len(t) /\ Len(s) \in Nat /\ Len(t) \in Nat
         /\ DOMAIN (s \o t) = 1..(Len(s) + Len(t))
         /\ \A i \in DOMAIN s : i \in DOMAIN (s \o t) /\ (s \o t)[i] = s[i]
         /\ \A i \in DOMAIN t : Len(s) + i \in DOMAIN (s \o t) /\ (s \o t)[Len(s) + i] = t[i]
         /\ \A i \in DOMAIN (s \o t) :
              i \in DOMAIN s \/ (i - Len(s) \in DOMAIN t /\ (s \o t)[i] = t[i - Len(s)])
<1>1. /\ s \o t \in Seq(S) /\ Len(s) \in Nat /\ Len(t) \in Nat
      /\ DOMAIN s = 1..Len(s) /\ DOMAIN t = 1..Len(t)
  OBVIOUS
<1>2. /\ Len(s \o t) = Len(s) + Len(t)
      /\ \A i \in 1..(Len(s) + Len(t)) :
           (s \o t)[i] = IF i <= Len(s) THEN s[i] ELSE t[i - Len(s)]
  BY <1>1
<1>3. DOMAIN (s \o t) = 1..(Len(s) + Len(t))
  BY <1>1, <1>2
<1>4. \A i \in DOMAIN s : i \in DOMAIN (s \o t) /\ (s \o t)[i] = s[i]
  BY <1>1, <1>2, <1>3
<1>5. \A i \in DOMAIN t : Len(s) + i \in DOMAIN (s \o t) /\ (s \o t)[Len(s) + i] = t[i]
  <2> TAKE i \in DOMAIN t
  <2>1. Len(s) + i \in 1..(Len(s) + Len(t)) /\ ~(Len(s) + i <= Len(s)) /\ Len(s) + i - Len(s) = i
    BY <1>1
  <2> QED
    BY <2>1, <1>2, <1>3
<1>6. \A i \in DOMAIN (s \o t) :
        i \in DOMAIN s \/ (i - Len(s) \in DOMAIN t /\ (s \o t)[i] = t[i - Len(s)])
  <2> TAKE i \in DOMAIN (s \o t)
  <2>1. i \in 1..(Len(s) + Len(t)) /\ i \in Int
    BY <1>1, <1>3
  <2>2. CASE i <= Len(s)
    BY <2>1, <2>2, <1>1
  <2>3. CASE ~(i <= Len(s))
    BY <2>1, <2>3, <1>1, <1>2
  <2> QED
    BY <2>2, <2>3
<1> QED
  BY <1>1, <1>3, <1>4, <1>5, <1>6

LEMMA ReadKeeps ==
  ASSUME PagingInv, NEW limit \in PageSizes, ReadPage(limit)
  PROVE  PagingInv'
<1> DEFINE page == PgPage(limit, cursor)
           list == page.list
<1>1. PagingTyped /\ OwnIds /\ PagesInOrder /\ CursorIsFirst /\ RestIsAhead
  BY DEF PagingInv
<1>2. /\ ~ended /\ pages' = list \o pages /\ cursor' = page.next /\ ended' = ~page.more
      /\ atStart' = (IF cursor = NoCursor THEN Positions ELSE atStart) /\ written' = written
      /\ cutShort' = cutShort /\ ~cutShort
  BY <1>1 DEF ReadPage, PagingTyped
<1>3. cursor \in Positions \cup {NoCursor} /\ pages \in Seq(Positions) /\ atStart \subseteq Positions
  BY <1>1 DEF PagingTyped
<1>4. /\ list \in Seq(Older(cursor)) /\ page.more \in BOOLEAN
      /\ page.next = IF page.more THEN list[1] ELSE NoCursor
      /\ page.more => 1 \in DOMAIN list
      /\ \A i, j \in DOMAIN list : i < j => Before(list[i], list[j])
  BY <1>1, <1>3, PageFits
<1>5. \A x \in Older(cursor) :
         (\E k \in DOMAIN list : list[k] = x) \/ (page.more /\ Before(x, list[1]))
  BY <1>1, <1>3, PageFits
<1> HIDE DEF page, list
<1>6. Older(cursor) \subseteq Positions /\ (cursor = NoCursor => Older(cursor) = Positions)
      /\ (cursor # NoCursor => \A x \in Positions : x \in Older(cursor) <=> Before(x, cursor))
  BY <1>3 DEF Older
<1>7. list \in Seq(Positions) /\ \A i \in DOMAIN list : list[i] \in Older(cursor)
  BY <1>4, <1>6
<1>8. /\ pages' \in Seq(Positions)
      /\ DOMAIN list = 1..Len(list) /\ DOMAIN pages = 1..Len(pages)
      /\ Len(list) \in Nat /\ Len(pages) \in Nat
      /\ \A i \in DOMAIN list : i \in DOMAIN pages' /\ pages'[i] = list[i]
      /\ \A i \in DOMAIN pages : Len(list) + i \in DOMAIN pages' /\ pages'[Len(list) + i] = pages[i]
      /\ \A i \in DOMAIN pages' : i \in DOMAIN list \/ (i - Len(list) \in DOMAIN pages /\ pages'[i] = pages[i - Len(list)])
      /\ DOMAIN pages' \subseteq Int
  BY <1>2, <1>3, <1>7, Joined
<1>9. Positions' = Positions /\ \A i, j : Before(i, j)' <=> Before(i, j)
  BY <1>2 DEF Positions, Before
<1>10. \A i \in Positions : ~Before(i, i)
  BY <1>1, BeforeIsAnOrder
<1>11. \A i, j, k \in Positions : Before(i, j) /\ Before(j, k) => Before(i, k)
  BY <1>1, BeforeIsAnOrder
<1>12. NoCursor \notin Positions
  BY <1>1, PositionsAreFinite
<1>13. page.more => list[1] \in Positions /\ cursor' = list[1] /\ cursor' # NoCursor
  BY <1>2, <1>4, <1>6, <1>7, <1>12
<1>14. ~page.more => cursor' = NoCursor /\ ended'
  BY <1>2, <1>4
<1>15. PagingTyped'
  <2>1. cursor' \in Positions' \cup {NoCursor}
    BY <1>4, <1>9, <1>13, <1>14
  <2>2. ended' \in BOOLEAN
    BY <1>2
  <2>3. atStart' \in SUBSET Positions'
    BY <1>2, <1>3, <1>9
  <2>4. written' \in Seq([at : Times, id : Ids])
    BY <1>1, <1>2 DEF PagingTyped
  <2>5. cutShort' \in BOOLEAN /\ ~cutShort'
    BY <1>1, <1>2, Zenon DEF PagingTyped
  <2> QED
    BY <2>1, <2>2, <2>3, <2>4, <2>5, <1>8, <1>9 DEF PagingTyped
<1>16. OwnIds'
  BY <1>1, <1>2, <1>9 DEF OwnIds
<1>17. CursorIsFirst'
  <2>1. CASE page.more
    <3>1. 1 \in DOMAIN pages' /\ pages'[1] = list[1] /\ pages' # << >>
      BY <2>1, <1>4, <1>8
    <3> QED
      BY <2>1, <3>1, <1>13 DEF CursorIsFirst
  <2>2. CASE ~page.more
    BY <2>2, <1>14 DEF CursorIsFirst
  <2> QED
    BY <2>1, <2>2, <1>4
<1>18. \A i \in DOMAIN pages : cursor # NoCursor /\ cursor \in Positions /\ (pages[i] = cursor \/ Before(cursor, pages[i]))
  <2> TAKE i \in DOMAIN pages
  <2>1. pages # << >>
    OBVIOUS
  <2>2. cursor # NoCursor /\ cursor = pages[1] /\ 1 \in DOMAIN pages
    BY <1>1, <1>2, <1>8, <2>1 DEF CursorIsFirst
  <2>3. i = 1 \/ 1 < i
    BY <1>8
  <2> QED
    BY <1>1, <1>3, <2>2, <2>3 DEF PagesInOrder
<1>19. PagesInOrder'
  <2> SUFFICES ASSUME NEW i \in DOMAIN pages', NEW j \in DOMAIN pages', i < j
               PROVE  Before(pages'[i], pages'[j])
    BY <1>9 DEF PagesInOrder
  <2>1. CASE i \in DOMAIN list /\ j \in DOMAIN list
    BY <2>1, <1>4, <1>8
  <2>2. CASE i \in DOMAIN list /\ j \notin DOMAIN list
    <3>1. /\ pages'[i] \in Older(cursor) /\ j - Len(list) \in DOMAIN pages
          /\ pages'[j] = pages[j - Len(list)]
      BY <2>2, <1>7, <1>8
    <3>2. /\ cursor # NoCursor /\ cursor \in Positions
          /\ pages'[j] = cursor \/ Before(cursor, pages'[j])
      BY <3>1, <1>18
    <3>3. pages'[i] \in Positions /\ Before(pages'[i], cursor) /\ pages'[j] \in Positions
      BY <3>1, <3>2, <1>3, <1>6
    <3> QED
      BY <3>2, <3>3, <1>11
  <2>3. CASE i \notin DOMAIN list
    <3>1. i - Len(list) \in DOMAIN pages /\ pages'[i] = pages[i - Len(list)]
      BY <2>3, <1>8
    <3>2. j \notin DOMAIN list
      BY <2>3, <3>1, <1>8
    <3>3. j - Len(list) \in DOMAIN pages /\ pages'[j] = pages[j - Len(list)]
      BY <3>2, <1>8
    <3>4. i - Len(list) < j - Len(list)
      BY <1>8
    <3> QED
      BY <3>1, <3>3, <3>4, <1>1 DEF PagesInOrder
  <2> QED
    BY <2>1, <2>2, <2>3
<1>20. RestIsAhead'
  <2> SUFFICES ASSUME NEW i \in atStart'
               PROVE  \/ \E k \in DOMAIN pages' : pages'[k] = i
                      \/ ~ended' /\ cursor' # NoCursor /\ Before(i, cursor')
    BY <1>9 DEF RestIsAhead
  <2>1. i \in Older(cursor) \/ \E k \in DOMAIN pages : pages[k] = i
    <3>1. CASE cursor = NoCursor
      BY <3>1, <1>2, <1>6
    <3>2. CASE cursor # NoCursor
      BY <3>2, <1>1, <1>2, <1>3, <1>6 DEF RestIsAhead
    <3> QED
      BY <3>1, <3>2
  <2>2. CASE \E k \in DOMAIN pages : pages[k] = i
    BY <2>2, <1>8
  <2>3. CASE i \in Older(cursor)
    <3>1. (\E k \in DOMAIN list : list[k] = i) \/ (page.more /\ Before(i, list[1]))
      BY <2>3, <1>5
    <3>2. CASE \E k \in DOMAIN list : list[k] = i
      BY <3>2, <1>8
    <3>3. CASE page.more /\ Before(i, list[1])
      BY <3>3, <1>2, <1>13
    <3> QED
      BY <3>1, <3>2, <3>3
  <2> QED
    BY <2>1, <2>2, <2>3
<1> QED
  BY <1>15, <1>16, <1>17, <1>19, <1>20 DEF PagingInv

\* A reader whose cursor is the first of its pages has all after what lies before it.
LEMMA CursorIsBound ==
  ASSUME PagingInv, cursor # NoCursor, NEW i \in Positions, Before(i, cursor)
  PROVE  \A k \in DOMAIN pages : Before(i, pages[k])
<1>1. PagingTyped /\ OwnIds /\ PagesInOrder /\ CursorIsFirst
  BY DEF PagingInv
<1>2. /\ pages \in Seq(Positions) /\ pages # << >> /\ cursor = pages[1]
      /\ DOMAIN pages = 1..Len(pages) /\ Len(pages) \in Nat \ {0}
  BY <1>1 DEF PagingTyped, CursorIsFirst
<1>3. \A x, y, z \in Positions : Before(x, y) /\ Before(y, z) => Before(x, z)
  BY <1>1, BeforeIsAnOrder
<1> TAKE k \in DOMAIN pages
<1>4. cursor \in Positions /\ pages[k] \in Positions
  BY <1>2
<1>5. CASE k = 1
  BY <1>2, <1>5
<1>6. CASE k # 1
  <2>1. 1 \in DOMAIN pages /\ 1 < k
    BY <1>2, <1>6
  <2>2. Before(cursor, pages[k])
    BY <1>1, <1>2, <2>1 DEF PagesInOrder
  <2> QED
    BY <1>3, <1>4, <2>2
<1> QED
  BY <1>5, <1>6

LEMMA PageFailsKeeps == PagingInv /\ PageFails => PagingInv'
<1> SUFFICES ASSUME PagingInv, PageFails PROVE PagingInv'
  OBVIOUS
<1>1. PagingTyped /\ OwnIds /\ PagesInOrder /\ CursorIsFirst /\ RestIsAhead
  BY DEF PagingInv
<1>2. /\ ~ended /\ ~cutShort /\ ended' = TRUE /\ cutShort' = TRUE /\ cursor' = NoCursor
      /\ atStart' = (IF cursor = NoCursor THEN Positions ELSE atStart)
      /\ UNCHANGED <<written, pages>>
  BY <1>1 DEF PageFails, PagingTyped
<1>3. Positions' = Positions /\ \A i, j : Before(i, j)' <=> Before(i, j)
  BY <1>2 DEF Positions, Before
<1>4. PagingTyped'
  BY <1>1, <1>2, <1>3 DEF PagingTyped
<1>5. OwnIds' /\ PagesInOrder' /\ CursorIsFirst'
  BY <1>1, <1>2, <1>3 DEF OwnIds, PagesInOrder, CursorIsFirst
<1>6. RestIsAhead'
  <2> SUFFICES ASSUME NEW i \in atStart'
               PROVE  \/ \E k \in DOMAIN pages : pages[k] = i
                      \/ \A k \in DOMAIN pages : Before(i, pages[k])
    BY <1>2, <1>3 DEF RestIsAhead
  <2>1. CASE cursor = NoCursor
    <3>1. pages = << >>
      BY <1>1, <1>2, <2>1 DEF CursorIsFirst
    <3> QED
      BY <3>1
  <2>2. CASE cursor # NoCursor
    <3>1. i \in atStart /\ i \in Positions
      BY <1>1, <1>2, <2>2 DEF PagingTyped
    <3>2. (\E k \in DOMAIN pages : pages[k] = i) \/ Before(i, cursor)
      BY <1>1, <1>2, <3>1 DEF RestIsAhead
    <3> QED
      BY <2>2, <3>1, <3>2, CursorIsBound
  <2> QED
    BY <2>1, <2>2
<1> QED
  BY <1>4, <1>5, <1>6 DEF PagingInv

LEMMA PagingInvariant == PagingSpec => []PagingInv
<1>1. PagingInv /\ [PagingNext]_pagingVars => PagingInv'
  <2> SUFFICES ASSUME PagingInv, [PagingNext]_pagingVars PROVE PagingInv'
    OBVIOUS
  <2>1. ASSUME NEW at \in Times, NEW id \in Ids, WriteMessage(at, id) PROVE PagingInv'
    BY <2>1, WriteKeeps
  <2>2. ASSUME NEW limit \in PageSizes, ReadPage(limit) PROVE PagingInv'
    BY <2>2, ReadKeeps
  <2>3. CASE UNCHANGED pagingVars
    BY <2>3 DEF pagingVars, PagingInv, PagingTyped, OwnIds, CursorIsFirst, RestIsAhead, PagesInOrder,
       Positions, Before
  <2>4. CASE PageFails
    BY <2>4, PageFailsKeeps
  <2> QED
    BY <2>1, <2>2, <2>3, <2>4 DEF PagingNext
<1> QED
  BY <1>1, PagingInitInv, PTL DEF PagingSpec

\* Whatever the clocks show and whatever is written between two pages, a reader
\* gets what was there once, in the order of time, never with a gap, and all of it,
\* unless a read failed and passed for the last page.
THEOREM NothingIsSkipped == PagingSpec => []PagesAreComplete
<1>1. ASSUME PagingInv PROVE PagesAreComplete
  <2> DEFINE missing == atStart \ {pages[i] : i \in DOMAIN pages}
  <2>1. PagingTyped /\ PagesInOrder /\ RestIsAhead
    BY <1>1 DEF PagingInv
  <2>2. ASSUME NEW m \in missing
        PROVE  /\ \A i \in DOMAIN pages : Before(m, pages[i])
               /\ ~(ended /\ ~cutShort)
    <3>1. m \in atStart /\ m \in Positions /\ ~\E k \in DOMAIN pages : pages[k] = m
      BY <2>1 DEF PagingTyped
    <3>2. \/ ~ended /\ cursor # NoCursor /\ Before(m, cursor)
          \/ cutShort /\ \A k \in DOMAIN pages : Before(m, pages[k])
      BY <2>1, <3>1 DEF RestIsAhead
    <3> QED
      BY <1>1, <3>1, <3>2, CursorIsBound
  <2> HIDE DEF missing
  <2>3. /\ \A i, j \in DOMAIN pages : i < j => Before(pages[i], pages[j])
        /\ \A m \in missing, i \in DOMAIN pages : Before(m, pages[i])
        /\ ended /\ ~cutShort => missing = {}
    BY <2>1, <2>2 DEF PagesInOrder
  <2> QED
    BY <2>3 DEF missing, PagesAreComplete
<1> QED
  BY <1>1, PagingInvariant, PTL

-----------------------------------------------------------------------------
\* What increases from a set of numbers 1..m onto itself leaves them as they are.
LEMMA IncreasingIsIdentity ==
  ASSUME NEW m \in Nat, NEW s \in [1..m -> 1..m],
         \A i, j \in 1..m : i < j => s[i] < s[j],
         \A x \in 1..m : \E k \in 1..m : s[k] = x
  PROVE  s = [i \in 1..m |-> i]
<1> SUFFICES ASSUME NEW i \in 1..m PROVE s[i] = i
  OBVIOUS
<1> DEFINE A == 1..(i - 1)
           B == 1..(s[i] - 1)
           f == [j \in A |-> s[j]]
<1>1. i \in Nat /\ 1 <= i /\ i <= m /\ \A j \in 1..m : s[j] \in Nat /\ 1 <= s[j] /\ s[j] <= m
  OBVIOUS
<1>2. \A j, k \in 1..m : (s[j] < s[k] <=> j < k) /\ (s[j] = s[k] => j = k)
  <2> TAKE j, k \in 1..m
  <2>1. j \in Int /\ k \in Int /\ s[j] \in Int /\ s[k] \in Int
    BY <1>1
  <2>2. (j < k => s[j] < s[k]) /\ (k < j => s[k] < s[j]) /\ (j = k => s[j] = s[k])
    OBVIOUS
  <2>3. CASE j < k
    BY <2>1, <2>2, <2>3
  <2>4. CASE k < j
    <3>1. s[k] < s[j] /\ ~(j < k) /\ j # k
      BY <2>1, <2>2, <2>4
    <3>2. \A x, y \in Int : x < y => ~(y < x) /\ y # x
      OBVIOUS
    <3>3. ~(s[j] < s[k]) /\ s[j] # s[k]
      BY <2>1, <3>1, <3>2, Zenon
    <3> QED
      BY <3>1, <3>3
  <2>5. CASE j = k
    BY <2>1, <2>5
  <2> QED
    BY <2>1, <2>3, <2>4, <2>5
<1>3. \A j \in A : j \in 1..m /\ j < i
  BY <1>1
<1>4. \A j \in A : s[j] \in B
  <2> TAKE j \in A
  <2>1. s[j] < s[i] /\ s[j] \in Nat /\ 1 <= s[j] /\ s[i] \in Nat
    BY <1>1, <1>3
  <2> QED
    BY <2>1
<1>5. \A j, k \in A : s[j] = s[k] => j = k
  BY <1>3, <1>2
<1>6. \A x \in B : \E j \in A : s[j] = x
  <2> TAKE x \in B
  <2>1. x \in 1..m /\ x < s[i]
    BY <1>1
  <2>2. PICK j \in 1..m : s[j] = x
    BY <2>1
  <2>3. j < i
    BY <2>1, <2>2, <1>2
  <2> QED
    BY <2>2, <2>3, <1>1
<1> HIDE DEF A, B
<1>7. f \in Bijection(A, B)
  BY <1>4, <1>5, <1>6 DEF Bijection, Injection, Surjection, IsInjective
<1>8. IsFiniteSet(A) /\ Cardinality(A) = i - 1 /\ Cardinality(B) = s[i] - 1
  <2>1. \A k \in Nat \ {0} : IsFiniteSet(1..(k - 1)) /\ Cardinality(1..(k - 1)) = k - 1
    <3> TAKE k \in Nat \ {0}
    <3>1. k - 1 \in Nat /\ 1 \in Int /\ k - 1 - 1 + 1 = k - 1
      OBVIOUS
    <3> QED
      BY <3>1, FS_Interval
  <2>2. i \in Nat \ {0} /\ s[i] \in Nat \ {0}
    <3>1. s[i] \in Nat /\ 1 <= s[i] /\ i \in Nat /\ 1 <= i
      BY <1>1
    <3> QED
      BY <3>1
  <2> QED
    BY <2>1, <2>2 DEF A, B
<1>9. Cardinality(B) = Cardinality(A)
  BY <1>7, <1>8, FS_Bijection DEF ExistsBijection
<1> QED
  BY <1>1, <1>8, <1>9

\* With clocks that keep the order of writing both stores compute the same page,
\* for messages of any number and pages of any size.
THEOREM PagesOfBothStores == PagingSpec => []StoresAgree
<1>1. PagingInv => StoresAgree
  <2> SUFFICES ASSUME PagingInv,
                      \A i, j \in Positions : i < j => written[i].at < written[j].at,
                      NEW limit \in PageSizes, NEW upTo \in Positions \cup {NoCursor}
               PROVE  PgPage(limit, upTo) = MemoryPage(limit, upTo)
    BY DEF StoresAgree
  <2>1. PagingTyped /\ OwnIds
    BY DEF PagingInv
  <2>2. /\ Len(written) \in Nat /\ Positions = 1..Len(written) /\ NoCursor \notin Positions
        /\ \A i \in Positions : written[i].at \in Int
    BY <2>1, PositionsAreFinite
  <2>3. limit \in Nat \ {0}
    BY SizesAssumption
  <2>4. \A i, j \in Positions : Before(i, j) <=> i < j
    <3> TAKE i, j \in Positions
    <3>1. i < j \/ j < i \/ i = j
      BY <2>2
    <3>2. written[i].at \in Int /\ written[j].at \in Int /\ i \in Int /\ j \in Int
      BY <2>2
    <3>3. CASE i < j
      BY <3>3 DEF Before
    <3>4. CASE j < i
      <4>1. written[j].at < written[i].at
        BY <3>4
      <4> QED
        BY <3>2, <3>4, <4>1 DEF Before
    <3>5. CASE i = j
      BY <2>1, <3>2, <3>5, BeforeIsAnOrder
    <3> QED
      BY <3>1, <3>3, <3>4, <3>5
  <2> DEFINE m == IF upTo \in Positions THEN upTo - 1 ELSE Len(written)
             s == ByTime(1..m)
  <2>5. m \in Nat /\ 1..m \subseteq Positions /\ Older(upTo) = 1..m
    <3>1. CASE upTo = NoCursor
      BY <3>1, <2>2 DEF Older
    <3>2. CASE upTo # NoCursor
      <4>1. upTo \in Positions /\ upTo \in Nat /\ 1 <= upTo /\ upTo <= Len(written)
        BY <3>2, <2>2
      <4>2. m = upTo - 1 /\ Older(upTo) = {i \in Positions : i < upTo}
        BY <3>2, <4>1, <2>4 DEF Older
      <4>3. {i \in Positions : i < upTo} = 1..(upTo - 1)
        BY <4>1, <2>2
      <4> QED
        BY <4>1, <4>2, <4>3, <2>2
    <3> QED
      BY <3>1, <3>2
  <2>6. Cardinality(1..m) = m
    BY <2>5, FS_Interval
  <2>7. /\ s \in [1..m -> 1..m]
        /\ \A i, j \in 1..m : i < j => Before(s[i], s[j])
        /\ \A x \in 1..m : \E k \in 1..m : s[k] = x
    BY <2>1, <2>5, <2>6, ByTimeSorts
  <2> HIDE DEF s
  <2>8. \A i, j \in 1..m : i < j => s[i] < s[j]
    BY <2>4, <2>5, <2>7
  <2> HIDE DEF m
  <2>9. s = [i \in 1..m |-> i]
    BY <2>5, <2>7, <2>8, IncreasingIsIdentity
  <2>10. PgPage(limit, upTo) =
           IF m > limit THEN Page([k \in 1..limit |-> s[m - limit + k]], TRUE) ELSE Page(s, FALSE)
    BY <2>1, <2>5, <2>6, PageOfOlder DEF s
  <2>11. MemoryPage(limit, upTo) =
           LET start == IF m > limit THEN m - limit ELSE 0
           IN Page([i \in 1..(m - start) |-> start + i], start > 0)
    BY DEF MemoryPage, m
  <2>12. CASE m > limit
    <3>1. m - limit > 0 /\ m - (m - limit) = limit
      BY <2>3, <2>5, <2>12
    <3>2. [k \in 1..limit |-> s[m - limit + k]] = [i \in 1..limit |-> (m - limit) + i]
      BY <2>3, <2>5, <2>9, <2>12
    <3> QED
      BY <2>10, <2>11, <2>12, <3>1, <3>2
  <2>13. CASE ~(m > limit)
    <3>1. m - 0 = m /\ (0 > 0) = FALSE
      BY <2>5
    <3>2. s = [i \in 1..m |-> 0 + i]
      BY <2>5, <2>9
    <3>3. MemoryPage(limit, upTo) = Page([i \in 1..m |-> 0 + i], FALSE)
      <4>1. MemoryPage(limit, upTo) = Page([i \in 1..(m - 0) |-> 0 + i], 0 > 0)
        BY <2>11, <2>13
      <4> QED
        BY <4>1, <3>1
    <3> QED
      BY <2>10, <2>13, <3>2, <3>3
  <2> QED
    BY <2>12, <2>13
<1> QED
  BY <1>1, PagingInvariant, PTL

-----------------------------------------------------------------------------
(* The release loop *)

Handled == Convs \ todo
Free == Atomic!Candidates   \* the agents with room when the loop starts

\* What agent a has received and what its counter should be.
Given(dest, R, a) == before[a] + Cardinality(Received(dest, R, a))

\* GreedyDispatch of the counters the loop started with.
Greedy(dest, R) ==
  /\ aiMode = "always_ai" => \A c \in R : dest[c] = NoAgent
  /\ aiMode # "always_ai" =>
       /\ (\E c \in R : dest[c] = NoAgent) => \A b \in Free : Given(dest, R, b) = maxConv[b]
       /\ \A b \in Free : Given(dest, R, b) <= maxConv[b]
       /\ \A b \in Free : Received(dest, R, b) # {} =>
            \A d \in Free : Given(dest, R, d) < maxConv[d] =>
              \/ Given(dest, R, b) - 1 < Given(dest, R, d)
              \/ Given(dest, R, b) - 1 = Given(dest, R, d) /\ b <= d

LoopTyped ==
  /\ agents = Agents
  /\ maxConv \in [Agents -> Limits]
  /\ before \in [Agents -> Nat]
  /\ current \in [Agents -> Nat]
  /\ todo \in SUBSET Convs
  /\ owner \in [Convs -> Free \cup {NoAgent}]

\* The counters are the old ones and what was handed out, to nobody yet in todo.
LoopCounted ==
  /\ \A c \in todo : owner[c] = NoAgent
  /\ \A a \in Agents : current[a] = Given(owner, Handled, a)

LoopInv == LoopTyped /\ LoopCounted /\ Greedy(owner, Handled)

LEMMA AtomicLoad ==
  ASSUME NEW dest, NEW R, NEW a
  PROVE  Atomic!LoadAfter(dest, R, a) = Given(dest, R, a)
<1>1. \A S : Atomic!Cardinality(S) = Cardinality(S)
  BY DEF Atomic!Cardinality, Cardinality
<1> QED
  BY <1>1 DEF Atomic!LoadAfter, Atomic!Received, Received, Given

LEMMA GreedyIsAtomic ==
  ASSUME NEW dest, NEW R
  PROVE  Atomic!GreedyDispatch(dest, R, Atomic!Candidates) <=> Greedy(dest, R)
<1>1. /\ \A b : Atomic!LoadAfter(dest, R, b) = Given(dest, R, b)
      /\ \A b : Atomic!Received(dest, R, b) = Received(dest, R, b)
  BY AtomicLoad DEF Atomic!Received, Received
<1> QED
  BY <1>1 DEF Atomic!GreedyDispatch, Greedy, Free, NoAgent, Atomic!NoAgent

LEMMA FreeIs ==
  ASSUME LoopTyped
  PROVE  /\ Free \subseteq Agents /\ NoAgent \notin Free /\ IsFiniteSet(Free) /\ Free \subseteq Nat
         /\ Free = {a \in Agents : agentStatus[a] = "online" /\ ~disabled[a] /\ before[a] < maxConv[a]}
         /\ Limits \subseteq Nat
<1>1. Free = {a \in Agents : agentStatus[a] = "online" /\ ~disabled[a] /\ before[a] < maxConv[a]}
  BY DEF Free, Atomic!Candidates, LoopTyped
<1>2. Agents \subseteq Nat \ {NoAgent} /\ IsFiniteSet(Agents) /\ Limits \subseteq Nat
  BY AgentsAssumption, LimitsAssumption
<1> QED
  BY <1>1, <1>2, FS_Subset

LEMMA ConvsCount ==
  ASSUME NEW S \in SUBSET Convs
  PROVE  IsFiniteSet(S) /\ Cardinality(S) \in Nat
<1>1. IsFiniteSet(Convs)
  BY FS_Interval, BoundAssumption DEF Convs
<1> QED
  BY <1>1, FS_Subset, FS_CardinalityType

LEMMA GivenIsNat ==
  ASSUME LoopTyped, NEW R \in SUBSET Convs, NEW dest, NEW a \in Agents
  PROVE  /\ Given(dest, R, a) \in Nat /\ before[a] \in Nat /\ maxConv[a] \in Nat
         /\ IsFiniteSet(Received(dest, R, a)) /\ Cardinality(Received(dest, R, a)) \in Nat
<1>1. Received(dest, R, a) \in SUBSET Convs
  BY DEF Received
<1>2. before[a] \in Nat /\ maxConv[a] \in Nat
  BY FreeIs DEF LoopTyped
<1> QED
  BY <1>1, <1>2, ConvsCount DEF Given

-----------------------------------------------------------------------------
LEMMA LoopInitInv == LoopInit => LoopInv
<1> SUFFICES ASSUME LoopInit PROVE LoopInv
  OBVIOUS
<1>1. /\ agents = Agents /\ maxConv \in [Agents -> Limits] /\ current \in [Agents -> Counters]
      /\ todo = Convs /\ before = current /\ owner = [c \in Convs |-> NoAgent]
  BY DEF LoopInit
<1>2. LoopTyped
  BY <1>1, CountersAssumption DEF LoopTyped
<1>3. Handled = {}
  BY <1>1 DEF Handled
<1>4. \A a : Received(owner, Handled, a) = {}
  BY <1>3 DEF Received
<1>5. Cardinality({}) = 0
  BY FS_EmptySet
<1>6. \A a \in Agents : Given(owner, Handled, a) = before[a] /\ before[a] \in Nat
  BY <1>2, <1>4, <1>5 DEF Given, LoopTyped
<1>7. LoopCounted
  BY <1>1, <1>6 DEF LoopCounted
<1>8. Greedy(owner, Handled)
  <2>1. \A b \in Free : Given(owner, Handled, b) <= maxConv[b]
    BY <1>2, <1>6, FreeIs, GivenIsNat
  <2> QED
    BY <1>3, <1>4, <2>1 DEF Greedy
<1> QED
  BY <1>2, <1>7, <1>8 DEF LoopInv

\* What an iteration leaves alone.
LEMMA ReleaseOneFrame ==
  ASSUME LoopInv, NEW c \in Convs, ReleaseOne(c)
  PROVE  /\ agents' = agents /\ agentStatus' = agentStatus /\ disabled' = disabled
         /\ maxConv' = maxConv /\ aiMode' = aiMode /\ before' = before
         /\ c \in todo /\ todo' = todo \ {c} /\ Free' = Free
         /\ Handled' = Handled \cup {c} /\ c \notin Handled /\ owner[c] = NoAgent
         /\ Handled \in SUBSET Convs
<1>1. /\ agents' = agents /\ agentStatus' = agentStatus /\ disabled' = disabled
      /\ maxConv' = maxConv /\ aiMode' = aiMode /\ before' = before
      /\ c \in todo /\ todo' = todo \ {c}
  BY DEF ReleaseOne, agentVars, settings
<1>2. Free' = Free
  BY <1>1 DEF Free, Atomic!Candidates
<1>3. owner[c] = NoAgent
  BY <1>1 DEF LoopInv, LoopCounted
<1> QED
  BY <1>1, <1>2, <1>3 DEF Handled

LEMMA GivenToOne ==
  ASSUME LoopInv, NEW c \in Convs, c \in todo, NEW a \in Free, before' = before,
         Handled' = Handled \cup {c}, owner' = [owner EXCEPT ![c] = a]
  PROVE  /\ Received(owner', Handled', a) = Received(owner, Handled, a) \cup {c}
         /\ Given(owner', Handled', a) = Given(owner, Handled, a) + 1
         /\ \A b : b # a => /\ Received(owner', Handled', b) = Received(owner, Handled, b)
                            /\ Given(owner', Handled', b) = Given(owner, Handled, b)
<1>1. owner \in [Convs -> Free \cup {NoAgent}] /\ Handled \in SUBSET Convs /\ c \notin Handled
  BY DEF LoopInv, LoopTyped, Handled
<1>2. owner'[c] = a /\ \A e \in Handled : owner'[e] = owner[e]
  BY <1>1
<1>3. Received(owner', Handled', a) = Received(owner, Handled, a) \cup {c}
  BY <1>2 DEF Received
<1>4. \A b : b # a => Received(owner', Handled', b) = Received(owner, Handled, b)
  BY <1>2 DEF Received
<1>5. c \notin Received(owner, Handled, a) /\ a \in Agents
  BY <1>1, FreeIs DEF Received, LoopInv
<1>6. /\ IsFiniteSet(Received(owner, Handled, a)) /\ Cardinality(Received(owner, Handled, a)) \in Nat
      /\ before[a] \in Nat
  BY <1>1, <1>5, GivenIsNat DEF LoopInv
<1>7. Cardinality(Received(owner, Handled, a) \cup {c}) = Cardinality(Received(owner, Handled, a)) + 1
  BY <1>5, <1>6, FS_AddElement
<1> DEFINE n == Cardinality(Received(owner, Handled, a))
<1>8. Given(owner', Handled', a) = before[a] + (n + 1) /\ Given(owner, Handled, a) = before[a] + n
  BY <1>3, <1>7 DEF Given
<1> HIDE DEF n
<1>9. n \in Nat
  BY <1>6 DEF n
<1>10. Given(owner', Handled', a) = Given(owner, Handled, a) + 1
  BY <1>6, <1>8, <1>9
<1>11. \A b : b # a => Given(owner', Handled', b) = Given(owner, Handled, b)
  BY <1>4 DEF Given
<1> QED
  BY <1>3, <1>4, <1>10, <1>11

LEMMA GivenToNobody ==
  ASSUME LoopInv, NEW c \in Convs, c \in todo, NEW R, R = Handled \cup {c}
  PROVE  \A b \in Agents : Received(owner, R, b) = Received(owner, Handled, b)
                           /\ Given(owner, R, b) = Given(owner, Handled, b)
<1>1. owner[c] = NoAgent /\ NoAgent \notin Agents
  BY AgentsAssumption DEF LoopInv, LoopCounted
<1>2. \A b \in Agents : Received(owner, R, b) = Received(owner, Handled, b)
  BY <1>1 DEF Received
<1> QED
  BY <1>2 DEF Given

\* An agent with room is one the iteration may choose.
LEMMA RoomIsCandidacy ==
  ASSUME LoopInv
  PROVE  Candidates = {b \in Free : Given(owner, Handled, b) < maxConv[b]}
<1>1. \A b \in Agents : /\ current[b] = Given(owner, Handled, b)
                        /\ Given(owner, Handled, b) = before[b] + Cardinality(Received(owner, Handled, b))
                        /\ Given(owner, Handled, b) \in Nat /\ before[b] \in Nat /\ maxConv[b] \in Nat
                        /\ Cardinality(Received(owner, Handled, b)) \in Nat
  BY GivenIsNat DEF LoopInv, LoopCounted, Given, Handled
<1>2. Free = {a \in Agents : agentStatus[a] = "online" /\ ~disabled[a] /\ before[a] < maxConv[a]}
  BY FreeIs DEF LoopInv
<1>3. Candidates = {a \in Agents : agentStatus[a] = "online" /\ ~disabled[a] /\ current[a] < maxConv[a]}
  BY DEF Candidates, LoopInv, LoopTyped
<1>4. \A b \in Agents : current[b] < maxConv[b] => before[b] < maxConv[b]
  BY <1>1
<1> QED
  BY <1>1, <1>2, <1>3, <1>4

LEMMA ChoosingKeeps ==
  ASSUME LoopInv, NEW c \in Convs, ReleaseOne(c), NEW a \in Candidates,
         aiMode # "always_ai", IsLeastLoaded(a, Candidates),
         current' = [current EXCEPT ![a] = @ + 1],
         owner' = [owner EXCEPT ![c] = a]
  PROVE  LoopInv'
<1> DEFINE L(b) == Given(owner, Handled, b)
           M(b) == Given(owner', Handled', b)
           P(b) == Received(owner, Handled, b)
           Q(b) == Received(owner', Handled', b)
<1>1. /\ agents' = agents /\ agentStatus' = agentStatus /\ disabled' = disabled
      /\ maxConv' = maxConv /\ aiMode' = aiMode /\ before' = before
      /\ c \in todo /\ todo' = todo \ {c} /\ Free' = Free
      /\ Handled' = Handled \cup {c} /\ c \notin Handled /\ owner[c] = NoAgent
      /\ Handled \in SUBSET Convs
  BY ReleaseOneFrame
<1>2. LoopTyped /\ LoopCounted /\ Greedy(owner, Handled)
  BY DEF LoopInv
<1>3. Candidates = {b \in Free : L(b) < maxConv[b]}
  BY RoomIsCandidacy
<1>4. a \in Free /\ a \in Agents /\ Free \subseteq Agents /\ Free \subseteq Nat /\ L(a) < maxConv[a]
  BY <1>2, <1>3, FreeIs
<1>5. /\ Q(a) = P(a) \cup {c} /\ M(a) = L(a) + 1
      /\ \A b : b # a => Q(b) = P(b) /\ M(b) = L(b)
  BY <1>1, <1>4, GivenToOne
<1>6. \A b \in Agents : /\ L(b) \in Nat /\ maxConv[b] \in Nat /\ current[b] = L(b)
                        /\ current[b] \in Nat /\ b \in Nat
  BY <1>1, <1>2, GivenIsNat, AgentsAssumption DEF LoopCounted
<1>7. \A b : Given(owner, Handled, b)' = M(b) /\ Received(owner, Handled, b)' = Q(b)
  BY <1>1 DEF Given, Received
<1>8. \A d \in Free : L(d) < maxConv[d] => L(a) < L(d) \/ (L(a) = L(d) /\ a <= d)
  <2> SUFFICES ASSUME NEW d \in Free, L(d) < maxConv[d] PROVE L(a) < L(d) \/ (L(a) = L(d) /\ a <= d)
    OBVIOUS
  <2>1. d \in Candidates /\ d \in Agents
    BY <1>3, <1>4
  <2>2. current[a] < current[d] \/ (current[a] = current[d] /\ a <= d)
    BY <2>1 DEF IsLeastLoaded
  <2> QED
    BY <2>1, <2>2, <1>4, <1>6
<1> HIDE DEF L, M, P, Q
<1>9. LoopTyped'
  <2>1. current' \in [Agents -> Nat]
    BY <1>2, <1>4, <1>6 DEF LoopTyped
  <2>2. owner' \in [Convs -> Free' \cup {NoAgent}]
    BY <1>1, <1>2, <1>4 DEF LoopTyped
  <2> QED
    BY <2>1, <2>2, <1>1, <1>2 DEF LoopTyped
<1>10. LoopCounted'
  <2>1. \A e \in todo' : owner'[e] = NoAgent
    BY <1>1, <1>2 DEF LoopCounted, LoopTyped
  <2>2. \A b \in Agents : current'[b] = M(b)
    BY <1>2, <1>4, <1>5, <1>6 DEF LoopTyped
  <2> QED
    BY <2>1, <2>2, <1>7 DEF LoopCounted
<1>11. Greedy(owner, Handled)'
  <2>1. \A e \in Handled' : owner'[e] # NoAgent
    <3>1. ~\E e \in Handled : owner[e] = NoAgent
      <4> SUFFICES ASSUME \E e \in Handled : owner[e] = NoAgent PROVE FALSE
        OBVIOUS
      <4>1. L(a) = maxConv[a]
        BY <1>2, <1>4 DEF Greedy, L
      <4> QED
        BY <4>1, <1>4, <1>6
    <3>2. owner'[c] = a /\ \A e \in Handled : owner'[e] = owner[e]
      BY <1>1, <1>2 DEF LoopTyped
    <3>3. a # NoAgent
      BY <1>4, AgentsAssumption
    <3> QED
      BY <3>1, <3>2, <3>3, <1>1
  <2>2. \A b \in Free : M(b) <= maxConv[b]
    <3>1. \A b \in Free : L(b) <= maxConv[b]
      BY <1>2 DEF Greedy, L
    <3> TAKE b \in Free
    <3>2. CASE b = a
      BY <3>2, <1>4, <1>5, <1>6
    <3>3. CASE b # a
      BY <3>1, <3>3, <1>5
    <3> QED
      BY <3>2, <3>3
  <2>3. \A b \in Free : Q(b) # {} =>
          \A d \in Free : M(d) < maxConv[d] => M(b) - 1 < M(d) \/ (M(b) - 1 = M(d) /\ b <= d)
    <3> SUFFICES ASSUME NEW b \in Free, Q(b) # {}, NEW d \in Free, M(d) < maxConv[d]
                 PROVE  M(b) - 1 < M(d) \/ (M(b) - 1 = M(d) /\ b <= d)
      OBVIOUS
    <3>0. /\ L(a) \in Nat /\ L(b) \in Nat /\ L(d) \in Nat
          /\ maxConv[a] \in Nat /\ maxConv[b] \in Nat /\ maxConv[d] \in Nat
      BY <1>4, <1>6
    <3>1. CASE b = a
      <4>1. M(b) - 1 = L(a)
        BY <3>0, <3>1, <1>5
      <4>2. CASE d = a
        BY <4>1, <4>2, <3>0, <1>5
      <4>3. CASE d # a
        BY <4>1, <4>3, <3>0, <3>1, <1>5, <1>8
      <4> QED
        BY <4>2, <4>3
    <3>2. CASE b # a
      <4>1. M(b) = L(b) /\ P(b) # {}
        BY <3>2, <1>5
      <4>2. L(d) < maxConv[d] => L(b) - 1 < L(d) \/ (L(b) - 1 = L(d) /\ b <= d)
        BY <4>1, <1>2 DEF Greedy, L, P
      <4>3. CASE d = a
        BY <4>1, <4>2, <4>3, <3>0, <1>4, <1>5
      <4>4. CASE d # a
        BY <4>1, <4>2, <4>4, <1>5
      <4> QED
        BY <4>3, <4>4
    <3> QED
      BY <3>1, <3>2
  <2> QED
    BY <2>1, <2>2, <2>3, <1>1 DEF Greedy, Given, Received, M, Q
<1> QED
  BY <1>9, <1>10, <1>11 DEF LoopInv

\* Nobody is chosen when the AI serves everything or no agent has room.
LEMMA ChoosingNobodyKeeps ==
  ASSUME LoopInv, NEW c \in Convs, ReleaseOne(c),
         aiMode = "always_ai" \/ Candidates = {}, UNCHANGED <<current, owner>>
  PROVE  LoopInv'
<1>1. /\ agents' = agents /\ agentStatus' = agentStatus /\ disabled' = disabled
      /\ maxConv' = maxConv /\ aiMode' = aiMode /\ before' = before
      /\ c \in todo /\ todo' = todo \ {c} /\ Free' = Free
      /\ Handled' = Handled \cup {c} /\ c \notin Handled /\ owner[c] = NoAgent
      /\ Handled \in SUBSET Convs
  BY ReleaseOneFrame
<1>2. LoopTyped /\ LoopCounted /\ Greedy(owner, Handled)
  BY DEF LoopInv
<1>3. \A b \in Agents : /\ Received(owner', Handled', b) = Received(owner, Handled, b)
                        /\ Given(owner', Handled', b) = Given(owner, Handled, b)
  BY <1>1, GivenToNobody
<1>4. \A b \in Agents : /\ Given(owner, Handled, b) \in Nat /\ maxConv[b] \in Nat
  BY <1>1, <1>2, GivenIsNat
<1>5. Free \subseteq Agents
  BY <1>2, FreeIs
<1>6. LoopTyped'
  BY <1>1, <1>2 DEF LoopTyped
<1>7. LoopCounted'
  BY <1>1, <1>2, <1>3 DEF LoopCounted, Given, Received
<1>8. Greedy(owner, Handled)'
  <2>1. CASE aiMode = "always_ai"
    BY <2>1, <1>1, <1>2 DEF Greedy
  <2>2. CASE aiMode # "always_ai"
    <3>1. \A b \in Free : ~(Given(owner, Handled, b) < maxConv[b])
      BY <2>2, RoomIsCandidacy
    <3>2. \A b \in Free : Given(owner, Handled, b) <= maxConv[b]
      BY <2>2, <1>2 DEF Greedy
    <3>3. \A b \in Free : Given(owner, Handled, b) = maxConv[b]
      BY <3>1, <3>2, <1>4, <1>5
    <3>4. \A b \in Free : Given(owner', Handled', b) = maxConv[b]
      BY <3>3, <1>3, <1>5
    <3>5. \A b \in Free : maxConv[b] <= maxConv[b] /\ ~(maxConv[b] < maxConv[b])
      BY <1>4, <1>5
    <3> QED
      BY <2>2, <3>4, <3>5, <1>1 DEF Greedy, Given, Received
  <2> QED
    BY <2>1, <2>2
<1> QED
  BY <1>6, <1>7, <1>8 DEF LoopInv

LEMMA LoopInvariant == LoopSpec => []LoopInv
<1>1. LoopInv /\ [LoopNext]_loopVars => LoopInv'
  <2> SUFFICES ASSUME LoopInv, [LoopNext]_loopVars PROVE LoopInv'
    OBVIOUS
  <2>1. ASSUME NEW c \in Convs, ReleaseOne(c) PROVE LoopInv'
    <3>1. AssignConversation(c, IF AIActive THEN "ai_serving" ELSE StatusUnassigned("waiting"))
      BY <2>1 DEF ReleaseOne
    <3>2. CASE \E a \in Candidates :
                 /\ aiMode # "always_ai" /\ IsLeastLoaded(a, Candidates)
                 /\ current' = [current EXCEPT ![a] = @ + 1] /\ owner' = [owner EXCEPT ![c] = a]
      BY <2>1, <3>2, ChoosingKeeps
    <3>3. CASE (aiMode = "always_ai" \/ Candidates = {}) /\ UNCHANGED <<current, owner>>
      BY <2>1, <3>3, ChoosingNobodyKeeps
    <3> QED
      BY <3>1, <3>2, <3>3 DEF AssignConversation
  <2>2. CASE UNCHANGED loopVars
    <3>1. /\ agents' = agents /\ agentStatus' = agentStatus /\ disabled' = disabled
          /\ maxConv' = maxConv /\ current' = current /\ before' = before /\ aiMode' = aiMode
          /\ todo' = todo /\ owner' = owner
      BY <2>2 DEF loopVars, vars
    <3>2. Free' = Free /\ Handled' = Handled
      BY <3>1 DEF Free, Handled, Atomic!Candidates
    <3>3. LoopTyped'
      BY <3>1, <3>2 DEF LoopInv, LoopTyped
    <3>4. LoopCounted'
      BY <3>1, <3>2 DEF LoopInv, LoopCounted, Given, Received
    <3>5. Greedy(owner, Handled)'
      BY <3>1, <3>2 DEF LoopInv, Greedy, Given, Received
    <3> QED
      BY <3>3, <3>4, <3>5 DEF LoopInv
  <2> QED
    BY <2>1, <2>2 DEF LoopNext, LoopDone
<1> QED
  BY <1>1, LoopInitInv, PTL DEF LoopSpec

-----------------------------------------------------------------------------
\* As many as there are, or fewer, can be matched one to one.
LEMMA Matching ==
  ASSUME NEW S, NEW T, IsFiniteSet(S), IsFiniteSet(T), Cardinality(S) <= Cardinality(T)
  PROVE  \E f \in [S -> T] : \A x, y \in S : f[x] = f[y] => x = y
<1> DEFINE m == Cardinality(S)
           n == Cardinality(T)
<1>1. m \in Nat /\ n \in Nat /\ ExistsBijection(1..m, S) /\ ExistsBijection(1..n, T)
  BY FS_CardinalityType
<1>2. PICK g \in Bijection(1..m, S) : TRUE
  BY <1>1 DEF ExistsBijection
<1>3. PICK h \in Bijection(1..n, T) : TRUE
  BY <1>1 DEF ExistsBijection
<1>4. /\ g \in [1..m -> S] /\ \A x \in S : \E i \in 1..m : g[i] = x
      /\ h \in [1..n -> T] /\ \A i, j \in 1..n : h[i] = h[j] => i = j
  BY DEF Bijection, Injection, Surjection, IsInjective
<1>5. 1..m \subseteq 1..n
  BY <1>1
<1> HIDE DEF m, n
<1> DEFINE at(x) == CHOOSE i \in 1..m : g[i] = x
           f == [x \in S |-> h[at(x)]]
<1>6. \A x \in S : at(x) \in 1..m /\ g[at(x)] = x
  BY <1>4
<1> HIDE DEF at
<1>7. f \in [S -> T]
  BY <1>4, <1>5, <1>6
<1>8. \A x, y \in S : f[x] = f[y] => x = y
  <2> TAKE x, y \in S
  <2> HAVE f[x] = f[y]
  <2>1. at(x) = at(y)
    BY <1>4, <1>5, <1>6
  <2> QED
    BY <2>1, <1>6
<1> QED
  BY <1>7, <1>8

\* If every conversation is given away and nobody has more of them than in
\* another distribution, nobody has fewer.
LEMMA NobodyHasFewer ==
  ASSUME NEW R, IsFiniteSet(R), NEW C, NEW d \in [R -> C], NEW e \in [R -> C \cup {NoAgent}],
         \A b \in C : Cardinality(Received(d, R, b)) <= Cardinality(Received(e, R, b)),
         NEW a \in C
  PROVE  ~(Cardinality(Received(d, R, a)) < Cardinality(Received(e, R, a)))
<1> SUFFICES ASSUME Cardinality(Received(d, R, a)) < Cardinality(Received(e, R, a)) PROVE FALSE
  OBVIOUS
<1> DEFINE D(b) == Received(d, R, b)
           E(b) == Received(e, R, b)
<1>1. \A b : /\ D(b) \in SUBSET R /\ E(b) \in SUBSET R
             /\ \A x \in R : (x \in D(b) <=> d[x] = b) /\ (x \in E(b) <=> e[x] = b)
  BY DEF Received
<1> HIDE DEF D, E
<1>2. \A b : /\ IsFiniteSet(D(b)) /\ IsFiniteSet(E(b))
             /\ Cardinality(D(b)) \in Nat /\ Cardinality(E(b)) \in Nat
  BY <1>1, FS_Subset, FS_CardinalityType
<1>3. \A b \in C : \E f \in [D(b) -> E(b)] : \A x, y \in D(b) : f[x] = f[y] => x = y
  BY <1>2, Matching DEF D, E
<1> DEFINE match(b) == CHOOSE f \in [D(b) -> E(b)] : \A x, y \in D(b) : f[x] = f[y] => x = y
<1>4. \A b \in C : match(b) \in [D(b) -> E(b)]
                   /\ \A x, y \in D(b) : match(b)[x] = match(b)[y] => x = y
  BY <1>3
<1> HIDE DEF match
\* Somebody of a's in the other distribution is matched with nobody.
<1>5. \E z \in E(a) : \A x \in D(a) : match(a)[x] # z
  <2> SUFFICES ASSUME \A z \in E(a) : \E x \in D(a) : match(a)[x] = z PROVE FALSE
    OBVIOUS
  <2>1. match(a) \in Surjection(D(a), E(a))
    BY <1>4 DEF Surjection
  <2>2. Cardinality(E(a)) <= Cardinality(D(a))
    BY <2>1, <1>2, FS_Surjection
  <2> QED
    BY <2>2, <1>2 DEF D, E
<1>6. PICK z \in E(a) : \A x \in D(a) : match(a)[x] # z
  BY <1>5
<1> DEFINE g == [x \in R |-> match(d[x])[x]]
<1>7. \A x \in R : d[x] \in C /\ x \in D(d[x])
  BY <1>1
<1>8. \A x \in R : g[x] = match(d[x])[x]
  OBVIOUS
<1> HIDE DEF g
<1>9. \A x \in R : g[x] \in E(d[x])
  <2> TAKE x \in R
  <2>1. x \in D(d[x]) /\ match(d[x]) \in [D(d[x]) -> E(d[x])] /\ g[x] = match(d[x])[x]
    BY <1>4, <1>7, <1>8
  <2> QED
    BY <2>1
<1>10. z \in R /\ e[z] = a
  BY <1>1, <1>6
<1>11. \A x \in R : g[x] \in R /\ e[g[x]] = d[x]
  BY <1>1, <1>9
<1>12. \A x \in R : g[x] # z
  <2> SUFFICES ASSUME NEW x \in R, g[x] = z PROVE FALSE
    OBVIOUS
  <2>1. d[x] = a
    BY <1>10, <1>11
  <2>2. x \in D(a) /\ match(a)[x] = z
    BY <2>1, <1>7, <1>8
  <2> QED
    BY <2>2, <1>6
<1>13. g \in [R -> R \ {z}]
  BY <1>11, <1>12 DEF g
<1>14. \A x, y \in R : g[x] = g[y] => x = y
  <2> TAKE x, y \in R
  <2> HAVE g[x] = g[y]
  <2>1. d[x] = d[y]
    BY <1>11
  <2>2. x \in D(d[x]) /\ y \in D(d[x]) /\ match(d[x])[x] = match(d[x])[y] /\ d[x] \in C
    BY <2>1, <1>7, <1>8
  <2> QED
    BY <2>2, <1>4
<1>15. IsFiniteSet(R \ {z}) /\ Cardinality(R \ {z}) < Cardinality(R)
  <2>1. Cardinality(R \ {z}) = Cardinality(R) - 1 /\ IsFiniteSet(R \ {z}) /\ Cardinality(R) \in Nat
    BY <1>10, FS_RemoveElement, FS_CardinalityType
  <2> QED
    BY <2>1
<1>16. \E x, y \in R : x # y /\ g[x] = g[y]
  BY <1>13, <1>15, FS_PigeonHole
<1> QED
  BY <1>14, <1>16

\* Of two greedy outcomes none leaves an agent with fewer conversations.
LEMMA NobodyIsShort ==
  ASSUME LoopTyped, NEW d \in [Convs -> Free \cup {NoAgent}], NEW e \in [Convs -> Free \cup {NoAgent}],
         Greedy(d, Convs), Greedy(e, Convs), aiMode # "always_ai", NEW a \in Free
  PROVE  ~(Given(d, Convs, a) < Given(e, Convs, a))
<1> SUFFICES ASSUME Given(d, Convs, a) < Given(e, Convs, a) PROVE FALSE
  OBVIOUS
<1> DEFINE D(b) == Given(d, Convs, b)
           E(b) == Given(e, Convs, b)
           nD(b) == Cardinality(Received(d, Convs, b))
           nE(b) == Cardinality(Received(e, Convs, b))
<1>1. Free \subseteq Agents /\ Free \subseteq Nat /\ NoAgent \notin Free /\ IsFiniteSet(Convs)
  BY FreeIs, ConvsCount
<1>2. \A b \in Free : /\ D(b) \in Nat /\ E(b) \in Nat /\ before[b] \in Nat /\ maxConv[b] \in Nat
                      /\ nD(b) \in Nat /\ nE(b) \in Nat
                      /\ D(b) = before[b] + nD(b) /\ E(b) = before[b] + nE(b)
  BY <1>1, GivenIsNat DEF Given
<1>3. /\ (\E c \in Convs : d[c] = NoAgent) => \A b \in Free : D(b) = maxConv[b]
      /\ \A b \in Free : D(b) <= maxConv[b]
      /\ \A b \in Free : Received(d, Convs, b) # {} =>
           \A f \in Free : D(f) < maxConv[f] => D(b) - 1 < D(f) \/ (D(b) - 1 = D(f) /\ b <= f)
  BY DEF Greedy
<1>4. /\ \A b \in Free : E(b) <= maxConv[b]
      /\ \A b \in Free : Received(e, Convs, b) # {} =>
           \A f \in Free : E(f) < maxConv[f] => E(b) - 1 < E(f) \/ (E(b) - 1 = E(f) /\ b <= f)
  BY DEF Greedy
<1>5. D(a) < E(a)
  OBVIOUS
<1> HIDE DEF D, E, nD, nE
<1>6. D(a) < maxConv[a]
  BY <1>2, <1>4, <1>5
<1>7. d \in [Convs -> Free]
  <2>1. \A c \in Convs : d[c] # NoAgent
    BY <1>2, <1>3, <1>6
  <2> QED
    BY <2>1
<1>8. nD(a) < nE(a)
  BY <1>2, <1>5
<1>9. PICK b \in Free : nE(b) < nD(b)
  <2> SUFFICES ASSUME \A b \in Free : ~(nE(b) < nD(b)) PROVE FALSE
    OBVIOUS
  <2>1. \A b \in Free : nD(b) <= nE(b)
    BY <1>2
  <2> QED
    BY <2>1, <1>1, <1>7, <1>8, NobodyHasFewer DEF nD, nE
<1>10. E(b) < D(b) /\ E(b) < maxConv[b]
  BY <1>2, <1>3, <1>9
<1>11. Received(d, Convs, b) # {} /\ Received(e, Convs, a) # {}
  <2>1. nD(b) # 0 /\ nE(a) # 0
    BY <1>2, <1>8, <1>9
  <2> QED
    BY <2>1, FS_EmptySet DEF nD, nE
<1>12. D(b) - 1 < D(a) \/ (D(b) - 1 = D(a) /\ b <= a)
  BY <1>3, <1>6, <1>11
<1>13. E(a) - 1 < E(b) \/ (E(a) - 1 = E(b) /\ a <= b)
  BY <1>4, <1>10, <1>11
<1>14. a = b
  BY <1>1, <1>2, <1>5, <1>10, <1>12, <1>13
<1> QED
  BY <1>2, <1>5, <1>10, <1>14

LEMMA SameForAll ==
  ASSUME LoopTyped, NEW d \in [Convs -> Free \cup {NoAgent}], NEW e \in [Convs -> Free \cup {NoAgent}],
         Greedy(d, Convs), Greedy(e, Convs), NEW a \in Agents
  PROVE  Given(d, Convs, a) = Given(e, Convs, a)
<1>1. NoAgent \notin Agents /\ Free \subseteq Agents
  BY AgentsAssumption, FreeIs
<1>2. CASE aiMode # "always_ai" /\ a \in Free
  <2>1. ~(Given(d, Convs, a) < Given(e, Convs, a)) /\ ~(Given(e, Convs, a) < Given(d, Convs, a))
    BY <1>2, NobodyIsShort
  <2>2. Given(d, Convs, a) \in Nat /\ Given(e, Convs, a) \in Nat
    BY GivenIsNat
  <2> QED
    BY <2>1, <2>2
<1>3. CASE aiMode = "always_ai" \/ a \notin Free
  <2>1. Received(d, Convs, a) = {} /\ Received(e, Convs, a) = {}
    <3>1. CASE aiMode = "always_ai"
      BY <3>1, <1>1 DEF Greedy, Received
    <3>2. CASE a \notin Free
      BY <3>2, <1>1 DEF Received
    <3> QED
      BY <1>3, <3>1, <3>2
  <2> QED
    BY <2>1 DEF Given
<1> QED
  BY <1>2, <1>3

\* The outcome of the loop is what Dispatch says of it, and the only one: for
\* any agents, maximums, counters and conversations, in every order.
THEOREM TheLoopDispatches == LoopSpec => []LoopIsDispatch
<1>1. LoopInv => LoopIsDispatch
  <2> SUFFICES ASSUME LoopInv, todo = {} PROVE LoopIsGreedy /\ GreedyIsTheLoop
    BY DEF LoopIsDispatch
  <2>1. Handled = Convs /\ LoopTyped
    BY DEF Handled, LoopInv
  <2>2. Greedy(owner, Convs) /\ \A a \in Agents : current[a] = Given(owner, Convs, a)
    BY <2>1 DEF LoopInv, LoopCounted
  <2>3. LoopIsGreedy
    BY <2>2, GreedyIsAtomic DEF LoopIsGreedy, Free, Convs, Atomic!Convs
  <2>4. GreedyIsTheLoop
    <3> SUFFICES ASSUME NEW dest \in [Convs -> Free \cup {NoAgent}], Greedy(dest, Convs), NEW a \in Agents
                 PROVE  Given(dest, Convs, a) = current[a]
      BY GreedyIsAtomic, AtomicLoad DEF GreedyIsTheLoop, Free
    <3>1. owner \in [Convs -> Free \cup {NoAgent}]
      BY <2>1 DEF LoopTyped
    <3> QED
      BY <2>1, <2>2, <3>1, SameForAll
  <2> QED
    BY <2>3, <2>4
<1> QED
  BY <1>1, LoopInvariant, PTL

-----------------------------------------------------------------------------
(* The pick-up loop *)

\* OldestFirst of the state the loop found.
Waiting == {c \in Convs : asFound.convStatus[c] \in {"waiting", "human_requested"}}
Oldest(T, a) ==
  /\ \A c \in T : \A d \in Waiting \ T : c < d
  /\ T # {} => asFound.current[a] + Cardinality(T) <= maxConv[a]
  /\ T # Waiting => asFound.current[a] + Cardinality(T) >= maxConv[a]

\* What the loop has taken when it has looked at the conversations up to k.
UpTo(k) == {c \in Waiting : c <= k}

PickUpTyped ==
  /\ looked \in 0..MaxConversations
  /\ asFound.agent \in Agents
  /\ asFound.current \in [Agents -> Nat]
  /\ maxConv \in [Agents -> Nat]
  /\ ~disabled[asFound.agent]

\* It went on up to k, with room for all it took, and is there or broke off there.
WentTo(k) ==
  /\ LeadsHere(UpTo(k))
  /\ UpTo(k) # {} => current[asFound.agent] <= maxConv[asFound.agent]
  /\ \/ k = looked
     \/ looked = MaxConversations /\ current[asFound.agent] >= maxConv[asFound.agent]

PickUpInv == PickUpTyped /\ \E k \in 0..MaxConversations : k <= looked /\ WentTo(k)

\* The description Dispatch gives, of the state the loop found.
LEMMA OldestIsFound ==
  ASSUME NEW T, NEW a
  PROVE  /\ Found!Pickable = Waiting
         /\ Found!OldestFirst(T, a) <=> Oldest(T, a)
<1>1. \A S : Found!Cardinality(S) = Cardinality(S)
  BY DEF Found!Cardinality, Cardinality
<1>2. Found!Pickable = Waiting
  BY DEF Found!Pickable, Waiting, Found!Convs, Convs
<1> QED
  BY <1>1, <1>2 DEF Found!OldestFirst, Oldest

\* Sets of conversations are finite.
LEMMA ConvsFinite ==
  ASSUME NEW S \in SUBSET Convs
  PROVE  IsFiniteSet(S) /\ Cardinality(S) \in Nat
<1>1. IsFiniteSet(Convs)
  BY FS_Interval, BoundAssumption DEF Convs
<1>2. IsFiniteSet(S)
  BY <1>1, FS_Subset
<1> QED
  BY <1>2, FS_CardinalityType

\* Of two sets that are both the oldest there is room for none has more.
LEMMA OldestHasNoMore ==
  ASSUME PickUpTyped, NEW T \in SUBSET Waiting, NEW U \in SUBSET Waiting,
         Oldest(T, asFound.agent), Oldest(U, asFound.agent)
  PROVE  U \subseteq T
<1> DEFINE n == asFound.current[asFound.agent]
           m == maxConv[asFound.agent]
<1> SUFFICES ASSUME NEW d \in U, d \notin T PROVE FALSE
  OBVIOUS
<1>1. n \in Nat /\ m \in Nat
  BY DEF PickUpTyped
<1>2. Waiting \subseteq Int /\ T \in SUBSET Convs /\ U \in SUBSET Convs
  BY DEF Waiting, Convs
<1>3. T \subseteq U
  <2> SUFFICES ASSUME NEW c \in T, c \notin U PROVE FALSE
    OBVIOUS
  <2>1. c < d /\ d < c
    BY DEF Oldest
  <2>2. c \in Int /\ d \in Int
    BY <1>2
  <2> QED
    BY <2>1, <2>2
<1>4. Cardinality(T) < Cardinality(U)
  <2>1. Cardinality(T) <= Cardinality(U) /\ (Cardinality(T) = Cardinality(U) => T = U)
    BY <1>2, <1>3, ConvsFinite, FS_Subset
  <2>2. Cardinality(T) \in Nat /\ Cardinality(U) \in Nat
    BY <1>2, ConvsFinite
  <2> QED
    BY <2>1, <2>2
<1>5. n + Cardinality(T) >= m /\ n + Cardinality(U) <= m
  BY DEF Oldest
<1>6. Cardinality(T) \in Nat /\ Cardinality(U) \in Nat
  BY <1>2, ConvsFinite
<1> QED
  BY <1>1, <1>4, <1>5, <1>6

LEMMA PickUpStarts == PickUpInit => PickUpInv
<1> SUFFICES ASSUME PickUpInit PROVE PickUpInv
  OBVIOUS
<1>1. PICK a \in Agents : asFound = [agent |-> a, current |-> current,
                                     convStatus |-> convStatus, owner |-> owner]
  BY DEF PickUpInit
<1>2. PickUpTyped
  <2>1. maxConv \in [Agents -> Nat]
    BY LimitsAssumption DEF PickUpInit
  <2>2. asFound.agent \in Agents /\ asFound.current \in [Agents -> Nat]
    BY <1>1 DEF PickUpInit
  <2>3. ~disabled[asFound.agent] /\ looked \in 0..MaxConversations
    BY <2>2, BoundAssumption DEF PickUpInit
  <2> QED
    BY <2>1, <2>2, <2>3 DEF PickUpTyped
<1>3. UpTo(0) = {}
  BY BoundAssumption DEF UpTo, Waiting, Convs
<1>4. LeadsHere({})
  <2>1. Cardinality({}) = 0
    BY FS_EmptySet
  <2> QED
    BY <1>1, <2>1 DEF LeadsHere, PickUpInit
<1>5. WentTo(0)
  BY <1>3, <1>4 DEF WentTo, PickUpInit
<1> QED
  BY <1>2, <1>5, BoundAssumption DEF PickUpInv, PickUpInit

\* One more conversation taken, or passed by.
LEMMA LookAtNextKeeps == PickUpInv /\ LookAtNext => PickUpInv'
<1> SUFFICES ASSUME PickUpInv, LookAtNext PROVE PickUpInv'
  OBVIOUS
<1> DEFINE a == asFound.agent
<1> PICK c : c = looked + 1
  OBVIOUS
<1>1. /\ PickUpTyped /\ a \in Agents /\ c \in Convs /\ c \in 0..MaxConversations
      /\ looked' = c /\ asFound' = asFound /\ maxConv' = maxConv /\ disabled' = disabled
      /\ looked < MaxConversations /\ current[a] < maxConv[a]
  BY BoundAssumption DEF PickUpInv, PickUpTyped, LookAtNext, MayTakeMore, agentVars, Convs
<1>2. PickUpTyped'
  BY <1>1 DEF PickUpTyped
<1>3. WentTo(looked)
  <2>1. PICK k \in 0..MaxConversations : k <= looked /\ WentTo(k)
    BY DEF PickUpInv
  <2>2. k = looked
    <3>1. looked # MaxConversations
      BY <1>1 DEF PickUpTyped
    <3> QED
      BY <2>1, <3>1 DEF WentTo
  <2> QED
    BY <2>1, <2>2
<1>4. Waiting' = Waiting /\ Waiting \subseteq Convs /\ \A k : UpTo(k)' = {d \in Waiting : d <= k}
  BY <1>1 DEF Waiting, UpTo
<1>5. UpTo(looked) \in SUBSET Convs /\ c \notin UpTo(looked)
  <2>1. c = looked + 1 /\ looked \in Int
    BY <1>1 DEF PickUpTyped
  <2> QED
    BY <1>4, <2>1 DEF UpTo
<1>6. convStatus[c] = asFound.convStatus[c]
  BY <1>1, <1>3, <1>5 DEF WentTo, LeadsHere
<1>7. current \in [Agents -> Nat] /\ current[a] = asFound.current[a] + Cardinality(UpTo(looked))
  <2>1. current = [asFound.current EXCEPT ![a] = @ + Cardinality(UpTo(looked))]
    BY <1>3 DEF WentTo, LeadsHere
  <2>2. Cardinality(UpTo(looked)) \in Nat
    BY <1>5, ConvsFinite
  <2> QED
    BY <1>1, <2>1, <2>2 DEF PickUpTyped
<1>8. UpTo(c)' = {d \in Waiting : d \in UpTo(looked) \/ d = c}
  <2>1. \A d \in Waiting : d <= c <=> d <= looked \/ d = c
    <3>1. Waiting \subseteq Int /\ c = looked + 1 /\ looked \in Int
      BY <1>1, <1>4 DEF Convs, PickUpTyped
    <3> QED
      BY <3>1
  <2> QED
    BY <1>4, <2>1 DEF UpTo
<1>9. CASE c \in Pickable
  <2>1. c \in Waiting
    BY <1>1, <1>6, <1>9 DEF Pickable, Waiting
  <2>2. UpTo(c)' = UpTo(looked) \cup {c}
    BY <1>4, <1>8, <2>1 DEF UpTo
  <2>3. Cardinality(UpTo(c)') = Cardinality(UpTo(looked)) + 1
    BY <1>5, <2>2, ConvsFinite, FS_AddElement
  <2>4. /\ owner' = [owner EXCEPT ![c] = a]
        /\ convStatus' = [convStatus EXCEPT ![c] = "assigned"]
        /\ current' = [current EXCEPT ![a] = @ + 1]
    BY <1>9 DEF LookAtNext
  <2>5. LeadsHere(UpTo(c))'
    <3>1. /\ owner = [d \in Convs |-> IF d \in UpTo(looked) THEN a ELSE asFound.owner[d]]
          /\ convStatus = [d \in Convs |-> IF d \in UpTo(looked) THEN "assigned"
                                           ELSE asFound.convStatus[d]]
          /\ current = [asFound.current EXCEPT ![a] = @ + Cardinality(UpTo(looked))]
      BY <1>3 DEF WentTo, LeadsHere
    <3>2. owner' = [d \in Convs |-> IF d \in UpTo(c)' THEN a ELSE asFound.owner[d]]
      BY <2>2, <2>4, <3>1
    <3>3. convStatus' = [d \in Convs |-> IF d \in UpTo(c)' THEN "assigned"
                                         ELSE asFound.convStatus[d]]
      BY <2>2, <2>4, <3>1
    <3>4. current' = [asFound.current EXCEPT ![a] = @ + Cardinality(UpTo(c)')]
      <4>1. Cardinality(UpTo(looked)) \in Nat
        BY <1>5, ConvsFinite
      <4> QED
        BY <1>1, <2>3, <2>4, <3>1, <4>1 DEF PickUpTyped
    <3> QED
      BY <1>1, <3>2, <3>3, <3>4 DEF LeadsHere
  <2>6. current'[a] <= maxConv'[a]
    BY <1>1, <1>7, <2>4 DEF PickUpTyped
  <2>7. WentTo(c)'
    BY <1>1, <2>5, <2>6 DEF WentTo
  <2> QED
    BY <1>1, <1>2, <2>7 DEF PickUpInv
<1>10. CASE c \notin Pickable
  <2>1. c \notin Waiting
    BY <1>1, <1>6, <1>10 DEF Pickable, Waiting
  <2>2. UpTo(c)' = UpTo(looked)
    BY <1>4, <1>8, <2>1 DEF UpTo
  <2>3. owner' = owner /\ convStatus' = convStatus /\ current' = current
    BY <1>10 DEF LookAtNext
  <2>4. WentTo(c)'
    BY <1>1, <1>3, <2>2, <2>3 DEF WentTo, LeadsHere
  <2> QED
    BY <1>1, <1>2, <2>4 DEF PickUpInv
<1> QED
  BY <1>9, <1>10

LEMMA BreakOffKeeps == PickUpInv /\ BreakOff => PickUpInv'
<1> SUFFICES ASSUME PickUpInv, BreakOff PROVE PickUpInv'
  OBVIOUS
<1>1. /\ looked < MaxConversations /\ looked' = MaxConversations /\ asFound' = asFound
      /\ maxConv' = maxConv /\ disabled' = disabled /\ owner' = owner
      /\ convStatus' = convStatus /\ current' = current
  BY DEF BreakOff, vars
<1>2. PickUpTyped /\ PickUpTyped'
  BY <1>1, BoundAssumption DEF PickUpInv, PickUpTyped
<1>3. PICK k \in 0..MaxConversations : k <= looked /\ WentTo(k)
  BY DEF PickUpInv
<1>4. current[asFound.agent] >= maxConv[asFound.agent]
  <2>1. current = [asFound.current EXCEPT ![asFound.agent] = @ + Cardinality(UpTo(k))]
    BY <1>3 DEF WentTo, LeadsHere
  <2>2. Cardinality(UpTo(k)) \in Nat
    BY ConvsFinite DEF UpTo, Waiting
  <2>3. current[asFound.agent] \in Nat /\ maxConv[asFound.agent] \in Nat
    BY <1>2, <2>1, <2>2 DEF PickUpTyped
  <2> QED
    BY <1>2, <2>3 DEF BreakOff, MayTakeMore, PickUpTyped
<1>5. LeadsHere(UpTo(k))' /\ (UpTo(k)' = UpTo(k))
  BY <1>1, <1>3 DEF WentTo, LeadsHere, UpTo, Waiting
<1>6. WentTo(k)'
  BY <1>1, <1>3, <1>4, <1>5 DEF WentTo
<1>7. k <= looked'
  BY <1>1
<1> QED
  BY <1>2, <1>6, <1>7 DEF PickUpInv

LEMMA PickUpInvariant == PickUpSpec => []PickUpInv
<1>1. PickUpInv /\ [PickUpNext]_pickUpVars => PickUpInv'
  <2> SUFFICES ASSUME PickUpInv, [PickUpNext]_pickUpVars PROVE PickUpInv'
    OBVIOUS
  <2>1. CASE UNCHANGED pickUpVars
    <3>1. UNCHANGED <<looked, asFound, maxConv, current, owner, convStatus, disabled>>
      BY <2>1 DEF pickUpVars, vars
    <3>2. PickUpTyped'
      BY <3>1 DEF PickUpInv, PickUpTyped
    <3>3. PICK k \in 0..MaxConversations : k <= looked /\ WentTo(k)
      BY DEF PickUpInv
    <3>4. UpTo(k)' = UpTo(k)
      BY <3>1 DEF UpTo, Waiting
    <3>5. WentTo(k)'
      BY <3>1, <3>3, <3>4 DEF WentTo, LeadsHere
    <3> QED
      BY <3>1, <3>2, <3>3, <3>5 DEF PickUpInv
  <2> QED
    BY <2>1, LookAtNextKeeps, BreakOffKeeps DEF PickUpNext
<1> QED
  BY <1>1, PickUpStarts, PTL DEF PickUpSpec

\* The loop is what Dispatch says it does at once, for any agents, maximums, counters
\* and conversations.
THEOREM TheLoopPicksUp == PickUpSpec => []PickUpIsDispatch
<1>1. PickUpInv => PickUpIsDispatch
  <2> SUFFICES ASSUME PickUpInv, looked = MaxConversations
               PROVE  /\ Found!OldestFirst(TakenUp, asFound.agent) /\ LeadsHere(TakenUp)
                      /\ \A T \in SUBSET Found!Pickable :
                           Found!OldestFirst(T, asFound.agent) => T = TakenUp
    BY DEF PickUpIsDispatch
  <2> DEFINE a == asFound.agent
  <2>1. PICK k \in 0..MaxConversations : k <= looked /\ WentTo(k)
    BY DEF PickUpInv
  <2>2. LeadsHere(UpTo(k)) /\ PickUpTyped
    BY <2>1 DEF WentTo, PickUpInv
  <2>3. TakenUp = UpTo(k)
    BY <2>2 DEF LeadsHere, TakenUp, UpTo, Waiting
  <2>4. Cardinality(UpTo(k)) \in Nat
    BY ConvsFinite DEF UpTo, Waiting
  <2>5. current[a] = asFound.current[a] + Cardinality(UpTo(k))
    BY <2>2, <2>4 DEF LeadsHere, PickUpTyped
  <2>6. Oldest(UpTo(k), a)
    <3>1. \A c \in UpTo(k) : \A d \in Waiting \ UpTo(k) : c < d
      BY BoundAssumption DEF UpTo, Waiting, Convs
    <3>2. UpTo(k) # {} => asFound.current[a] + Cardinality(UpTo(k)) <= maxConv[a]
      BY <2>1, <2>5 DEF WentTo
    <3>3. ASSUME UpTo(k) # Waiting
          PROVE  asFound.current[a] + Cardinality(UpTo(k)) >= maxConv[a]
      <4>1. PICK c \in Waiting : ~(c <= k)
        BY <3>3 DEF UpTo
      <4>2. k # looked
        BY <4>1, BoundAssumption DEF Waiting, Convs
      <4> QED
        BY <2>1, <2>5, <4>2 DEF WentTo
    <3> QED
      BY <3>1, <3>2, <3>3 DEF Oldest
  <2>7. ASSUME NEW T \in SUBSET Waiting, Oldest(T, a) PROVE T = UpTo(k)
    <3>1. UpTo(k) \in SUBSET Waiting
      BY DEF UpTo
    <3> QED
      BY <2>2, <2>6, <2>7, <3>1, OldestHasNoMore
  <2> QED
    BY <2>2, <2>3, <2>6, <2>7, OldestIsFound
<1> QED
  BY <1>1, PickUpInvariant, PTL

=============================================================================
