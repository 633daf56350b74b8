------------------------------ MODULE Settings ------------------------------
(***************************************************************************)
(* The settings of PostgresStore: contact_settings, ai_settings and        *)
(* business_hours, of one row each, and the rows of keyword_rules.  An     *)
(* update reads the row, takes over the fields it was given, and writes    *)
(* the whole row back, in two statements without a transaction.  Every     *)
(* node inserts the defaults when it starts.                               *)
(*                                                                         *)
(* Two fields stand for all: kept, of those an update may leave blank to   *)
(* keep what is stored (the API key, a phone number, a keyword), and       *)
(* always, of those every update writes (a switch, the greeting).          *)
(***************************************************************************)
EXTENDS Integers

CONSTANTS
  SettingRows,  \* the tables of one row
  RuleRows,     \* ids of keyword rules
  GreetingRows, \* contact_settings, whose field always is the greeting
  Writers,      \* handlers that update settings, on any node
  Values,       \* what fields are set to
  Default,      \* what the server's defaults and seeds say
  Edits,        \* what administrators send; a field left out is blank
  MaxVersions   \* bound: how often a row is written

Blank == 0
Rows == SettingRows \cup RuleRows

ASSUME RowsAssumption == SettingRows \cap RuleRows = {} /\ GreetingRows \subseteq SettingRows
ASSUME ValuesAssumption == Values \subseteq Nat \ {Blank} /\ Default \in Values
ASSUME EditsAssumption ==
  Edits \subseteq [kept : Values \cup {Blank}, always : Values \cup {Blank}]
ASSUME VersionsAssumption == MaxVersions \in Nat

VARIABLES
  stored,    \* the rows of the tables
  updating,  \* what each writer has read and was given
  version    \* history: how often a row was written by an administrator

rowVars == <<stored, updating, version>>

NoRow == [present |-> FALSE, kept |-> Blank, always |-> Blank]
StoredRow(kept, always) == [present |-> TRUE, kept |-> kept, always |-> always]

NotUpdating == [busy |-> FALSE, row |-> "none", given |-> [kept |-> Blank, always |-> Blank],
                current |-> Blank, seen |-> 0, failed |-> FALSE]
Updating(r, given, current, seen, failed) ==
  [busy |-> TRUE, row |-> r, given |-> given, current |-> current, seen |-> seen,
   failed |-> failed]

\* Fault: a blank field is taken over as well.
FaultyMerged(u) == StoredRow(u.given.kept, u.given.always)

\* What the update writes; current is the field as it was read.
Merged(u) == StoredRow(IF u.given.kept = Blank THEN u.current ELSE u.given.kept, u.given.always)

-----------------------------------------------------------------------------
ReadStored(w, r, given) ==
  /\ ~updating[w].busy
  /\ stored[r].present
  /\ version[r] < MaxVersions
  /\ updating' = [updating EXCEPT ![w] =
                    Updating(r, given, stored[r].kept, version[r], FALSE)]
  /\ UNCHANGED <<stored, version>>

\* The methods of the one-row tables drop the error of the read, a key that
\* cannot be decrypted included, and go on with blank fields.  UpdateKeywordRule
\* returns it.
ReadFails(w, r, given) ==
  /\ ~updating[w].busy
  /\ r \in SettingRows
  /\ version[r] < MaxVersions
  /\ updating' = [updating EXCEPT ![w] = Updating(r, given, Blank, version[r], TRUE)]
  /\ UNCHANGED <<stored, version>>

\* INSERT ... ON CONFLICT (id) DO UPDATE of every field, or the rule's UPDATE.
WriteBack(w) ==
  LET u == updating[w]
  IN /\ u.busy
     /\ stored' = [stored EXCEPT ![u.row] = Merged(u)]
     /\ version' = [version EXCEPT ![u.row] = @ + 1]
     /\ updating' = [updating EXCEPT ![w] = NotUpdating]

\* The error of the write is dropped, too; the caller is told it is stored.
WriteFails(w) ==
  /\ updating[w].busy
  /\ updating' = [updating EXCEPT ![w] = NotUpdating]
  /\ UNCHANGED <<stored, version>>

\* A rule has a keyword, and an id once.
CreateKeywordRule(r, given) ==
  /\ ~stored[r].present
  /\ given.kept # Blank
  /\ stored' = [stored EXCEPT ![r] = StoredRow(given.kept, given.always)]
  /\ UNCHANGED <<updating, version>>

\* seedDefaults: INSERT ... ON CONFLICT (id) DO NOTHING.  It seeds two accounts
\* before these rows (SeedAccount in module Sessions).
SeedDefaults(r) ==
  /\ ~stored[r].present
  /\ stored' = [stored EXCEPT ![r] = StoredRow(Default, Default)]
  /\ UNCHANGED <<updating, version>>

\* Fault: the greeting is set to its first text, whatever it is.
FaultyRestoreGreeting(r) ==
  /\ stored[r].present
  /\ stored' = [stored EXCEPT ![r] = [@ EXCEPT !.always = Default]]
  /\ UNCHANGED <<updating, version>>

\* ensureServiceRatingsTable gives an empty greeting its first text again.
RestoreGreeting(r) ==
  /\ stored[r].present /\ stored[r].always = Blank
  /\ stored' = [stored EXCEPT ![r] = [@ EXCEPT !.always = Default]]
  /\ UNCHANGED <<updating, version>>

-----------------------------------------------------------------------------
RowsInit ==
  /\ stored = [r \in Rows |-> NoRow]
  /\ updating = [w \in Writers |-> NotUpdating]
  /\ version = [r \in Rows |-> 0]

RowsNext ==
  \/ \E w \in Writers :
       \/ \E r \in Rows, given \in Edits : ReadStored(w, r, given) \/ ReadFails(w, r, given)
       \/ WriteBack(w) \/ WriteFails(w)
  \/ \E r \in RuleRows, given \in Edits : CreateKeywordRule(r, given)
  \/ \E r \in Rows : SeedDefaults(r)
  \/ \E r \in GreetingRows : RestoreGreeting(r)

RowsSpec == RowsInit /\ [][RowsNext]_rowVars

-----------------------------------------------------------------------------
\* An update ends that replaced row r as it should, or as its race or failure lets it.
ReplacedByUpdate(w, r) ==
  LET u == updating[w]
  IN /\ u.busy /\ u.row = r /\ ~updating'[w].busy
     /\ stored'[r].always = u.given.always
     /\ \/ stored'[r].kept = stored[r].kept
        \/ u.given.kept # Blank /\ stored'[r].kept = u.given.kept
        \/ u.seen < version[r]
        \/ u.failed

GreetingRestored(r) ==
  /\ r \in GreetingRows /\ stored[r].always = Blank
  /\ stored'[r] = [stored[r] EXCEPT !.always = Default]

\* What every update writes is replaced by updates alone, and by a starting node
\* where it is an empty greeting; of the fields an update may leave blank, one is
\* replaced only by an update that gives it, or that another update overtook after
\* it read the row, or that could not read the row.  The last two do lose what was
\* stored: an overtaken update writes back what it read, and one whose read failed
\* a blank.  With one administrator at a time and a database that answers, nothing
\* is lost, whatever nodes start meanwhile.
UndoneOnlyInARace ==
  [][\A r \in Rows :
       stored[r].present /\ stored'[r] # stored[r]
         => GreetingRestored(r) \/ \E w \in Writers : ReplacedByUpdate(w, r)]_rowVars

=============================================================================
