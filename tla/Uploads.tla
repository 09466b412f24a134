------------------------------- MODULE Uploads -------------------------------
(***************************************************************************)
(* A customer's file from the upload to the import                         *)
(* (app/api/routes/data_onboarding.py, app/data_onboarding.py), for one    *)
(* upload with one row in it.  What a row becomes when it is imported, and *)
(* whether it may be, depends on the mapping of its columns only.          *)
(*                                                                         *)
(* Each request loads the upload, works on what it has loaded and commits. *)
(* The ORM writes a column when it differs from what was loaded.  How the  *)
(* rows of a batch are stored, and what else arrives, is in Ingestion.     *)
(***************************************************************************)
EXTENDS FiniteSets, Naturals

CONSTANTS
  Mappings,
  Records,   \* provider ids
  RecordOf,  \* RecordOf[m]: the provider id that the row has under mapping m
  Verdict,   \* Verdict[m]: what validation says of it, a list of errors or Valid
  Refused,   \* mappings whose row the ingestion refuses
  Valid,
  Calls,     \* requests that can be under way at once
  None

ASSUME MappingAssumption == RecordOf \in [Mappings -> Records]
ASSUME NoneAssumption == None \notin Mappings \cup Records

VARIABLES
  upload,    \* the row of data_uploads, None before it is stored
  ledger,    \* provider ids of the rows that imports have added
  call,      \* what each request has loaded
  mixed,     \* history: a validation was committed over what another had loaded
  reopened   \* history: a validation took back the status IMPORTED

vars == <<upload, ledger, call, mixed, reopened>>

Verdicts == {Verdict[m] : m \in Mappings}

\* under is the mapping that import_result_json was computed with.
Upload == [mapping : Mappings, verdict : Verdicts,
           status : {"READY", "VALIDATION_FAILED", "IMPORTED"}, under : Mappings \cup {None}]

ASSUME RowAssumption == None \notin Upload

\* found: the record of the row was stored when the import looked for it.
Call == [op : {"none", "validate", "import", "looked"},
         loaded : Upload \cup {None}, found : BOOLEAN]
Idle == [op |-> "none", loaded |-> None, found |-> FALSE]

Init ==
  /\ upload = None
  /\ ledger = {}
  /\ call = [c \in Calls |-> Idle]
  /\ mixed = FALSE
  /\ reopened = FALSE

-----------------------------------------------------------------------------
StatusOf(verdict) == IF verdict = Valid THEN "READY" ELSE "VALIDATION_FAILED"

\* The suggested mapping is validated at once.
Create(m) ==
  /\ upload = None
  /\ upload' = [mapping |-> m, verdict |-> Verdict[m], status |-> StatusOf(Verdict[m]),
                under |-> None]
  /\ UNCHANGED <<ledger, call, mixed, reopened>>

Load(c, op) ==
  /\ upload # None
  /\ call[c] = Idle
  /\ call' = [call EXCEPT ![c] = [op |-> op, loaded |-> upload, found |-> FALSE]]
  /\ UNCHANGED <<upload, ledger, mixed, reopened>>

\* Whatever the status is, IMPORTED included.
BeginValidate(c) == Load(c, "validate")

\* The row after a validation under m, which had loaded old.  One that leaves the
\* status of a valid upload alone:
MutValidated(old, m) ==
  [upload EXCEPT !.mapping = IF m # old.mapping THEN m ELSE @,
                 !.verdict = IF Verdict[m] # old.verdict THEN Verdict[m] ELSE @,
                 !.status = IF Verdict[m] # Valid THEN "VALIDATION_FAILED" ELSE @]

Validated(old, m) ==
  [upload EXCEPT !.mapping = IF m # old.mapping THEN m ELSE @,
                 !.verdict = IF Verdict[m] # old.verdict THEN Verdict[m] ELSE @,
                 !.status = IF StatusOf(Verdict[m]) # old.status THEN StatusOf(Verdict[m]) ELSE @]

Validate(c, m) ==
  LET old == call[c].loaded IN
  /\ call[c].op = "validate"
  /\ upload' = Validated(old, m)
  /\ mixed' = (mixed \/ old # upload \/ \E d \in Calls \ {c} : call[d].op # "none")
  /\ reopened' = (reopened \/ (upload.status = "IMPORTED" /\ upload'.status # "IMPORTED"))
  /\ call' = [call EXCEPT ![c] = Idle]
  /\ UNCHANGED ledger

-----------------------------------------------------------------------------
\* An upload that is IMPORTED is returned as it is; one that is not valid is
\* refused.
BeginImport(c) ==
  /\ upload # None
  /\ upload.status # "IMPORTED"
  /\ upload.verdict = Valid
  /\ Load(c, "import")

\* The SELECT of persist_normalized.
LookUp(c) ==
  /\ call[c].op = "import"
  /\ call[c].loaded.mapping \notin Refused
  /\ call' = [call EXCEPT ![c].op = "looked",
                          ![c].found = RecordOf[call[c].loaded.mapping] \in ledger]
  /\ UNCHANGED <<upload, ledger, mixed, reopened>>

\* The record, the result and the status are committed together.  Without the
\* status:
MutImport(c) ==
  LET m == call[c].loaded.mapping IN
  /\ call[c].op = "looked"
  /\ ~call[c].found => RecordOf[m] \notin ledger
  /\ ledger' = ledger \cup {RecordOf[m]}
  /\ upload' = [upload EXCEPT !.under = m]
  /\ call' = [call EXCEPT ![c] = Idle]
  /\ UNCHANGED <<mixed, reopened>>

\* A record that was not found is inserted, and the unique constraint must hold.
Import(c) ==
  LET m == call[c].loaded.mapping IN
  /\ call[c].op = "looked"
  /\ ~call[c].found => RecordOf[m] \notin ledger
  /\ ledger' = ledger \cup {RecordOf[m]}
  /\ upload' = [upload EXCEPT !.status = "IMPORTED", !.under = m]
  /\ call' = [call EXCEPT ![c] = Idle]
  /\ UNCHANGED <<mixed, reopened>>

\* 422, the unique constraint, a broken connection: all is rolled back.
Fail(c) ==
  /\ call[c] # Idle
  /\ call' = [call EXCEPT ![c] = Idle]
  /\ UNCHANGED <<upload, ledger, mixed, reopened>>

Next ==
  \/ \E m \in Mappings : Create(m)
  \/ \E c \in Calls :
       \/ BeginValidate(c) \/ BeginImport(c) \/ LookUp(c) \/ Import(c) \/ Fail(c)
       \/ \E m \in Mappings : Validate(c, m)

Spec == Init /\ [][Next]_vars

-----------------------------------------------------------------------------
(***************************************************************************)
(* What the columns of an upload and a request may hold                    *)
(* (models/entities.py, DataUpload).                                       *)
(***************************************************************************)
TypeOK ==
  /\ upload \in Upload \cup {None}
  /\ ledger \in SUBSET Records
  /\ call \in [Calls -> Call]
  /\ mixed \in BOOLEAN
  /\ reopened \in BOOLEAN

(***************************************************************************)
(* An upload that says IMPORTED was imported under the mapping it shows,   *)
(* and that mapping is valid ("A validation-failed upload cannot be        *)
(* imported", docs/DATA_ONBOARDING_V04.md), whatever is validated and      *)
(* imported again in which order, unless a validation was committed while  *)
(* another request had loaded the upload (validate_upload, import_upload). *)
(***************************************************************************)
ImportedAsShown ==
  upload # None /\ upload.status = "IMPORTED" =>
    mixed \/ (upload.under = upload.mapping /\ Verdict[upload.mapping] = Valid)

(***************************************************************************)
(* A row becomes one record, however often the upload is imported at once  *)
(* or again ("Re-importing an already imported upload is idempotent at the *)
(* upload workflow level"), unless a validation has reopened it under      *)
(* another mapping, or overlapped an import.                               *)
(***************************************************************************)
OneRecordPerRow == mixed \/ reopened \/ Cardinality(ledger) <= 1

=============================================================================
