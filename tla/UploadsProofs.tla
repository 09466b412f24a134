---------------------------- MODULE UploadsProofs ----------------------------
(***************************************************************************)
(* Theorems of Uploads, for any mappings, records and requests.            *)
(***************************************************************************)
EXTENDS Uploads, FiniteSetTheorems, TLAPS

-----------------------------------------------------------------------------
(* The inductive invariant *)

\* A request has loaded an upload, and an import one that was valid.
LoadedRow == \A c \in Calls : call[c].op # "none" =>
  /\ upload # None
  /\ call[c].loaded \in Upload
  /\ call[c].op \in {"import", "looked"} => call[c].loaded.verdict = Valid

\* Until validations and imports mix, the verdict is that of the mapping, and
\* every request has loaded the mapping that is shown.
Unmixed == mixed \/
  /\ upload # None => upload.verdict = Verdict[upload.mapping]
  /\ \A c \in Calls : call[c].op # "none" =>
       /\ call[c].loaded.mapping = upload.mapping
       /\ call[c].loaded.verdict = Verdict[upload.mapping]

\* What is in the ledger: nothing before an import, then the record of the row.
Booked == mixed \/ reopened \/
  /\ upload = None \/ upload.status # "IMPORTED" => ledger = {}
  /\ upload # None => ledger \subseteq {RecordOf[upload.mapping]}

IInv == TypeOK /\ LoadedRow /\ Unmixed /\ ImportedAsShown /\ Booked

-----------------------------------------------------------------------------
(* Every step *)

LEMMA IdleType == Idle \in Call /\ Idle.op = "none"
  BY DEF Idle, Call

LEMMA CreateKeeps ==
  ASSUME IInv, NEW m \in Mappings, Create(m)
  PROVE  IInv'
  <1> DEFINE row == [mapping |-> m, verdict |-> Verdict[m], status |-> StatusOf(Verdict[m]),
                     under |-> None]
  <1>1. row \in Upload
    BY DEF Upload, Verdicts, StatusOf
  <1>2. row.mapping = m /\ row.verdict = Verdict[m] /\ row.status # "IMPORTED"
    BY DEF StatusOf
  <1>3. upload = None /\ upload' = row /\ UNCHANGED <<ledger, call, mixed, reopened>>
    BY DEF Create
  <1> HIDE DEF row
  <1>4. row # None
    BY <1>1, RowAssumption
  <1>5. \A c \in Calls : call[c].op = "none"
    BY <1>3 DEF IInv, LoadedRow
  <1>6. TypeOK'
    BY <1>1, <1>3 DEF IInv, TypeOK
  <1>7. LoadedRow' /\ Unmixed'
    BY <1>2, <1>3, <1>5 DEF LoadedRow, Unmixed
  <1>8. ImportedAsShown'
    BY <1>2, <1>3 DEF ImportedAsShown
  <1>9. Booked'
    BY <1>2, <1>3 DEF IInv, Booked
  <1>10. QED
    BY <1>6, <1>7, <1>8, <1>9 DEF IInv

\* A request loads the upload or goes on, and nothing is written.
LEMMA Advance ==
  ASSUME IInv, NEW c \in Calls, NEW q \in Call,
         q.op # "none" =>
           /\ upload # None
           /\ q.loaded = upload \/ (call[c].op # "none" /\ q.loaded = call[c].loaded)
           /\ q.op \in {"import", "looked"} => q.loaded.verdict = Valid,
         call' = [call EXCEPT ![c] = q],
         UNCHANGED <<upload, ledger, mixed, reopened>>
  PROVE  IInv'
  <1> USE DEF IInv
  <1>1. call'[c] = q /\ \A d \in Calls \ {c} : call'[d] = call[d]
    BY DEF TypeOK
  <1>2. TypeOK'
    BY DEF TypeOK
  <1>3. LoadedRow'
    BY <1>1 DEF LoadedRow, TypeOK
  <1>4. Unmixed'
    BY <1>1 DEF Unmixed
  <1>5. ImportedAsShown' /\ Booked'
    BY DEF ImportedAsShown, Booked
  <1>6. QED
    BY <1>2, <1>3, <1>4, <1>5

LEMMA ValidateKeeps ==
  ASSUME IInv, NEW c \in Calls, NEW m \in Mappings, Validate(c, m)
  PROVE  IInv'
  <1> USE DEF IInv
  <1> DEFINE old == call[c].loaded
             row == Validated(old, m)
  <1>1. /\ call[c].op = "validate"
        /\ upload' = row
        /\ mixed' = (mixed \/ old # upload \/ \E d \in Calls \ {c} : call[d].op # "none")
        /\ reopened' = (reopened \/ (upload.status = "IMPORTED" /\ upload'.status # "IMPORTED"))
        /\ call' = [call EXCEPT ![c] = Idle]
        /\ UNCHANGED ledger
    BY DEF Validate
  <1>2. upload # None /\ upload \in Upload /\ old \in Upload
    BY <1>1 DEF LoadedRow, TypeOK
  <1>3. row \in Upload
    BY <1>2 DEF Validated, Upload, Verdicts, StatusOf
  <1>4. ASSUME old = upload
        PROVE  /\ row.mapping = m /\ row.verdict = Verdict[m]
               /\ row.status = StatusOf(Verdict[m])
    <2>1. row = [upload EXCEPT !.mapping = m, !.verdict = Verdict[m],
                               !.status = StatusOf(Verdict[m])]
      BY <1>2, <1>4 DEF Validated, Upload
    <2>2. QED
      BY <1>2, <2>1 DEF Upload
  <1> HIDE DEF row
  <1>5. call'[c] = Idle /\ \A d \in Calls \ {c} : call'[d] = call[d]
    BY <1>1 DEF TypeOK
  <1>6. row # None
    BY <1>3, RowAssumption
  <1>7. TypeOK'
    BY <1>1, <1>3, IdleType DEF TypeOK
  <1>8. LoadedRow'
    BY <1>1, <1>5, <1>6, IdleType DEF LoadedRow
  <1>9. CASE ~mixed'
    <2>1. old = upload /\ ~mixed /\ \A d \in Calls : call'[d].op = "none"
      BY <1>1, <1>5, <1>9, IdleType
    <2>2. row.mapping = m /\ row.verdict = Verdict[m] /\ row.status # "IMPORTED"
      BY <1>4, <2>1 DEF StatusOf
    <2>3. Unmixed' /\ ImportedAsShown'
      BY <1>1, <2>1, <2>2 DEF Unmixed, ImportedAsShown
    <2>4. Booked'
      BY <1>1, <1>2, <2>1, <2>2 DEF Booked
    <2>5. QED
      BY <1>7, <1>8, <2>3, <2>4
  <1>10. CASE mixed'
    BY <1>7, <1>8, <1>10 DEF Unmixed, ImportedAsShown, Booked
  <1>11. QED
    BY <1>9, <1>10

LEMMA ImportKeeps ==
  ASSUME IInv, NEW c \in Calls, Import(c)
  PROVE  IInv'
  <1> USE DEF IInv
  <1> DEFINE m == call[c].loaded.mapping
             row == [upload EXCEPT !.status = "IMPORTED", !.under = m]
  <1>1. /\ call[c].op = "looked"
        /\ ledger' = ledger \cup {RecordOf[m]}
        /\ upload' = row
        /\ call' = [call EXCEPT ![c] = Idle]
        /\ UNCHANGED <<mixed, reopened>>
    BY DEF Import
  <1>2. /\ upload # None /\ upload \in Upload /\ call[c].loaded \in Upload
        /\ call[c].loaded.verdict = Valid
    BY <1>1 DEF LoadedRow, TypeOK
  <1>3. m \in Mappings
    BY <1>2 DEF Upload
  <1> HIDE DEF m
  <1>4. /\ row \in Upload /\ row.mapping = upload.mapping /\ row.verdict = upload.verdict
        /\ row.status = "IMPORTED" /\ row.under = m
    BY <1>2, <1>3 DEF Upload
  <1> HIDE DEF row
  <1>5. call'[c] = Idle /\ \A d \in Calls \ {c} : call'[d] = call[d]
    BY <1>1 DEF TypeOK
  <1>6. row # None
    BY <1>4, RowAssumption
  <1>7. TypeOK'
    BY <1>1, <1>3, <1>4, IdleType, MappingAssumption DEF TypeOK
  <1>8. LoadedRow'
    BY <1>1, <1>5, <1>6, IdleType DEF LoadedRow
  <1>9. mixed \/ (m = upload.mapping /\ Verdict[m] = Valid)
    BY <1>1, <1>2 DEF Unmixed, m
  <1>10. Unmixed'
    BY <1>1, <1>2, <1>4, <1>5, IdleType DEF Unmixed
  <1>11. ImportedAsShown'
    BY <1>1, <1>4, <1>9 DEF ImportedAsShown
  <1>12. Booked'
    BY <1>1, <1>2, <1>4, <1>6, <1>9 DEF Booked
  <1>13. QED
    BY <1>7, <1>8, <1>10, <1>11, <1>12

LEMMA IInvStep == IInv /\ [Next]_vars => IInv'
  <1> SUFFICES ASSUME IInv, [Next]_vars PROVE IInv'
    OBVIOUS
  <1>1. ASSUME NEW c \in Calls, BeginValidate(c) \/ BeginImport(c)
        PROVE  IInv'
    <2>1. PICK op \in {"validate", "import"} :
            Load(c, op) /\ (op = "import" => upload.verdict = Valid)
      BY <1>1 DEF BeginValidate, BeginImport
    <2> DEFINE q == [op |-> op, loaded |-> upload, found |-> FALSE]
    <2>2. upload # None /\ upload \in Upload
      BY <2>1 DEF Load, IInv, TypeOK
    <2>3. q \in Call /\ q.op = op /\ q.loaded = upload
      BY <2>2 DEF Call
    <2>4. call' = [call EXCEPT ![c] = q] /\ UNCHANGED <<upload, ledger, mixed, reopened>>
      BY <2>1 DEF Load
    <2> HIDE DEF q
    <2>5. QED
      BY <2>1, <2>2, <2>3, <2>4, Advance
  <1>2. ASSUME NEW c \in Calls, LookUp(c)
        PROVE  IInv'
    <2> DEFINE found == RecordOf[call[c].loaded.mapping] \in ledger
               q == [call[c] EXCEPT !.op = "looked", !.found = found]
    <2>1. call[c] \in Call /\ found \in BOOLEAN
      BY DEF IInv, TypeOK
    <2>2. /\ call[c].op = "import"
          /\ call' = [call EXCEPT ![c] = q]
          /\ UNCHANGED <<upload, ledger, mixed, reopened>>
      BY <1>2, <2>1 DEF LookUp, IInv, TypeOK
    <2> HIDE DEF found
    <2>3. q \in Call /\ q.op = "looked" /\ q.loaded = call[c].loaded
      BY <2>1 DEF Call
    <2>4. upload # None /\ call[c].loaded.verdict = Valid
      BY <2>2 DEF IInv, LoadedRow
    <2> HIDE DEF q
    <2>5. QED
      BY <2>2, <2>3, <2>4, Advance
  <1>3. ASSUME NEW c \in Calls, Fail(c)
        PROVE  IInv'
    BY <1>3, IdleType, Advance DEF Fail
  <1>4. CASE UNCHANGED vars
    BY <1>4 DEF vars, IInv, TypeOK, LoadedRow, Unmixed, ImportedAsShown, Booked
  <1>5. QED
    BY <1>1, <1>2, <1>3, <1>4, CreateKeeps, ValidateKeeps, ImportKeeps DEF Next

LEMMA IInvCorrect == Spec => []IInv
  <1>1. Init => IInv
    BY IdleType DEF Init, IInv, TypeOK, LoadedRow, Unmixed, ImportedAsShown, Booked
  <1>2. QED
    BY <1>1, IInvStep, PTL DEF Spec

-----------------------------------------------------------------------------
(* Theorems *)

\* Uploads and requests hold what their columns may (app/models/entities.py, DataUpload).
THEOREM TypeCorrect == Spec => []TypeOK
  <1>1. IInv => TypeOK
    BY DEF IInv
  <1>2. QED
    BY <1>1, IInvCorrect, PTL

\* What says IMPORTED was imported under the valid mapping it shows, as long as no
\* validation overlaps another request (validate_upload, import_upload).
THEOREM ImportsAreShown == Spec => []ImportedAsShown
  <1>1. IInv => ImportedAsShown
    BY DEF IInv
  <1>2. QED
    BY <1>1, IInvCorrect, PTL

\* The imports of an upload add one record for its row, unless a validation has
\* reopened it or overlapped an import (import_upload, persist_normalized).
THEOREM RowsAreImportedOnce == Spec => []OneRecordPerRow
  <1>1. IInv => OneRecordPerRow
    <2> SUFFICES ASSUME IInv, ~mixed, ~reopened PROVE Cardinality(ledger) <= 1
      BY DEF OneRecordPerRow
    <2>1. PICK r : ledger \subseteq {r}
      BY DEF IInv, Booked
    <2>2. IsFiniteSet({r}) /\ Cardinality({r}) = 1
      BY FS_Singleton
    <2>3. QED
      BY <2>1, <2>2, FS_Subset
  <1>2. QED
    BY <1>1, IInvCorrect, PTL

=============================================================================
