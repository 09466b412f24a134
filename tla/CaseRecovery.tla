---------------------------- MODULE CaseRecovery ----------------------------
(***************************************************************************)
(* Cases and their financial recovery (cases/service.py and                *)
(* api/routes/cases.py): a case is opened, worked, resolved and reopened;  *)
(* its recovery record is initiated, verified against a bank transaction   *)
(* or given up. One merchant: every route filters by merchant_id.          *)
(*                                                                         *)
(* Every API call is a database session of its own that loads what it      *)
(* needs, the case (`_case`), the recovery record (`ensure_recovery`) or   *)
(* both, computes, and commits the columns it changed. Loads and commit    *)
(* are separate steps at READ COMMITTED, so calls on one case may overlap. *)
(* Which of the calls with the same loads it is, and its arguments, are    *)
(* chosen at the commit: until then it only reads. A call keeps of a row   *)
(* what it uses.                                                           *)
(***************************************************************************)
EXTENDS Naturals

CONSTANTS
  Case,        \* cases that may come to exist
  Exposure,    \* values of |case.difference|, never changed after creation
  Bank,        \* bank transactions on record
  BankAmount,  \* BankAmount[b]: their amounts
  BankRefs,    \* BankRefs[b]: references found in reference and raw_reference
  Ref,         \* external references a recovery may be given
  Session,     \* API calls that may be in flight at once
  NoCase, NoBank, NoRef  \* NULL

ASSUME ExposureAssumption == Exposure \subseteq Nat
ASSUME BankAssumption == /\ BankAmount \in [Bank -> Nat]
                         /\ BankRefs \in [Bank -> SUBSET Ref]
ASSUME NullAssumption == NoCase \notin Case /\ NoBank \notin Bank /\ NoRef \notin Ref

VARIABLES
  case,      \* table reconciliation_cases
  recovery,  \* table case_recovery_records, at most one per case (unique case_id)
  call,      \* what each API call has loaded so far
  overtaken  \* cases on which a call committed over rows changed since its load

vars == <<case, recovery, call, overtaken>>

-----------------------------------------------------------------------------
CaseStatus == {"OPEN", "IN_PROGRESS", "RESOLVED", "REOPENED"}

ValidTransitions ==
  [OPEN        |-> {"IN_PROGRESS", "RESOLVED"},
   IN_PROGRESS |-> {"RESOLVED"},
   RESOLVED    |-> {"REOPENED"},
   REOPENED    |-> {"IN_PROGRESS", "RESOLVED"}]

\* FALSE_POSITIVE is the only code the guards tell apart; OTHER stands for the
\* six others.
ResolutionCode == {"FALSE_POSITIVE", "OTHER"}

CaseRow == [status: CaseStatus \cup {"ABSENT"}, exposure: Nat,
            code: ResolutionCode \cup {"none"}, resolved: BOOLEAN]
NoRow == [status |-> "ABSENT", exposure |-> 0, code |-> "none", resolved |-> FALSE]

RecoveryStatus == {"IDENTIFIED", "NOT_REQUIRED", "RECOVERY_INITIATED",
                   "PARTIALLY_RECOVERED", "VERIFIED", "UNRECOVERABLE"}

RecoveryRow == [status: RecoveryStatus \cup {"ABSENT"}, recoverable: Nat,
                recovered: Nat, reference: Ref \cup {NoRef}, bank: Bank \cup {NoBank}]
NoRecovery == [status |-> "ABSENT", recoverable |-> 0, recovered |-> 0,
               reference |-> NoRef, bank |-> NoBank]

\* The record ensure_recovery inserts.
NewRecovery(exposure) ==
  [NoRecovery EXCEPT !.status = IF exposure > 0 THEN "IDENTIFIED" ELSE "NOT_REQUIRED",
                     !.recoverable = exposure]

Idle == [stage |-> "idle", case |-> NoCase, row |-> NoRow, recovery |-> NoRecovery]

Created == {c \in Case : case[c].status # "ABSENT"}

\* One column of an ORM flush: written only if the call changed it.
Col(db, old, new) == IF new = old THEN db ELSE new

\* The exposure is never assigned.
FlushCase(db, old, new) ==
  [status   |-> Col(db.status, old.status, new.status),
   exposure |-> db.exposure,
   code     |-> Col(db.code, old.code, new.code),
   resolved |-> Col(db.resolved, old.resolved, new.resolved)]

FlushRecovery(db, old, new) ==
  [status      |-> Col(db.status, old.status, new.status),
   recoverable |-> Col(db.recoverable, old.recoverable, new.recoverable),
   recovered   |-> Col(db.recovered, old.recovered, new.recovered),
   reference   |-> Col(db.reference, old.reference, new.reference),
   bank        |-> Col(db.bank, old.bank, new.bank)]

MayBecome(s, target) == target \in ValidTransitions[call[s].row.status]

End(s) == call' = [call EXCEPT ![s] = Idle]

\* The call holds the recovery record, its own insert if there was none.
Held(s) == LET q == call[s]
           IN IF q.recovery = NoRecovery THEN NewRecovery(case[q.case].exposure) ELSE q.recovery

\* Its insert would break the unique constraint on case_id.
Duplicate(s) == call[s].recovery = NoRecovery /\ recovery[call[s].case] # NoRecovery

NoteOvertaking(s) ==
  LET q == call[s]
      stale == \/ q.stage \in {"loaded", "closing"} /\ q.row # case[q.case]
               \/ q.stage = "read" /\ q.recovery # recovery[q.case]
               \/ q.stage = "closing" /\ q.recovery.status # recovery[q.case].status
  IN overtaken' = IF stale THEN overtaken \cup {q.case} ELSE overtaken

\* The commit of a call that has loaded the record: `new` is what it made of it.
WriteRecovery(s, new) ==
  LET c == call[s].case
      old == call[s].recovery
  IN /\ ~Duplicate(s)
     /\ recovery' = [recovery EXCEPT ![c] = IF old = NoRecovery THEN new
                                            ELSE FlushRecovery(@, old, new)]

-----------------------------------------------------------------------------
Init ==
  /\ case = [c \in Case |-> NoRow]
  /\ recovery = [c \in Case |-> NoRecovery]
  /\ call = [s \in Session |-> Idle]
  /\ overtaken = {}

\* create_case of cases/service.py, which adds the recovery record, and of
\* rca/service.py (a reconciliation run), which does not.
CreateCase(c, exposure, withRecovery) ==
  /\ c \notin Created
  /\ case' = [case EXCEPT ![c] = [NoRow EXCEPT !.status = "OPEN", !.exposure = exposure]]
  /\ recovery' = [recovery EXCEPT ![c] = IF withRecovery THEN NewRecovery(exposure) ELSE @]
  /\ UNCHANGED <<call, overtaken>>

\* _case, in the calls that change the status of the case.
LoadCase(s, c) ==
  /\ call[s] = Idle
  /\ c \in Created
  /\ call' = [call EXCEPT ![s] = [Idle EXCEPT !.stage = "loaded", !.case = c,
                                              !.row = case[c]]]
  /\ UNCHANGED <<case, recovery, overtaken>>

\* The SELECT of ensure_recovery in transition(), which uses the status only.
ReadRecoveryStatus(s) ==
  /\ call[s].stage = "loaded"
  /\ MayBecome(s, "RESOLVED")
  /\ call' = [call EXCEPT ![s].stage = "closing",
                          ![s].recovery.status = recovery[call[s].case].status]
  /\ UNCHANGED <<case, recovery, overtaken>>

\* The SELECT of ensure_recovery in the calls on the recovery; they use no
\* column of the case that ever changes.
LoadRecovery(s, c) ==
  /\ call[s] = Idle
  /\ c \in Created
  /\ call' = [call EXCEPT ![s] = [Idle EXCEPT !.stage = "read", !.case = c,
                                              !.recovery = recovery[c]]]
  /\ UNCHANGED <<case, recovery, overtaken>>

\* A call that ends without a write: rejected by a guard on its arguments or
\* on what it loaded, failed by a unique constraint, or lost with its process.
Abandon(s) ==
  /\ call[s] # Idle
  /\ End(s)
  /\ UNCHANGED <<case, recovery, overtaken>>

-----------------------------------------------------------------------------
(* The recovery record.                                                    *)

\* GET .../recovery commits the record that ensure_recovery made.
GetRecovery(s) ==
  /\ call[s].stage = "read"
  /\ WriteRecovery(s, Held(s))
  /\ End(s)
  /\ UNCHANGED <<case, overtaken>>

MutInitiatedKeepsStatus(r, amount, ref) ==
  [r EXCEPT !.recoverable = amount, !.reference = ref,
            !.status = IF @ = "VERIFIED" THEN @ ELSE "RECOVERY_INITIATED"]
Initiated(r, amount, ref) ==
  [r EXCEPT !.recoverable = amount, !.reference = ref, !.status = "RECOVERY_INITIATED"]

\* No guard on the status of the case or of the record.
InitiateRecovery(s, amount, ref) ==
  /\ call[s].stage = "read"
  /\ amount <= case[call[s].case].exposure
  /\ WriteRecovery(s, Initiated(Held(s), amount, ref))
  /\ NoteOvertaking(s)
  /\ End(s)
  /\ UNCHANGED case

\* verify_recovery, amounts differ: the attempt is recorded and committed, then
\* reported as an error.
MutMismatchedRecordsAll(r, paid) ==
  [r EXCEPT !.recovered = paid,
            !.status = IF paid < r.recoverable THEN "PARTIALLY_RECOVERED"
                                               ELSE "RECOVERY_INITIATED"]
Mismatched(r, paid) ==
  [r EXCEPT !.recovered = IF paid < r.recoverable THEN paid ELSE 0,
            !.status = IF paid < r.recoverable THEN "PARTIALLY_RECOVERED"
                                               ELSE "RECOVERY_INITIATED"]

VerifyMismatch(s, b) ==
  /\ call[s].stage = "read"
  /\ Held(s).recoverable > 0
  /\ BankAmount[b] # Held(s).recoverable
  /\ WriteRecovery(s, Mismatched(Held(s), BankAmount[b]))
  /\ NoteOvertaking(s)
  /\ End(s)
  /\ UNCHANGED case

\* verify_recovery, amounts and references agree. Whether another case was
\* verified with the same bank transaction is not asked.
VerifyRecovery(s, b) ==
  LET r == Held(s)
  IN /\ call[s].stage = "read"
     /\ r.recoverable > 0
     /\ BankAmount[b] = r.recoverable
     /\ r.reference # NoRef => r.reference \in BankRefs[b]
     /\ WriteRecovery(s, [r EXCEPT !.recovered = BankAmount[b], !.bank = b,
                                   !.status = "VERIFIED"])
     /\ NoteOvertaking(s)
     /\ End(s)
     /\ UNCHANGED case

MarkUnrecoverable(s) ==
  /\ call[s].stage = "read"
  /\ WriteRecovery(s, [Held(s) EXCEPT !.status = "UNRECOVERABLE"])
  /\ NoteOvertaking(s)
  /\ End(s)
  /\ UNCHANGED case

-----------------------------------------------------------------------------
(* The status of the case: transition().                                   *)

StartCase(s) ==
  LET q == call[s]
  IN /\ q.stage = "loaded"
     /\ MayBecome(s, "IN_PROGRESS")
     /\ case' = [case EXCEPT ![q.case] =
                   FlushCase(@, q.row, [q.row EXCEPT !.status = "IN_PROGRESS"])]
     /\ NoteOvertaking(s)
     /\ End(s)
     /\ UNCHANGED recovery

MutMayCloseFreely(s, code) == TRUE
MayClose(s, code) ==
  \/ code = "FALSE_POSITIVE"
  \/ case[call[s].case].exposure = 0
  \/ Held(s).status = "VERIFIED"

\* resolved_at gets a new time, so it is written whatever was loaded.
ResolveCase(s, code) ==
  LET q == call[s]
      closed == [q.row EXCEPT !.status = "RESOLVED", !.code = code]
  IN /\ q.stage = "closing"
     /\ MayClose(s, code)
     /\ WriteRecovery(s, Held(s))
     /\ case' = [case EXCEPT ![q.case] =
                   [FlushCase(@, q.row, closed) EXCEPT !.resolved = TRUE]]
     /\ NoteOvertaking(s)
     /\ End(s)

\* The resolution code stays.
Reopened(r) == [r EXCEPT !.status = "REOPENED", !.resolved = FALSE]

ReopenCase(s) ==
  LET q == call[s]
  IN /\ q.stage = "loaded"
     /\ MayBecome(s, "REOPENED")
     /\ case' = [case EXCEPT ![q.case] = FlushCase(@, q.row, Reopened(q.row))]
     /\ NoteOvertaking(s)
     /\ End(s)
     /\ UNCHANGED recovery

CallStep(s) ==
  \/ \E c \in Case : LoadCase(s, c) \/ LoadRecovery(s, c)
  \/ ReadRecoveryStatus(s)
  \/ Abandon(s)
  \/ GetRecovery(s)
  \/ \E e \in Exposure : \E amount \in 0..e, ref \in Ref \cup {NoRef} :
       InitiateRecovery(s, amount, ref)
  \/ \E b \in Bank : VerifyMismatch(s, b) \/ VerifyRecovery(s, b)
  \/ MarkUnrecoverable(s)
  \/ StartCase(s)
  \/ \E code \in ResolutionCode : ResolveCase(s, code)
  \/ ReopenCase(s)

Next ==
  \/ \E c \in Case, exposure \in Exposure, withRecovery \in BOOLEAN :
       CreateCase(c, exposure, withRecovery)
  \/ \E s \in Session : CallStep(s)

Spec == Init /\ [][Next]_vars

-----------------------------------------------------------------------------
(* Properties.                                                             *)

\* Tables and loaded rows have the columns and values the models declare.
TypeOK ==
  /\ case \in [Case -> CaseRow]
  /\ recovery \in [Case -> RecoveryRow]
  /\ call \in [Session -> [stage: {"idle", "loaded", "closing", "read"},
                           case: Case \cup {NoCase}, row: CaseRow,
                           recovery: RecoveryRow]]
  /\ overtaken \subseteq Case

\* A case with an exposure that was ever closed under a code other than
\* FALSE_POSITIVE has a recovery record that names a bank transaction, in
\* every interleaving of the calls that write the two rows.
ClosedCaseNamesBank ==
  \A c \in Case : case[c].code = "OTHER" /\ case[c].exposure > 0
                    => recovery[c].bank # NoBank

\* No sequence of initiations and verification attempts, overlapping or not,
\* leaves a record that claims more money than the case is about.
NothingBeyondExposure ==
  \A c \in Case : /\ recovery[c].recoverable <= case[c].exposure
                  /\ recovery[c].recovered <= case[c].exposure

Proven(r) ==
  /\ r.bank # NoBank
  /\ BankAmount[r.bank] = r.recoverable
  /\ r.recovered = r.recoverable
  /\ r.reference # NoRef => r.reference \in BankRefs[r.bank]

\* VERIFIED means what the record shows: the bank transaction it names has
\* exactly the amount that is recoverable now and carries the reference it has
\* now, whatever was initiated, attempted or given up before. Calls that wrote
\* over rows changed since their load are set aside.
VerifiedIsProven ==
  \A c \in Case \ overtaken : recovery[c].status = "VERIFIED" => Proven(recovery[c])

\* "A financial case with a real exposure cannot be resolved until the
\* recoverable amount is verified" (README): transition() reads the record in
\* one statement and commits the resolution in another, and the record is still
\* VERIFIED when it commits, whatever code it writes over the one it loaded,
\* unless another call changed the case or the record in between.
ResolvedOnlyOnceVerified ==
  [][\A c \in Case :
       case[c].status # "RESOLVED" /\ case'[c].status = "RESOLVED" =>
         \/ c \in overtaken'
         \/ case[c].exposure = 0
         \/ case'[c].code = "FALSE_POSITIVE"
         \/ recovery'[c].status = "VERIFIED"]_vars

=============================================================================
