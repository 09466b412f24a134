------------------------- MODULE CaseRecoveryProofs -------------------------
(* Theorems of CaseRecovery, for every set of cases, exposures, bank          *)
(* transactions and API calls, however the calls overlap; and of AuditTrail.  *)
EXTENDS CaseRecovery, AuditTrail, WellFoundedInduction, TLAPS

\* What holds of a recovery record of a case with exposure e, whether it is in
\* the table or on its way there.
Sound(r, e) ==
  /\ r.recoverable <= e
  /\ r.recovered <= e
  /\ r.status = "VERIFIED" => r.bank # NoBank

\* What holds of the tables.
RowsJustified ==
  \A c \in Case :
    /\ Sound(recovery[c], case[c].exposure)
    /\ case[c].status = "ABSENT" => case[c].exposure = 0
    /\ case[c].code = "OTHER" /\ case[c].exposure > 0 => recovery[c].bank # NoBank

\* What a call remembers. It knows of no bank transaction that the table has
\* lost, since they are replaced and never removed; so the columns it leaves
\* alone when it commits stay justified.
CallJustified(q) ==
  /\ q.stage # "idle" => q.case \in Case /\ case[q.case].status # "ABSENT"
  /\ q.stage = "read" =>
       /\ Sound(q.recovery, case[q.case].exposure)
       /\ q.recovery.bank # NoBank => recovery[q.case].bank # NoBank
  /\ q.stage = "closing" /\ q.recovery.status = "VERIFIED" =>
       recovery[q.case].bank # NoBank

\* The inductive invariant.
Justified == RowsJustified /\ \A s \in Session : CallJustified(call[s])

CallRow == [stage: {"idle", "loaded", "closing", "read"}, case: Case \cup {NoCase},
            row: CaseRow, recovery: RecoveryRow]

-----------------------------------------------------------------------------
(* Types of the rows that the operations build.                               *)

LEMMA RowTypes == NoRow \in CaseRow /\ NoRecovery \in RecoveryRow
  BY DEF NoRow, NoRecovery, CaseRow, RecoveryRow

LEMMA IdleType == Idle \in CallRow
  BY RowTypes DEF Idle, CallRow

LEMMA NewRecoveryType ==
  ASSUME NEW e \in Nat
  PROVE  /\ NewRecovery(e) \in RecoveryRow
         /\ NewRecovery(e) # NoRecovery
         /\ NewRecovery(e).recoverable = e
         /\ NewRecovery(e).recovered = 0
         /\ NewRecovery(e).status # "VERIFIED"
         /\ NewRecovery(e).bank = NoBank
  BY DEF NewRecovery, NoRecovery, RecoveryRow, RecoveryStatus

LEMMA FlushRecoveryType ==
  ASSUME NEW db \in RecoveryRow, NEW old \in RecoveryRow, NEW new \in RecoveryRow
  PROVE  FlushRecovery(db, old, new) \in RecoveryRow
  BY DEF FlushRecovery, Col, RecoveryRow

LEMMA FlushCaseType ==
  ASSUME NEW db \in CaseRow, NEW old \in CaseRow, NEW new \in CaseRow
  PROVE  /\ FlushCase(db, old, new) \in CaseRow
         /\ FlushCase(db, old, new).exposure = db.exposure
  BY DEF FlushCase, Col, CaseRow

\* A record that was loaded and not touched is not written.
LEMMA FlushNothing ==
  ASSUME NEW db \in RecoveryRow, NEW old
  PROVE  FlushRecovery(db, old, old) = db
  BY DEF FlushRecovery, Col, RecoveryRow

\* Writing back the changed columns of a sound record onto a sound one is
\* sound, provided the bank transaction known to the writer is still there.
LEMMA FlushSound ==
  ASSUME NEW db \in RecoveryRow, NEW old \in RecoveryRow, NEW new \in RecoveryRow,
         NEW e \in Nat, Sound(db, e), Sound(new, e),
         old.bank # NoBank => db.bank # NoBank,
         new.bank = old.bank \/ new.bank # NoBank
  PROVE  /\ Sound(FlushRecovery(db, old, new), e)
         /\ db.bank # NoBank => FlushRecovery(db, old, new).bank # NoBank
         /\ new.bank # NoBank => FlushRecovery(db, old, new).bank # NoBank
  BY DEF FlushRecovery, Col, Sound, RecoveryRow

LEMMA InitiatedType ==
  ASSUME NEW r \in RecoveryRow, NEW a \in Nat, NEW ref \in Ref \cup {NoRef}
  PROVE  /\ Initiated(r, a, ref) \in RecoveryRow
         /\ Initiated(r, a, ref).recoverable = a
         /\ Initiated(r, a, ref).recovered = r.recovered
         /\ Initiated(r, a, ref).status # "VERIFIED"
         /\ Initiated(r, a, ref).bank = r.bank
  BY DEF Initiated, RecoveryRow, RecoveryStatus

LEMMA MismatchedType ==
  ASSUME NEW r \in RecoveryRow, NEW paid \in Nat
  PROVE  /\ Mismatched(r, paid) \in RecoveryRow
         /\ Mismatched(r, paid).recoverable = r.recoverable
         /\ Mismatched(r, paid).recovered <= r.recoverable
         /\ Mismatched(r, paid).status # "VERIFIED"
         /\ Mismatched(r, paid).bank = r.bank
  <1> DEFINE m(a, st) == [r EXCEPT !.recovered = a, !.status = st]
  <1>1. \A a \in Nat, st \in RecoveryStatus :
          /\ m(a, st) \in RecoveryRow
          /\ m(a, st).recoverable = r.recoverable
          /\ m(a, st).recovered = a
          /\ m(a, st).status = st
          /\ m(a, st).bank = r.bank
    BY DEF RecoveryRow
  <1>2. r.recoverable \in Nat
    BY DEF RecoveryRow
  <1>3. "PARTIALLY_RECOVERED" \in RecoveryStatus /\ "RECOVERY_INITIATED" \in RecoveryStatus
    BY DEF RecoveryStatus
  <1> HIDE DEF m
  <1>4. CASE paid < r.recoverable
    <2>1. Mismatched(r, paid) = m(paid, "PARTIALLY_RECOVERED")
      BY <1>4 DEF Mismatched, m
    <2>2. QED
      BY <1>1, <1>2, <1>3, <1>4, <2>1
  <1>5. CASE ~(paid < r.recoverable)
    <2>1. Mismatched(r, paid) = m(0, "RECOVERY_INITIATED")
      BY <1>5 DEF Mismatched, m
    <2>2. 0 <= r.recoverable
      BY <1>2
    <2>3. QED
      BY <1>1, <1>3, <2>1, <2>2
  <1>6. QED
    BY <1>4, <1>5

-----------------------------------------------------------------------------
(* What a commit does.                                                        *)

LEMMA HeldType ==
  ASSUME TypeOK, NEW s \in Session, call[s].case \in Case
  PROVE  /\ Held(s) \in RecoveryRow
         /\ call[s].recovery \in RecoveryRow
         /\ recovery[call[s].case] \in RecoveryRow
         /\ case[call[s].case] \in CaseRow
         /\ case[call[s].case].exposure \in Nat
         /\ call[s].row \in CaseRow
  <1>1. case[call[s].case].exposure \in Nat
    BY DEF TypeOK, CaseRow
  <1>2. QED
    BY <1>1, NewRecoveryType DEF TypeOK, Held

LEMMA EndType ==
  ASSUME TypeOK, NEW s \in Session, End(s)
  PROVE  call' \in [Session -> CallRow]
  BY IdleType DEF TypeOK, End, CallRow

LEMMA OvertakenType ==
  ASSUME TypeOK, NEW s \in Session, call[s].case \in Case, NoteOvertaking(s)
  PROVE  overtaken' \subseteq Case
  BY DEF TypeOK, NoteOvertaking

\* A step that removes no case and no bank transaction leaves what the calls
\* remember justified; a call that ended remembers nothing.
LEMMA CallsStayJustified ==
  ASSUME TypeOK, Justified,
         \A t \in Session : call'[t] = call[t] \/ call'[t] = Idle,
         \A c \in Case : case[c].status # "ABSENT" =>
           case'[c].status # "ABSENT" /\ case'[c].exposure = case[c].exposure,
         \A c \in Case : recovery[c].bank # NoBank => recovery'[c].bank # NoBank
  PROVE  \A t \in Session : CallJustified(call[t])'
  <1> SUFFICES ASSUME NEW t \in Session PROVE CallJustified(call[t])'
    OBVIOUS
  <1>1. CallJustified(call[t])
    BY DEF Justified
  <1>2. CASE call'[t] = Idle
    BY <1>2 DEF CallJustified, Idle
  <1>3. CASE call'[t] = call[t] /\ call[t].stage = "idle"
    BY <1>3 DEF CallJustified
  <1>4. CASE call'[t] = call[t] /\ call[t].stage # "idle"
    BY <1>1, <1>4 DEF CallJustified
  <1>5. QED
    BY <1>2, <1>3, <1>4

\* The commit of a call on the recovery record, given that what it writes is
\* sound and takes no bank transaction away.
LEMMA RecoveryCommit ==
  ASSUME TypeOK, Justified, NEW s \in Session, call[s].stage = "read",
         NEW new \in RecoveryRow, Sound(new, case[call[s].case].exposure),
         new.bank = Held(s).bank \/ new.bank # NoBank,
         WriteRecovery(s, new), End(s), UNCHANGED case, overtaken' \subseteq Case
  PROVE  TypeOK' /\ Justified'
  <1> DEFINE c == call[s].case
             old == call[s].recovery
             row == IF old = NoRecovery THEN new ELSE FlushRecovery(recovery[c], old, new)
  <1>1. c \in Case /\ Sound(old, case[c].exposure) /\ case[c].status # "ABSENT"
        /\ (old.bank # NoBank => recovery[c].bank # NoBank)
    BY DEF Justified, CallJustified
  <1>2. recovery' = [recovery EXCEPT ![c] = row]
    BY DEF WriteRecovery
  <1>3. Sound(recovery[c], case[c].exposure)
    BY <1>1 DEF Justified, RowsJustified
  <1>4. /\ row \in RecoveryRow
        /\ Sound(row, case[c].exposure)
        /\ recovery[c].bank # NoBank => row.bank # NoBank
    <2>1. CASE old = NoRecovery
      <3>1. recovery[c] = NoRecovery
        BY <2>1 DEF WriteRecovery, Duplicate
      <3>2. QED
        BY <2>1, <3>1 DEF NoRecovery
    <2>2. CASE old # NoRecovery
      <3>1. Held(s) = old
        BY <2>2 DEF Held
      <3>2. QED
        BY <1>1, <1>3, <2>2, <3>1, HeldType, FlushRecoveryType, FlushSound
    <2>3. QED
      BY <2>1, <2>2
  <1> HIDE DEF row
  <1>5. recovery' \in [Case -> RecoveryRow]
    BY <1>2, <1>4 DEF TypeOK
  <1>6. \A d \in Case : recovery'[d] = IF d = c THEN row ELSE recovery[d]
    BY <1>1, <1>2 DEF TypeOK
  <1>7. RowsJustified'
    BY <1>4, <1>6 DEF Justified, RowsJustified
  <1>8. \A t \in Session : call'[t] = call[t] \/ call'[t] = Idle
    BY DEF TypeOK, End
  <1>9. \A t \in Session : CallJustified(call[t])'
    BY <1>4, <1>6, <1>8, CallsStayJustified
  <1>10. QED
    BY <1>5, <1>7, <1>9, EndType DEF TypeOK, Justified, CallRow

\* The commit of a call on the status of the case. It changes the recovery
\* record at most by inserting it.
LEMMA CaseCommit ==
  ASSUME TypeOK, Justified, NEW s \in Session, call[s].stage # "idle",
         NEW row \in CaseRow,
         row.status # "ABSENT",
         row.exposure = case[call[s].case].exposure,
         row.code = "OTHER" /\ row.exposure > 0 => recovery[call[s].case].bank # NoBank,
         case' = [case EXCEPT ![call[s].case] = row],
         \/ recovery' = recovery
         \/ /\ recovery[call[s].case] = NoRecovery
            /\ recovery' = [recovery EXCEPT ![call[s].case] = NewRecovery(row.exposure)],
         End(s), overtaken' \subseteq Case
  PROVE  TypeOK' /\ Justified'
  <1> DEFINE c == call[s].case
  <1>1. c \in Case /\ case[c].status # "ABSENT"
    BY DEF Justified, CallJustified
  <1>2. row.exposure \in Nat
    BY DEF CaseRow
  <1>3. \A d \in Case : case'[d] = IF d = c THEN row ELSE case[d]
    BY <1>1 DEF TypeOK
  <1>4. recovery' \in [Case -> RecoveryRow]
    BY <1>2, NewRecoveryType DEF TypeOK
  <1>5. \A d \in Case : /\ Sound(recovery'[d], case[d].exposure)
                        /\ recovery[d].bank # NoBank => recovery'[d].bank # NoBank
    <2>1. CASE recovery' = recovery
      BY <2>1 DEF Justified, RowsJustified
    <2>2. CASE /\ recovery[c] = NoRecovery
               /\ recovery' = [recovery EXCEPT ![c] = NewRecovery(row.exposure)]
      <3>1. Sound(NewRecovery(row.exposure), case[c].exposure)
        BY <1>2, NewRecoveryType DEF Sound
      <3>2. recovery[c].bank = NoBank
        BY <2>2 DEF NoRecovery
      <3>3. \A d \in Case : recovery'[d] = IF d = c THEN NewRecovery(row.exposure)
                                                    ELSE recovery[d]
        BY <2>2 DEF TypeOK
      <3>4. QED
        BY <3>1, <3>2, <3>3 DEF Justified, RowsJustified
    <2>3. QED
      BY <2>1, <2>2
  <1>6. RowsJustified'
    BY <1>3, <1>5 DEF Justified, RowsJustified
  <1>7. \A t \in Session : call'[t] = call[t] \/ call'[t] = Idle
    BY DEF TypeOK, End
  <1>8. \A t \in Session : CallJustified(call[t])'
    BY <1>1, <1>3, <1>5, <1>7, CallsStayJustified
  <1>9. QED
    BY <1>4, <1>6, <1>8, EndType DEF TypeOK, Justified, CallRow

-----------------------------------------------------------------------------
(* The steps.                                                                 *)

LEMMA Initially == Init => TypeOK /\ Justified
  <1> SUFFICES ASSUME Init PROVE TypeOK /\ Justified
    OBVIOUS
  <1>1. TypeOK
    BY RowTypes, IdleType DEF Init, TypeOK, CallRow
  <1>2. RowsJustified
    <2>1. Sound(NoRecovery, NoRow.exposure)
      BY DEF Sound, NoRow, NoRecovery
    <2>2. NoRow.exposure = 0 /\ NoRow.code = "none"
      BY DEF NoRow
    <2>3. \A c \in Case : case[c] = NoRow /\ recovery[c] = NoRecovery
      BY DEF Init
    <2>4. QED
      BY <2>1, <2>2, <2>3 DEF RowsJustified
  <1>3. \A s \in Session : CallJustified(call[s])
    BY DEF Init, CallJustified, Idle
  <1>4. QED
    BY <1>1, <1>2, <1>3 DEF Justified

LEMMA CreateStep ==
  ASSUME TypeOK, Justified, NEW c \in Case, NEW e \in Exposure,
         NEW withRecovery \in BOOLEAN, CreateCase(c, e, withRecovery)
  PROVE  TypeOK' /\ Justified'
  <1> DEFINE row == [NoRow EXCEPT !.status = "OPEN", !.exposure = e]
             rec == IF withRecovery THEN NewRecovery(e) ELSE recovery[c]
  <1>1. e \in Nat
    BY ExposureAssumption
  <1>2. row \in CaseRow /\ row.exposure = e /\ row.code = "none" /\ row.status = "OPEN"
    BY <1>1 DEF NoRow, CaseRow, CaseStatus
  <1>3. case[c].status = "ABSENT" /\ case[c].exposure = 0
    BY DEF CreateCase, Created, Justified, RowsJustified
  <1>4. rec \in RecoveryRow /\ Sound(rec, e)
    <2>1. CASE withRecovery
      BY <1>1, <2>1, NewRecoveryType DEF Sound
    <2>2. CASE ~withRecovery
      <3>1. Sound(recovery[c], 0) /\ recovery[c] \in RecoveryRow
        BY <1>3 DEF TypeOK, Justified, RowsJustified
      <3>2. QED
        BY <1>1, <2>2, <3>1 DEF Sound, RecoveryRow
    <2>3. QED
      BY <2>1, <2>2
  <1> HIDE DEF row
  <1>5. \A d \in Case : case'[d] = IF d = c THEN row ELSE case[d]
    BY DEF CreateCase, TypeOK, row
  <1>6. recovery' = [recovery EXCEPT ![c] = rec]
    BY DEF CreateCase
  <1> HIDE DEF rec
  <1>7. \A d \in Case : recovery'[d] = IF d = c THEN rec ELSE recovery[d]
    BY <1>6 DEF TypeOK
  <1>8. TypeOK'
    BY <1>2, <1>4, <1>6 DEF TypeOK, CreateCase, row
  <1>9. RowsJustified'
    BY <1>2, <1>4, <1>5, <1>7 DEF Justified, RowsJustified
  <1>10. \A s \in Session : CallJustified(call[s])'
    BY <1>3, <1>5, <1>7, CallsStayJustified DEF CreateCase, Justified, CallJustified
  <1>11. QED
    BY <1>8, <1>9, <1>10 DEF Justified

LEMMA LoadStep ==
  ASSUME TypeOK, Justified, NEW s \in Session, NEW c \in Case,
         LoadCase(s, c) \/ LoadRecovery(s, c)
  PROVE  TypeOK' /\ Justified'
  <1>1. c \in Case /\ case[c].status # "ABSENT" /\ UNCHANGED <<case, recovery, overtaken>>
    BY DEF LoadCase, LoadRecovery, Created
  <1>2. ASSUME NEW q \in CallRow, call' = [call EXCEPT ![s] = q], q.case = c,
               q.stage = "loaded" \/ (q.stage = "read" /\ q.recovery = recovery[c])
        PROVE  TypeOK' /\ Justified'
    <2>1. CallJustified(q)
      BY <1>1, <1>2 DEF CallJustified, Justified, RowsJustified
    <2>2. \A t \in Session : call'[t] = IF t = s THEN q ELSE call[t]
      BY <1>2 DEF TypeOK
    <2>3. RowsJustified' /\ \A t \in Session : CallJustified(call[t])'
      BY <1>1, <2>1, <2>2 DEF Justified, RowsJustified, CallJustified
    <2>4. QED
      BY <1>1, <1>2, <2>3 DEF TypeOK, CallRow, Justified
  <1>3. CASE LoadCase(s, c)
    <2> DEFINE q == [Idle EXCEPT !.stage = "loaded", !.case = c, !.row = case[c]]
    <2>1. q \in CallRow /\ q.case = c /\ q.stage = "loaded"
      BY IdleType DEF TypeOK, CallRow
    <2>2. call' = [call EXCEPT ![s] = q]
      BY <1>3 DEF LoadCase
    <2> HIDE DEF q
    <2>3. QED
      BY <1>2, <2>1, <2>2
  <1>4. CASE LoadRecovery(s, c)
    <2> DEFINE q == [Idle EXCEPT !.stage = "read", !.case = c, !.recovery = recovery[c]]
    <2>1. q \in CallRow /\ q.case = c /\ q.stage = "read" /\ q.recovery = recovery[c]
      BY IdleType DEF TypeOK, CallRow
    <2>2. call' = [call EXCEPT ![s] = q]
      BY <1>4 DEF LoadRecovery
    <2> HIDE DEF q
    <2>3. QED
      BY <1>2, <2>1, <2>2
  <1>5. QED
    BY <1>3, <1>4

LEMMA ReadRecoveryStatusStep ==
  ASSUME TypeOK, Justified, NEW s \in Session, ReadRecoveryStatus(s)
  PROVE  TypeOK' /\ Justified'
  <1> DEFINE c == call[s].case
             q == [call[s] EXCEPT !.stage = "closing", !.recovery.status = recovery[c].status]
  <1>1. call' = [call EXCEPT ![s] = q] /\ UNCHANGED <<case, recovery, overtaken>>
    BY DEF ReadRecoveryStatus
  <1>2. c \in Case /\ case[c].status # "ABSENT"
    BY DEF ReadRecoveryStatus, Justified, CallJustified
  <1>3. recovery[c] \in RecoveryRow /\ call[s] \in CallRow /\ call[s].recovery \in RecoveryRow
    BY <1>2 DEF TypeOK, CallRow
  <1>4. [call[s].recovery EXCEPT !.status = recovery[c].status] \in RecoveryRow
    BY <1>3 DEF RecoveryRow
  <1>5. /\ q \in CallRow
        /\ q.stage = "closing"
        /\ q.case = c
        /\ q.recovery.status = recovery[c].status
    BY <1>3, <1>4 DEF CallRow, RecoveryRow
  <1>6. CallJustified(q)
    BY <1>2, <1>5 DEF CallJustified, Justified, RowsJustified, Sound
  <1> HIDE DEF q
  <1>7. \A t \in Session : call'[t] = IF t = s THEN q ELSE call[t]
    BY <1>1 DEF TypeOK
  <1>8. RowsJustified' /\ \A t \in Session : CallJustified(call[t])'
    BY <1>1, <1>6, <1>7 DEF Justified, RowsJustified, CallJustified
  <1>9. QED
    BY <1>1, <1>5, <1>8 DEF TypeOK, CallRow, Justified

LEMMA AbandonStep ==
  ASSUME TypeOK, Justified, NEW s \in Session, Abandon(s)
  PROVE  TypeOK' /\ Justified'
  <1>1. \A t \in Session : call'[t] = call[t] \/ call'[t] = Idle
    BY DEF TypeOK, Abandon, End
  <1>2. \A t \in Session : CallJustified(call[t])'
    BY <1>1, CallsStayJustified DEF Abandon
  <1>3. RowsJustified'
    BY DEF Abandon, Justified, RowsJustified
  <1>4. QED
    BY <1>2, <1>3, EndType DEF Abandon, TypeOK, CallRow, Justified

LEMMA RecoveryStep ==
  ASSUME TypeOK, Justified, NEW s \in Session,
         \/ GetRecovery(s)
         \/ \E e \in Exposure : \E amount \in 0..e, ref \in Ref \cup {NoRef} :
              InitiateRecovery(s, amount, ref)
         \/ \E b \in Bank : VerifyMismatch(s, b) \/ VerifyRecovery(s, b)
         \/ MarkUnrecoverable(s)
  PROVE  TypeOK' /\ Justified'
  <1> DEFINE e == case[call[s].case].exposure
             r == Held(s)
  <1>1. call[s].stage = "read" /\ call[s].case \in Case
    BY DEF GetRecovery, InitiateRecovery, VerifyMismatch, VerifyRecovery,
           MarkUnrecoverable, Justified, CallJustified
  <1>2. r \in RecoveryRow /\ e \in Nat
    BY <1>1, HeldType
  <1>3. Sound(r, e)
    <2>1. CASE call[s].recovery = NoRecovery
      BY <1>2, <2>1, NewRecoveryType DEF Held, Sound
    <2>2. CASE call[s].recovery # NoRecovery
      BY <1>1, <2>2 DEF Held, Justified, CallJustified
    <2>3. QED
      BY <2>1, <2>2
  <1>4. r.recoverable \in Nat /\ r.recovered \in Nat
    BY <1>2 DEF RecoveryRow
  <1>5. CASE GetRecovery(s)
    <2>1. overtaken' \subseteq Case
      BY <1>5 DEF GetRecovery, TypeOK
    <2>2. QED
      BY <1>1, <1>2, <1>3, <1>5, <2>1, RecoveryCommit DEF GetRecovery
  <1>6. ASSUME NEW amount \in Nat, NEW ref \in Ref \cup {NoRef},
               InitiateRecovery(s, amount, ref)
        PROVE  TypeOK' /\ Justified'
    <2> DEFINE new == Initiated(r, amount, ref)
    <2>1. amount <= e
      BY <1>6 DEF InitiateRecovery
    <2>2. new \in RecoveryRow /\ Sound(new, e) /\ new.bank = r.bank
      BY <1>2, <1>3, <2>1, InitiatedType DEF Sound
    <2>3. WriteRecovery(s, new) /\ End(s) /\ UNCHANGED case /\ overtaken' \subseteq Case
      BY <1>1, <1>6, OvertakenType DEF InitiateRecovery
    <2> HIDE DEF new
    <2>4. QED
      BY <1>1, <2>2, <2>3, RecoveryCommit
  <1>7. ASSUME NEW b \in Bank, VerifyMismatch(s, b)
        PROVE  TypeOK' /\ Justified'
    <2> DEFINE new == Mismatched(r, BankAmount[b])
    <2>1. BankAmount[b] \in Nat
      BY BankAssumption
    <2>2. new \in RecoveryRow /\ new.recoverable = r.recoverable
          /\ new.recovered <= r.recoverable /\ new.status # "VERIFIED" /\ new.bank = r.bank
      BY <1>2, <2>1, MismatchedType
    <2>3. WriteRecovery(s, new) /\ End(s) /\ UNCHANGED case /\ overtaken' \subseteq Case
      BY <1>1, <1>7, OvertakenType DEF VerifyMismatch
    <2> HIDE DEF new
    <2>4. new.recovered \in Nat
      BY <2>2 DEF RecoveryRow
    <2>5. Sound(new, e)
      BY <1>2, <1>3, <1>4, <2>2, <2>4 DEF Sound
    <2>6. QED
      BY <1>1, <2>2, <2>3, <2>5, RecoveryCommit
  <1>8. ASSUME NEW b \in Bank, VerifyRecovery(s, b)
        PROVE  TypeOK' /\ Justified'
    <2> DEFINE new == [r EXCEPT !.recovered = BankAmount[b], !.bank = b, !.status = "VERIFIED"]
    <2>1. BankAmount[b] \in Nat /\ BankAmount[b] = r.recoverable /\ b # NoBank
      BY <1>8, BankAssumption, NullAssumption DEF VerifyRecovery
    <2>2. new \in RecoveryRow /\ new.recoverable = r.recoverable
          /\ new.recovered = r.recoverable /\ new.bank # NoBank
      BY <1>2, <2>1 DEF RecoveryRow, RecoveryStatus
    <2>3. WriteRecovery(s, new) /\ End(s) /\ UNCHANGED case /\ overtaken' \subseteq Case
      BY <1>1, <1>8, OvertakenType DEF VerifyRecovery
    <2> HIDE DEF new
    <2>4. Sound(new, e)
      BY <1>3, <2>2 DEF Sound
    <2>5. QED
      BY <1>1, <2>2, <2>3, <2>4, RecoveryCommit
  <1>9. CASE MarkUnrecoverable(s)
    <2> DEFINE new == [r EXCEPT !.status = "UNRECOVERABLE"]
    <2>1. new \in RecoveryRow /\ Sound(new, e) /\ new.bank = r.bank
      BY <1>2, <1>3 DEF RecoveryRow, RecoveryStatus, Sound
    <2>2. WriteRecovery(s, new) /\ End(s) /\ UNCHANGED case /\ overtaken' \subseteq Case
      BY <1>1, <1>9, OvertakenType DEF MarkUnrecoverable
    <2> HIDE DEF new
    <2>3. QED
      BY <1>1, <2>1, <2>2, RecoveryCommit
  <1>10. QED
    <2>1. \A x \in Exposure : 0..x \subseteq Nat
      BY ExposureAssumption
    <2>2. QED
      BY <1>5, <1>6, <1>7, <1>8, <1>9, <2>1

LEMMA CaseStep ==
  ASSUME TypeOK, Justified, NEW s \in Session,
         \/ StartCase(s)
         \/ ReopenCase(s)
         \/ \E code \in ResolutionCode : ResolveCase(s, code)
  PROVE  TypeOK' /\ Justified'
  <1> DEFINE q == call[s]
             db == case[q.case]
  <1>1. q.stage # "idle" /\ q.case \in Case
    BY DEF StartCase, ReopenCase, ResolveCase, Justified, CallJustified
  <1>2. q.row \in CaseRow /\ db \in CaseRow /\ db.exposure \in Nat
    BY <1>1, HeldType
  <1>3. db.status # "ABSENT"
    BY <1>1 DEF Justified, CallJustified
  <1>4. overtaken' \subseteq Case /\ End(s)
    BY <1>1, OvertakenType DEF StartCase, ReopenCase, ResolveCase
  <1>5. db.code = "OTHER" /\ db.exposure > 0 => recovery[q.case].bank # NoBank
    BY <1>1 DEF Justified, RowsJustified
  <1>6. ASSUME NEW new \in CaseRow, new.status # "ABSENT", new.code = q.row.code,
               case' = [case EXCEPT ![q.case] = FlushCase(db, q.row, new)],
               UNCHANGED recovery
        PROVE  TypeOK' /\ Justified'
    <2> DEFINE row == FlushCase(db, q.row, new)
    <2>1. row \in CaseRow /\ row.exposure = db.exposure
      BY <1>2, <1>6, FlushCaseType
    <2>2. row.status # "ABSENT" /\ row.code = db.code
      BY <1>3, <1>6 DEF FlushCase, Col
    <2>3. case' = [case EXCEPT ![q.case] = row] /\ recovery' = recovery
      BY <1>6
    <2> HIDE DEF row
    <2>4. QED
      BY <1>1, <1>4, <1>5, <2>1, <2>2, <2>3, CaseCommit
  <1>7. CASE StartCase(s)
    <2>1. [q.row EXCEPT !.status = "IN_PROGRESS"] \in CaseRow
      BY <1>2 DEF CaseRow, CaseStatus
    <2>2. [q.row EXCEPT !.status = "IN_PROGRESS"].code = q.row.code
          /\ [q.row EXCEPT !.status = "IN_PROGRESS"].status # "ABSENT"
      BY <1>2 DEF CaseRow
    <2>3. QED
      BY <1>6, <1>7, <2>1, <2>2 DEF StartCase
  <1>8. CASE ReopenCase(s)
    <2>1. /\ Reopened(q.row) \in CaseRow
          /\ Reopened(q.row).code = q.row.code
          /\ Reopened(q.row).status # "ABSENT"
      BY <1>2 DEF Reopened, CaseRow, CaseStatus
    <2>2. QED
      BY <1>6, <1>8, <2>1 DEF ReopenCase
  <1>9. ASSUME NEW code \in ResolutionCode, ResolveCase(s, code)
        PROVE  TypeOK' /\ Justified'
    <2> DEFINE closed == [q.row EXCEPT !.status = "RESOLVED", !.code = code]
               flushed == FlushCase(db, q.row, closed)
               row == [flushed EXCEPT !.resolved = TRUE]
    <2>1. closed \in CaseRow /\ closed.status = "RESOLVED" /\ closed.code = code
      BY <1>2 DEF CaseRow, CaseStatus
    <2>2. flushed \in CaseRow /\ flushed.exposure = db.exposure
      <3> HIDE DEF closed
      <3>1. QED
        BY <1>2, <2>1, FlushCaseType
    <2>3. flushed.status # "ABSENT" /\ (flushed.code = db.code \/ flushed.code = code)
      BY <1>3, <2>1 DEF FlushCase, Col
    <2>4. case' = [case EXCEPT ![q.case] = row]
      BY <1>9 DEF ResolveCase
    <2> HIDE DEF flushed, closed
    <2>5. /\ row \in CaseRow
          /\ row.exposure = db.exposure
          /\ row.status # "ABSENT"
          /\ row.code = db.code \/ row.code = code
      BY <2>2, <2>3 DEF CaseRow
    <2> HIDE DEF row
    <2>6. \/ recovery' = recovery
          \/ /\ recovery[q.case] = NoRecovery
             /\ recovery' = [recovery EXCEPT ![q.case] = NewRecovery(row.exposure)]
      <3>1. CASE q.recovery = NoRecovery
        <4>1. recovery[q.case] = NoRecovery
          BY <1>9, <3>1 DEF ResolveCase, WriteRecovery, Duplicate
        <4>2. recovery' = [recovery EXCEPT ![q.case] = NewRecovery(db.exposure)]
          BY <1>9, <3>1 DEF ResolveCase, WriteRecovery, Held
        <4>3. QED
          BY <2>5, <4>1, <4>2
      <3>2. CASE q.recovery # NoRecovery
        <4>1. recovery' = [recovery EXCEPT ![q.case] =
                             FlushRecovery(recovery[q.case], q.recovery, q.recovery)]
          BY <1>9, <3>2 DEF ResolveCase, WriteRecovery, Held
        <4>2. FlushRecovery(recovery[q.case], q.recovery, q.recovery) = recovery[q.case]
          BY <1>1, HeldType, FlushNothing
        <4>3. QED
          BY <1>1, <4>1, <4>2 DEF TypeOK
      <3>3. QED
        BY <3>1, <3>2
    <2>7. code = "OTHER" /\ db.exposure > 0 => recovery[q.case].bank # NoBank
      <3> SUFFICES ASSUME code = "OTHER", db.exposure > 0
                   PROVE  recovery[q.case].bank # NoBank
        OBVIOUS
      <3>1. Held(s).status = "VERIFIED"
        <4>1. MayClose(s, code)
          BY <1>9 DEF ResolveCase
        <4>2. code # "FALSE_POSITIVE" /\ db.exposure # 0
          BY <1>2
        <4>3. QED
          BY <4>1, <4>2 DEF MayClose
      <3>2. q.recovery.status = "VERIFIED"
        BY <1>2, <3>1, NewRecoveryType DEF Held
      <3>3. q.stage = "closing"
        BY <1>9 DEF ResolveCase
      <3>4. QED
        BY <3>2, <3>3 DEF Justified, CallJustified
    <2>8. row.code = "OTHER" /\ row.exposure > 0 => recovery[q.case].bank # NoBank
      BY <1>5, <2>5, <2>7
    <2>9. QED
      BY <1>1, <1>4, <2>4, <2>5, <2>6, <2>8, CaseCommit
  <1>10. QED
    BY <1>7, <1>8, <1>9

\* Justified is inductive.
LEMMA StepJustified == TypeOK /\ Justified /\ [Next]_vars => TypeOK' /\ Justified'
  <1> SUFFICES ASSUME TypeOK, Justified, [Next]_vars PROVE TypeOK' /\ Justified'
    OBVIOUS
  <1>1. CASE UNCHANGED vars
    BY <1>1 DEF vars, TypeOK, Justified, RowsJustified, CallJustified
  <1>2. ASSUME NEW c \in Case, NEW e \in Exposure, NEW w \in BOOLEAN, CreateCase(c, e, w)
        PROVE  TypeOK' /\ Justified'
    BY <1>2, CreateStep
  <1>3. ASSUME NEW s \in Session, CallStep(s)
        PROVE  TypeOK' /\ Justified'
    BY <1>3, LoadStep, ReadRecoveryStatusStep, AbandonStep, RecoveryStep, CaseStep DEF CallStep
  <1>4. QED
    BY <1>1, <1>2, <1>3 DEF Next

THEOREM AlwaysJustified == Spec => [](TypeOK /\ Justified)
  BY Initially, StepJustified, PTL DEF Spec

\* Type correctness: every row of the tables and every row a call has loaded
\* keeps its columns and their values.
THEOREM TypeCorrect == Spec => []TypeOK
  BY AlwaysJustified, PTL

\* A case with an exposure that was closed as anything but a false positive
\* names a bank transaction, however transition() (the guard on the recovery
\* status) and the recovery calls overlap.
THEOREM ClosedCasesNameBank == Spec => []ClosedCaseNamesBank
  <1>1. TypeOK /\ Justified => ClosedCaseNamesBank
    BY DEF Justified, RowsJustified, ClosedCaseNamesBank
  <1>2. QED
    BY <1>1, AlwaysJustified, PTL

\* Neither the recoverable nor the recovered amount ever exceeds the exposure,
\* for every sequence of initiate_recovery and verify_recovery calls.
THEOREM NothingIsBeyondExposure == Spec => []NothingBeyondExposure
  <1>1. TypeOK /\ Justified => NothingBeyondExposure
    BY DEF Justified, RowsJustified, Sound, NothingBeyondExposure
  <1>2. QED
    BY <1>1, AlwaysJustified, PTL

-----------------------------------------------------------------------------
(* What a call commits when nothing overtook it.                              *)

\* The loaded record is the stored one, so every column lands as computed.
LEMMA WriteUnovertaken ==
  ASSUME TypeOK, Justified, NEW s \in Session, call[s].stage = "read",
         NEW new \in RecoveryRow, WriteRecovery(s, new), NoteOvertaking(s),
         NEW c \in Case, c \notin overtaken'
  PROVE  recovery'[c] = IF c = call[s].case THEN new ELSE recovery[c]
  <1> DEFINE d == call[s].case
             old == call[s].recovery
  <1>1. d \in Case /\ recovery[d] \in RecoveryRow
    BY DEF Justified, CallJustified, TypeOK
  <1>2. CASE c # d
    BY <1>2 DEF WriteRecovery, TypeOK
  <1>3. CASE c = d
    <2>1. old = recovery[d]
      BY <1>3 DEF NoteOvertaking
    <2>2. CASE old = NoRecovery
      BY <1>1, <1>3, <2>2 DEF WriteRecovery, TypeOK
    <2>3. CASE old # NoRecovery
      <3>1. recovery'[d] = FlushRecovery(recovery[d], recovery[d], new)
        BY <1>1, <2>1, <2>3 DEF WriteRecovery, TypeOK
      <3>2. FlushRecovery(recovery[d], recovery[d], new) = new
        BY <1>1 DEF FlushRecovery, Col, RecoveryRow
      <3>3. QED
        BY <1>3, <3>1, <3>2
    <2>4. QED
      BY <2>2, <2>3
  <1>4. QED
    BY <1>2, <1>3

\* A commit of the record as it was held inserts it or writes nothing.
LEMMA WriteHeld ==
  ASSUME TypeOK, NEW s \in Session, call[s].case \in Case, WriteRecovery(s, Held(s)),
         NEW c \in Case
  PROVE  \/ recovery'[c] = recovery[c]
         \/ c = call[s].case /\ call[s].recovery = NoRecovery
            /\ recovery'[c].status # "VERIFIED"
  <1>1. CASE c # call[s].case
    BY <1>1 DEF WriteRecovery, TypeOK
  <1>2. CASE c = call[s].case /\ call[s].recovery = NoRecovery
    <2>1. recovery'[c] = NewRecovery(case[c].exposure)
      BY <1>2 DEF WriteRecovery, Held, TypeOK
    <2>2. QED
      BY <1>2, <2>1, HeldType, NewRecoveryType
  <1>3. CASE c = call[s].case /\ call[s].recovery # NoRecovery
    <2>1. recovery'[c] = FlushRecovery(recovery[c], call[s].recovery, call[s].recovery)
      BY <1>3 DEF WriteRecovery, Held, TypeOK
    <2>2. QED
      BY <1>3, <2>1, HeldType, FlushNothing
  <1>4. QED
    BY <1>1, <1>2, <1>3

\* Only verify_recovery makes a record VERIFIED, and what it writes is proven.
LEMMA RecoveryStepVerified ==
  ASSUME TypeOK, Justified, VerifiedIsProven, NEW s \in Session,
         \/ \E e \in Exposure : \E amount \in 0..e, ref \in Ref \cup {NoRef} :
              InitiateRecovery(s, amount, ref)
         \/ \E b \in Bank : VerifyMismatch(s, b) \/ VerifyRecovery(s, b)
         \/ MarkUnrecoverable(s)
  PROVE  VerifiedIsProven'
  <1> DEFINE r == Held(s)
  <1>1. call[s].stage = "read" /\ call[s].case \in Case
    BY DEF InitiateRecovery, VerifyMismatch, VerifyRecovery, MarkUnrecoverable,
           Justified, CallJustified
  <1>2. r \in RecoveryRow
    BY <1>1, HeldType
  <1>3. ASSUME NEW new \in RecoveryRow, new.status = "VERIFIED" => Proven(new),
               WriteRecovery(s, new), NoteOvertaking(s)
        PROVE  VerifiedIsProven'
    <2>1. \A c \in Case \ overtaken' :
            recovery'[c] = IF c = call[s].case THEN new ELSE recovery[c]
      BY <1>1, <1>3, WriteUnovertaken
    <2>2. overtaken \subseteq overtaken'
      BY <1>3 DEF NoteOvertaking
    <2>3. \A c \in Case \ overtaken' :
            recovery'[c].status = "VERIFIED" => Proven(recovery'[c])
      BY <1>3, <2>1, <2>2 DEF VerifiedIsProven
    <2>4. QED
      BY <2>3 DEF VerifiedIsProven, Proven
  <1>4. ASSUME NEW amount \in Nat, NEW ref \in Ref \cup {NoRef},
               InitiateRecovery(s, amount, ref)
        PROVE  VerifiedIsProven'
    BY <1>2, <1>3, <1>4, InitiatedType DEF InitiateRecovery
  <1>5. ASSUME NEW b \in Bank, VerifyMismatch(s, b)
        PROVE  VerifiedIsProven'
    <2>1. BankAmount[b] \in Nat
      BY BankAssumption
    <2>2. QED
      BY <1>2, <1>3, <1>5, <2>1, MismatchedType DEF VerifyMismatch
  <1>6. ASSUME NEW b \in Bank, VerifyRecovery(s, b)
        PROVE  VerifiedIsProven'
    <2> DEFINE new == [r EXCEPT !.recovered = BankAmount[b], !.bank = b, !.status = "VERIFIED"]
    <2>1. /\ BankAmount[b] \in Nat
          /\ BankAmount[b] = r.recoverable
          /\ b # NoBank
          /\ r.reference # NoRef => r.reference \in BankRefs[b]
      BY <1>6, BankAssumption, NullAssumption DEF VerifyRecovery
    <2>2. /\ new \in RecoveryRow
          /\ new.recoverable = r.recoverable
          /\ new.recovered = BankAmount[b]
          /\ new.bank = b
          /\ new.reference = r.reference
      BY <1>2, <2>1 DEF RecoveryRow, RecoveryStatus
    <2>3. WriteRecovery(s, new) /\ NoteOvertaking(s)
      BY <1>6 DEF VerifyRecovery
    <2> HIDE DEF new
    <2>4. Proven(new)
      BY <2>1, <2>2 DEF Proven
    <2>5. QED
      BY <1>3, <2>2, <2>3, <2>4
  <1>7. CASE MarkUnrecoverable(s)
    <2>1. /\ [r EXCEPT !.status = "UNRECOVERABLE"] \in RecoveryRow
          /\ [r EXCEPT !.status = "UNRECOVERABLE"].status # "VERIFIED"
      BY <1>2 DEF RecoveryRow, RecoveryStatus
    <2>2. QED
      BY <1>3, <1>7, <2>1 DEF MarkUnrecoverable
  <1>8. QED
    <2>1. \A x \in Exposure : 0..x \subseteq Nat
      BY ExposureAssumption
    <2>2. QED
      BY <1>4, <1>5, <1>6, <1>7, <2>1

\* The steps that do not change the recovery data of a record there is.
LEMMA OtherStepVerified ==
  ASSUME VerifiedIsProven, overtaken \subseteq overtaken',
         \A c \in Case : \/ recovery'[c] = recovery[c]
                         \/ recovery'[c].status # "VERIFIED"
  PROVE  VerifiedIsProven'
  <1>1. \A c \in Case \ overtaken' :
          recovery'[c].status = "VERIFIED" => Proven(recovery'[c])
    BY DEF VerifiedIsProven
  <1>2. QED
    BY <1>1 DEF VerifiedIsProven, Proven

LEMMA StepVerified ==
  TypeOK /\ Justified /\ VerifiedIsProven /\ [Next]_vars => VerifiedIsProven'
  <1> SUFFICES ASSUME TypeOK, Justified, VerifiedIsProven, [Next]_vars
               PROVE  VerifiedIsProven'
    OBVIOUS
  <1>1. CASE UNCHANGED vars
    BY <1>1, OtherStepVerified DEF vars
  <1>2. ASSUME NEW c \in Case, NEW e \in Exposure, NEW w \in BOOLEAN, CreateCase(c, e, w)
        PROVE  VerifiedIsProven'
    <2>1. NewRecovery(e).status # "VERIFIED"
      BY ExposureAssumption, NewRecoveryType
    <2>2. QED
      BY <1>2, <2>1, OtherStepVerified DEF CreateCase, TypeOK
  <1>3. ASSUME NEW s \in Session, CallStep(s)
        PROVE  VerifiedIsProven'
    <2>1. CASE \/ \E c \in Case : LoadCase(s, c) \/ LoadRecovery(s, c)
               \/ ReadRecoveryStatus(s) \/ Abandon(s) \/ StartCase(s) \/ ReopenCase(s)
      BY <2>1, OtherStepVerified
         DEF LoadCase, LoadRecovery, ReadRecoveryStatus, Abandon, StartCase, ReopenCase,
             NoteOvertaking
    <2>2. CASE GetRecovery(s) \/ \E code \in ResolutionCode : ResolveCase(s, code)
      <3>1. call[s].case \in Case /\ WriteRecovery(s, Held(s)) /\ overtaken \subseteq overtaken'
        BY <2>2 DEF GetRecovery, ResolveCase, NoteOvertaking, Justified, CallJustified
      <3>2. QED
        BY <3>1, WriteHeld, OtherStepVerified
    <2>3. QED
      BY <1>3, <2>1, <2>2, RecoveryStepVerified DEF CallStep
  <1>4. QED
    BY <1>1, <1>2, <1>3 DEF Next

\* VERIFIED means what the record shows. A verified record that is initiated
\* again, attempted or given up loses the status with the evidence, and a call
\* that was not overtaken writes exactly what it computed.
THEOREM VerifiedRecordsAreProven == Spec => []VerifiedIsProven
  <1>1. Init => VerifiedIsProven
    BY DEF Init, VerifiedIsProven, NoRecovery
  <1>2. QED
    BY <1>1, StepVerified, AlwaysJustified, PTL DEF Spec

\* What ResolveCase commits, if nothing overtook the call.
LEMMA ResolveCommits ==
  ASSUME TypeOK, Justified, NEW s \in Session, NEW code \in ResolutionCode,
         ResolveCase(s, code), call[s].case \notin overtaken'
  PROVE  \/ case[call[s].case].exposure = 0
         \/ case'[call[s].case].code = "FALSE_POSITIVE"
         \/ recovery'[call[s].case].status = "VERIFIED"
  <1> DEFINE q == call[s]
             c == q.case
  <1>1. c \in Case /\ q.stage = "closing"
    BY DEF ResolveCase, Justified, CallJustified
  <1>2. q.row = case[c] /\ q.recovery.status = recovery[c].status
    BY <1>1 DEF ResolveCase, NoteOvertaking
  <1>3. case[c] \in CaseRow
    BY <1>1, HeldType
  <1>4. case'[c].code = code
    <2> DEFINE closed == [q.row EXCEPT !.status = "RESOLVED", !.code = code]
    <2>1. case'[c] = [FlushCase(case[c], q.row, closed) EXCEPT !.resolved = TRUE]
      BY <1>1 DEF ResolveCase, TypeOK
    <2>2. closed.code = code
      BY <1>2, <1>3 DEF CaseRow
    <2> HIDE DEF closed
    <2>3. FlushCase(case[c], q.row, closed).code = code
      BY <1>2, <2>2 DEF FlushCase, Col
    <2>4. QED
      BY <2>1, <2>3 DEF FlushCase
  <1>5. CASE Held(s).status = "VERIFIED"
    <2>1. q.recovery # NoRecovery
      BY <1>1, <1>5, HeldType, NewRecoveryType DEF Held
    <2>2. Held(s) = q.recovery
      BY <2>1 DEF Held
    <2>3. recovery'[c] = recovery[c]
      BY <1>1, <2>1, WriteHeld DEF ResolveCase
    <2>4. QED
      BY <1>2, <1>5, <2>2, <2>3
  <1>6. QED
    BY <1>4, <1>5 DEF ResolveCase, MayClose

\* "A financial case with a real exposure cannot be resolved until the
\* recoverable amount is verified", although transition() reads the record and
\* commits the resolution in different statements.
THEOREM ResolvedAfterVerification == Spec => ResolvedOnlyOnceVerified
  <1> DEFINE Closes(c) ==
        case[c].status # "RESOLVED" /\ case'[c].status = "RESOLVED" =>
          \/ c \in overtaken'
          \/ case[c].exposure = 0
          \/ case'[c].code = "FALSE_POSITIVE"
          \/ recovery'[c].status = "VERIFIED"
  <1>1. TypeOK /\ Justified /\ [Next]_vars => [\A c \in Case : Closes(c)]_vars
    <2> SUFFICES ASSUME TypeOK, Justified, Next, NEW c \in Case
                 PROVE  Closes(c)
      BY DEF vars
    <2>1. CASE case'[c] = case[c]
      BY <2>1
    <2>2. ASSUME NEW d \in Case, NEW e \in Exposure, NEW w \in BOOLEAN, CreateCase(d, e, w)
          PROVE  Closes(c)
      BY <2>2 DEF CreateCase, NoRow, TypeOK
    <2>3. ASSUME NEW s \in Session, CallStep(s)
          PROVE  Closes(c)
      <3> DEFINE q == call[s]
      <3>1. CASE q.case # c \/ UNCHANGED case
        <4>1. case'[c] = case[c]
          BY <2>3, <3>1
             DEF CallStep, LoadCase, LoadRecovery, ReadRecoveryStatus, Abandon, GetRecovery,
                 InitiateRecovery, VerifyMismatch, VerifyRecovery, MarkUnrecoverable,
                 StartCase, ResolveCase, ReopenCase, TypeOK
        <4>2. QED
          BY <4>1
      <3>2. CASE q.case = c /\ StartCase(s)
        <4>1. case'[c].status = Col(case[c].status, q.row.status,
                                    [q.row EXCEPT !.status = "IN_PROGRESS"].status)
          BY <3>2 DEF StartCase, FlushCase, TypeOK
        <4>2. [q.row EXCEPT !.status = "IN_PROGRESS"].status = "IN_PROGRESS"
          BY <3>2, HeldType DEF CaseRow
        <4>3. QED
          BY <4>1, <4>2 DEF Col
      <3>3. CASE q.case = c /\ ReopenCase(s)
        <4>1. case'[c].status = Col(case[c].status, q.row.status, Reopened(q.row).status)
          BY <3>3 DEF ReopenCase, FlushCase, TypeOK
        <4>2. Reopened(q.row).status = "REOPENED"
          BY <3>3, HeldType DEF CaseRow, Reopened
        <4>3. QED
          BY <4>1, <4>2 DEF Col
      <3>4. ASSUME q.case = c, NEW code \in ResolutionCode, ResolveCase(s, code)
            PROVE  Closes(c)
        BY <3>4, ResolveCommits
      <3>5. QED
        BY <2>3, <3>1, <3>2, <3>3, <3>4
           DEF CallStep, LoadCase, LoadRecovery, ReadRecoveryStatus, Abandon, GetRecovery,
               InitiateRecovery, VerifyMismatch, VerifyRecovery, MarkUnrecoverable
    <2>4. QED
      BY <2>2, <2>3 DEF Next
  <1>2. QED
    BY <1>1, AlwaysJustified, PTL DEF Spec, ResolvedOnlyOnceVerified

-----------------------------------------------------------------------------
(* The audit trail, which the case routes append to once the service has      *)
(* committed. The theorems hold for every set of calls, and of any number of  *)
(* events that a run may be bounded by.                                       *)

TxnRow == [kind: Kind, stage: Stage, ts: Nat, flushed: SUBSET Event,
           overtaken: BOOLEAN]

\* Readings of the clock lie before the next one; an event is longer than the
\* one it is chained to, and recorded by the call that has flushed it.
Stamped ==
  /\ \A e \in events : e.ts < clock
  /\ \A c \in Call : /\ txn[c].ts < clock
                     /\ \A e \in txn[c].flushed : e.ts < clock /\ e.call = c
                     /\ txn[c].stage = "over" => txn[c].flushed = {}

\* S holds whatever its events are chained to.
Closed(S) ==
  \A e \in S : e.previous = Genesis \/ \E f \in S : f # e /\ f.hash = e.previous

\* What each call sees is closed.
Linked ==
  /\ \A e \in events : e.hash = Hash(e.previous, e.ts)
  /\ \A c \in Call : \A e \in txn[c].flushed : e.hash = Hash(e.previous, e.ts)
  /\ Closed(events)
  /\ \A c \in Call : Closed(Visible(c))

\* A call inside its events that no commit has overtaken has read the clock
\* after everything it sees was stamped, and would verify.
Ordered ==
  \A c \in Call : ~txn[c].overtaken =>
    /\ InEvent(c) => \A e \in events, f \in txn[c].flushed : e.ts < f.ts
    /\ txn[c].stage = "stamped" => \A e \in Visible(c) : e.ts < txn[c].ts
    /\ ~overlapped => Verifies(Visible(c))

TrailInv == TrailTypeOK /\ Stamped /\ Linked /\ AuditMatchesChanges /\ Ordered
            /\ ChainVerifiesUnlessOverlapped

-----------------------------------------------------------------------------
\* The latest of events with bounded timestamps is one of them.
LEMMA LatestIsThere ==
  ASSUME NEW n \in Nat, NEW S, S # {}, \A e \in S : e.ts \in Nat /\ e.ts <= n
  PROVE  Latest(S) \in S
  <1> DEFINE T == {n - e.ts : e \in S}
             R == {p \in Nat \X Nat : p[1] < p[2]}
  <1>1. T \subseteq Nat /\ T # {}
    <2>1. \A e \in S : n - e.ts \in Nat
      OBVIOUS
    <2>2. QED
      BY <2>1
  <1>2. IsWellFoundedOn(R, Nat)
    BY NatLessThanWellFounded DEF OpToRel
  <1>3. PICK t \in T : \A u \in T : <<u, t>> \notin R
    <2> HIDE DEF R, T
    <2>1. QED
      BY <1>1, <1>2, WFMin
  <1>4. PICK e \in S : t = n - e.ts
    OBVIOUS
  <1>5. \A f \in S : f.ts <= e.ts
    <2> SUFFICES ASSUME NEW f \in S PROVE f.ts <= e.ts
      OBVIOUS
    <2>1. n - f.ts \in T
      OBVIOUS
    <2>2. <<n - f.ts, n - e.ts>> \notin R
      BY <1>3, <1>4, <2>1
    <2>3. ~(n - f.ts < n - e.ts)
      BY <1>1, <1>4, <2>2
    <2>4. QED
      BY <2>3
  <1>6. QED
    BY <1>5 DEF Latest

\* What a call chains its next event to.
LEMMA LinkOfVisible ==
  ASSUME TrailInv, NEW c \in Call
  PROVE  /\ Link(Visible(c)) \in Seq(Nat)
         /\ \/ Link(Visible(c)) = Genesis
            \/ \E f \in Visible(c) : f.hash = Link(Visible(c))
  <1>1. Visible(c) \subseteq Event
    BY DEF Visible, TrailInv, TrailTypeOK
  <1>2. clock \in Nat /\ \A e \in Visible(c) : e.ts \in Nat /\ e.ts <= clock
    BY <1>1 DEF Visible, TrailInv, TrailTypeOK, Stamped, Event
  <1>3. CASE Visible(c) = {}
    BY <1>3 DEF Link, Genesis
  <1>4. CASE Visible(c) # {}
    <2>1. Latest(Visible(c)) \in Visible(c)
      BY <1>2, <1>4, LatestIsThere
    <2>2. Link(Visible(c)) = Latest(Visible(c)).hash
      BY <1>4 DEF Link
    <2>3. QED
      BY <1>1, <2>1, <2>2 DEF Event
  <1>5. QED
    BY <1>3, <1>4

-----------------------------------------------------------------------------
LEMMA TrailStarts == TrailInit => TrailInv
  <1> SUFFICES ASSUME TrailInit PROVE TrailInv
    OBVIOUS
  <1>1. ASSUME NEW c \in Call
        PROVE  /\ txn[c] \in TxnRow /\ txn[c].stage = "new" /\ txn[c].ts = 0
               /\ txn[c].flushed = {} /\ ~txn[c].overtaken
    <2>1. PICK kind \in Kind : txn[c] = NewCall(kind)
      BY DEF TrailInit
    <2>2. QED
      BY <2>1 DEF NewCall, TxnRow, Stage
  <1>2. txn = [c \in Call |-> txn[c]] /\ events = {} /\ changes = {} /\ clock = 1 /\ ~overlapped
    BY DEF TrailInit
  <1>3. \A c \in Call : Visible(c) = {}
    BY <1>1, <1>2 DEF Visible
  <1>4. TrailTypeOK
    <2>1. txn \in [Call -> TxnRow]
      BY <1>1, <1>2
    <2>2. clock \in 1..(MaxEvents + 1)
      BY MaxEventsAssumption, <1>2
    <2>3. overlapped \in BOOLEAN
      BY DEF TrailInit
    <2>4. QED
      BY <1>2, <2>1, <2>2, <2>3 DEF TrailTypeOK, TxnRow
  <1>5. Stamped /\ Linked
    BY <1>1, <1>2, <1>3 DEF Stamped, Linked, Closed
  <1>6. AuditMatchesChanges /\ Ordered /\ ChainVerifiesUnlessOverlapped
    BY <1>1, <1>2, <1>3
       DEF AuditMatchesChanges, Ordered, InEvent, Verifies,
           ChainVerifiesUnlessOverlapped
  <1>7. QED
    BY <1>4, <1>5, <1>6 DEF TrailInv

\* Steps that neither record nor commit: nobody sees anything new.
LEMMA QuietStep ==
  ASSUME TrailInv, NEW c \in Call, NEW t \in TxnRow,
         txn' = [txn EXCEPT ![c] = t],
         events' = events, overlapped' = overlapped,
         clock' \in 1..(MaxEvents + 1), clock <= clock',
         t.kind = txn[c].kind, t.overtaken = txn[c].overtaken, t.ts < clock',
         t.flushed = txn[c].flushed \/ t.flushed = {},
         t.stage = "over" => t.flushed = {},
         t.stage = "stamped" => t.ts = clock,
         \/ changes' = changes
         \/ changes' = changes \cup {c} /\ t.kind = "after"
  PROVE  TrailInv'
  <1>1. /\ TrailTypeOK /\ txn \in [Call -> TxnRow] /\ clock \in Nat /\ clock' \in Nat
    BY DEF TrailInv, TrailTypeOK, TxnRow
  <1>2. \A d \in Call : txn'[d] = IF d = c THEN t ELSE txn[d]
    BY <1>1
  <1>3. TrailTypeOK'
    BY <1>1 DEF TrailTypeOK, TxnRow
  <1>4. Stamped'
    <2>1. \A e \in events : e.ts < clock'
      BY <1>1 DEF TrailInv, TrailTypeOK, Stamped, Event
    <2>2. \A d \in Call : /\ txn[d].ts < clock'
                          /\ \A e \in txn[d].flushed : e.ts < clock' /\ e.call = d
                          /\ txn[d].stage = "over" => txn[d].flushed = {}
      BY <1>1 DEF TrailInv, TrailTypeOK, Stamped, Event, TxnRow
    <2>3. QED
      BY <1>2, <2>1, <2>2 DEF Stamped
  <1>5. \A d \in Call : Visible(d)' = Visible(d) \/ Visible(d)' = events
    BY <1>2 DEF Visible
  <1>6. Linked'
    <2>1. Closed(events') /\ \A d \in Call : Closed(Visible(d)')
      BY <1>5 DEF TrailInv, Linked
    <2>2. \A e \in events' : e.hash = Hash(e.previous, e.ts)
      BY DEF TrailInv, Linked
    <2>3. \A d \in Call : \A e \in txn'[d].flushed : e.hash = Hash(e.previous, e.ts)
      BY <1>2 DEF TrailInv, Linked
    <2>4. QED
      BY <2>1, <2>2, <2>3 DEF Linked
  <1>7. AuditMatchesChanges'
    BY <1>1, <1>2 DEF TrailInv, AuditMatchesChanges, TxnRow, Kind
  <1>8. ChainVerifiesUnlessOverlapped'
    BY DEF TrailInv, ChainVerifiesUnlessOverlapped
  <1>9. ASSUME NEW d \in Call, ~txn'[d].overtaken
        PROVE  /\ InEvent(d)' => \A e \in events', f \in txn'[d].flushed : e.ts < f.ts
               /\ txn'[d].stage = "stamped" => \A e \in Visible(d)' : e.ts < txn'[d].ts
               /\ ~overlapped' => Verifies(Visible(d)')
    <2>1. ~txn[d].overtaken
      BY <1>2, <1>9
    <2>2. ~overlapped' => Verifies(Visible(d)')
      BY <1>5, <2>1 DEF TrailInv, Ordered, ChainVerifiesUnlessOverlapped
    <2>3. CASE d # c
      BY <1>2, <2>1, <2>2, <2>3 DEF TrailInv, Ordered, InEvent, Visible
    <2>4. CASE d = c
      <3>1. \A e \in events', f \in txn'[d].flushed : e.ts < f.ts
        BY <1>2, <2>1, <2>4 DEF TrailInv, Ordered, InEvent
      <3>2. \A e \in Visible(d)' : e.ts < clock
        BY <1>5 DEF TrailInv, Stamped, Visible
      <3>3. QED
        BY <1>2, <2>2, <2>4, <3>1, <3>2
    <2>5. QED
      BY <2>3, <2>4
  <1>10. Ordered'
    BY <1>9 DEF Ordered
  <1>11. QED
    BY <1>3, <1>4, <1>6, <1>7, <1>8, <1>10 DEF TrailInv

\* A new event with a later timestamp than all there is.
LEMMA VerifiesOneMore ==
  ASSUME NEW S, NEW e, Verifies(S), \A f \in S : f.ts \in Nat /\ f.ts < e.ts, e.ts \in Nat,
         e.previous = Link(S), e.hash = Hash(Link(S), e.ts)
  PROVE  Verifies(S \cup {e})
  <1>1. Before(S \cup {e}, e) = S
    BY DEF Before
  <1>2. \A f \in S : Before(S \cup {e}, f) = Before(S, f)
    BY DEF Before
  <1>3. QED
    BY <1>1, <1>2 DEF Verifies

LEMMA RecordStep ==
  ASSUME TrailInv, NEW c \in Call, RecordEvent(c)
  PROVE  TrailInv'
  <1> DEFINE t == txn[c]
             e == [call |-> c, ts |-> t.ts, previous |-> Link(Visible(c)),
                   hash |-> Hash(Link(Visible(c)), t.ts)]
             u == [t EXCEPT !.stage = "open", !.flushed = @ \cup {e}]
  <1>1. /\ txn \in [Call -> TxnRow] /\ t \in TxnRow
        /\ clock \in Nat /\ t.ts \in Nat /\ t.stage = "stamped"
    BY DEF TrailInv, TrailTypeOK, TxnRow, RecordEvent
  <1>2. e \in Event /\ e.hash # e.previous
    <2>1. Link(Visible(c)) \in Seq(Nat)
      BY LinkOfVisible
    <2>2. Hash(Link(Visible(c)), t.ts) \in Seq(Nat)
          /\ Len(Hash(Link(Visible(c)), t.ts)) # Len(Link(Visible(c)))
      BY <1>1, <2>1 DEF Hash
    <2>3. QED
      BY <1>1, <2>1, <2>2 DEF Event
  <1>3. /\ e.call = c /\ e.ts = t.ts /\ e.previous = Link(Visible(c))
        /\ e.hash = Hash(e.previous, e.ts)
    OBVIOUS
  <1> HIDE DEF e
  <1>4. /\ u \in TxnRow /\ u.stage = "open" /\ u.flushed = t.flushed \cup {e}
        /\ u.kind = t.kind /\ u.overtaken = t.overtaken /\ u.ts = t.ts
    BY <1>1, <1>2 DEF TxnRow, Stage
  <1>5. txn' = [txn EXCEPT ![c] = u] /\ UNCHANGED <<events, changes, clock, overlapped>>
    BY DEF RecordEvent, e
  <1> HIDE DEF u
  <1>6. \A d \in Call : txn'[d] = IF d = c THEN u ELSE txn[d]
    BY <1>1, <1>5
  <1>7. \A d \in Call :
          Visible(d)' = IF d = c THEN Visible(c) \cup {e} ELSE Visible(d)
    BY <1>4, <1>5, <1>6 DEF Visible
  <1>8. TrailTypeOK'
    BY <1>4, <1>5 DEF TrailInv, TrailTypeOK, TxnRow
  <1>9. Stamped'
    BY <1>3, <1>4, <1>5, <1>6 DEF TrailInv, Stamped
  <1>10. Linked'
    <2>1. Closed(Visible(c) \cup {e})
      <3>1. Closed(Visible(c))
        BY DEF TrailInv, Linked
      <3>2. e.previous = Genesis \/ \E f \in Visible(c) : f # e /\ f.hash = e.previous
        BY <1>2, <1>3, LinkOfVisible
      <3>3. QED
        BY <3>1, <3>2 DEF Closed
    <2>2. Closed(events') /\ \A d \in Call : Closed(Visible(d)')
      BY <1>5, <1>7, <2>1 DEF TrailInv, Linked
    <2>3. \A d \in Call : \A f \in txn'[d].flushed : f.hash = Hash(f.previous, f.ts)
      BY <1>3, <1>4, <1>6 DEF TrailInv, Linked
    <2>4. \A f \in events' : f.hash = Hash(f.previous, f.ts)
      BY <1>5 DEF TrailInv, Linked
    <2>5. QED
      BY <2>2, <2>3, <2>4 DEF Linked
  <1>11. AuditMatchesChanges'
    BY <1>4, <1>5, <1>6 DEF TrailInv, AuditMatchesChanges
  <1>12. ChainVerifiesUnlessOverlapped'
    BY <1>5 DEF TrailInv, ChainVerifiesUnlessOverlapped
  <1>13. ASSUME NEW d \in Call, ~txn'[d].overtaken
         PROVE  /\ InEvent(d)' => \A f \in events', g \in txn'[d].flushed : f.ts < g.ts
                /\ txn'[d].stage = "stamped" => \A f \in Visible(d)' : f.ts < txn'[d].ts
                /\ ~overlapped' => Verifies(Visible(d)')
    <2>1. CASE d # c
      BY <1>5, <1>6, <1>7, <1>13, <2>1 DEF TrailInv, Ordered, InEvent
    <2>2. CASE d = c
      <3>1. ~t.overtaken
        BY <1>4, <1>6, <1>13, <2>2
      <3>2. \A f \in Visible(c) : f.ts \in Nat /\ f.ts < e.ts
        <4>1. Visible(c) \subseteq Event
          BY DEF Visible, TrailInv, TrailTypeOK
        <4>2. \A f \in Visible(c) : f.ts < e.ts
          BY <1>1, <1>3, <3>1 DEF TrailInv, Ordered
        <4>3. QED
          BY <4>1, <4>2 DEF Event
      <3>3. \A f \in events', g \in txn'[d].flushed : f.ts < g.ts
        BY <1>1, <1>4, <1>5, <1>6, <2>2, <3>1, <3>2 DEF TrailInv, Ordered, InEvent, Visible
      <3>4. ~overlapped' => Verifies(Visible(d)')
        <4>1. ~overlapped => Verifies(Visible(c))
          BY <3>1 DEF TrailInv, Ordered
        <4>2. QED
          BY <1>1, <1>3, <1>5, <1>7, <2>2, <3>2, <4>1, VerifiesOneMore
      <3>5. QED
        BY <1>4, <1>6, <2>2, <3>3, <3>4
    <2>3. QED
      BY <2>1, <2>2
  <1>14. QED
    BY <1>8, <1>9, <1>10, <1>11, <1>12, <1>13 DEF TrailInv, Ordered

LEMMA CommitStep ==
  ASSUME TrailInv, NEW c \in Call, Commit(c)
  PROVE  TrailInv'
  <1> DEFINE over == [txn[c] EXCEPT !.stage = "over", !.flushed = {}]
             Seen(d) == [txn[d] EXCEPT !.overtaken = @ \/ InEvent(d)]
  <1>1. txn \in [Call -> TxnRow] /\ txn[c].flushed # {} /\ clock \in Nat
    BY DEF TrailInv, TrailTypeOK, TxnRow, Commit
  <1>2. /\ over \in TxnRow /\ over.stage = "over" /\ over.flushed = {}
        /\ over.kind = txn[c].kind /\ over.ts = txn[c].ts
    BY <1>1 DEF TxnRow, Stage
  <1>3. ASSUME NEW d \in Call
        PROVE  /\ Seen(d) \in TxnRow /\ Seen(d).stage = txn[d].stage
               /\ Seen(d).flushed = txn[d].flushed /\ Seen(d).kind = txn[d].kind
               /\ Seen(d).ts = txn[d].ts
               /\ ~Seen(d).overtaken => ~txn[d].overtaken /\ ~InEvent(d)
    <2>1. txn[d] \in TxnRow
      BY <1>1
    <2>2. (txn[d].overtaken \/ InEvent(d)) \in BOOLEAN
      BY <2>1 DEF TxnRow, InEvent
    <2>3. QED
      BY <2>1, <2>2 DEF TxnRow
  <1>4. /\ txn' = [d \in Call |-> IF d = c THEN over ELSE Seen(d)]
        /\ events' = events \cup txn[c].flushed
        /\ changes' = changes \cup {c}
        /\ clock' = clock
        /\ ~overlapped' => ~overlapped /\ ~txn[c].overtaken
        /\ overlapped' \in BOOLEAN
    BY <1>1 DEF Commit, TrailInv, TrailTypeOK, TxnRow
  <1> HIDE DEF over, Seen
  <1>5. \A d \in Call : txn'[d] = IF d = c THEN over ELSE Seen(d)
    BY <1>4
  <1>6. events' = Visible(c)
    BY <1>4 DEF Visible
  <1>7. \A d \in Call :
          Visible(d)' = IF d = c THEN Visible(c)
                              ELSE Visible(c) \cup Visible(d)
    BY <1>2, <1>3, <1>4, <1>5 DEF Visible
  <1>8. TrailTypeOK'
    <2>1. txn' \in [Call -> TxnRow]
      BY <1>2, <1>3, <1>4
    <2>2. events' \subseteq Event /\ changes' \subseteq Call /\ clock' \in 1..(MaxEvents + 1)
      BY <1>1, <1>4 DEF TrailInv, TrailTypeOK, TxnRow
    <2>3. QED
      BY <1>4, <2>1, <2>2 DEF TrailTypeOK, TxnRow
  <1>9. Stamped'
    BY <1>2, <1>3, <1>4, <1>5 DEF TrailInv, Stamped
  <1>10. Linked'
    <2>1. Closed(Visible(c)) /\ \A d \in Call : Closed(Visible(d))
      BY DEF TrailInv, Linked
    <2>2. \A d \in Call : Closed(Visible(c) \cup Visible(d))
      BY <2>1 DEF Closed
    <2>3. Closed(events') /\ \A d \in Call : Closed(Visible(d)')
      BY <1>6, <1>7, <2>1, <2>2
    <2>4. \A d \in Call : \A e \in txn'[d].flushed : e.hash = Hash(e.previous, e.ts)
      BY <1>2, <1>3, <1>5 DEF TrailInv, Linked
    <2>5. \A e \in events' : e.hash = Hash(e.previous, e.ts)
      BY <1>4 DEF TrailInv, Linked
    <2>6. QED
      BY <2>3, <2>4, <2>5 DEF Linked
  <1>11. AuditMatchesChanges'
    <2>1. PICK e \in txn[c].flushed : e.call = c
      BY <1>1 DEF TrailInv, Stamped
    <2>2. ASSUME NEW d \in Call
          PROVE  /\ (\E f \in events' : f.call = d) => d \in changes'
                 /\ d \in changes' /\ txn'[d].kind = "together" =>
                      \E f \in events' : f.call = d
      <3>1. CASE d = c
        BY <1>4, <2>1, <3>1
      <3>2. CASE d # c
        <4>1. \A f \in txn[c].flushed : f.call # d
          BY <3>2 DEF TrailInv, Stamped
        <4>2. txn'[d].kind = txn[d].kind
          BY <1>3, <1>5, <3>2
        <4>3. QED
          BY <1>4, <3>2, <4>1, <4>2 DEF TrailInv, AuditMatchesChanges
      <3>3. QED
        BY <3>1, <3>2
    <2>3. QED
      BY <2>2 DEF AuditMatchesChanges
  <1>12. ~overlapped' => Verifies(events')
    BY <1>4, <1>6 DEF TrailInv, Ordered
  <1>13. ASSUME NEW d \in Call, ~txn'[d].overtaken
         PROVE  /\ txn'[d].flushed = {} /\ txn'[d].stage # "stamped"
                /\ ~overlapped' => Verifies(Visible(d)')
    <2>1. txn'[d].flushed = {} /\ txn'[d].stage # "stamped"
      BY <1>2, <1>3, <1>5, <1>13 DEF InEvent
    <2>2. Visible(d)' = events'
      BY <2>1 DEF Visible
    <2>3. QED
      BY <1>12, <2>1, <2>2
  <1>14. Ordered'
    BY <1>13 DEF Ordered
  <1>15. QED
    BY <1>8, <1>9, <1>10, <1>11, <1>12, <1>14 DEF TrailInv, ChainVerifiesUnlessOverlapped

LEMMA TrailStep == TrailInv /\ [TrailNext]_trailVars => TrailInv'
  <1> SUFFICES ASSUME TrailInv, [TrailNext]_trailVars PROVE TrailInv'
    OBVIOUS
  <1>1. CASE UNCHANGED trailVars
    <2>1. /\ events' = events /\ changes' = changes /\ txn' = txn
          /\ clock' = clock /\ overlapped' = overlapped
      BY <1>1 DEF trailVars
    <2>2. \A c \in Call : /\ Visible(c)' = Visible(c)
                          /\ InEvent(c)' = InEvent(c)
      BY <2>1 DEF Visible, InEvent
    <2>3. /\ TrailTypeOK' /\ Stamped' /\ AuditMatchesChanges'
          /\ ChainVerifiesUnlessOverlapped'
      BY <2>1 DEF TrailInv, TrailTypeOK, Stamped, AuditMatchesChanges,
                  ChainVerifiesUnlessOverlapped
    <2>4. Linked'
      BY <2>1, <2>2 DEF TrailInv, Linked
    <2>5. Ordered'
      BY <2>1, <2>2 DEF TrailInv, Ordered
    <2>6. QED
      BY <2>3, <2>4, <2>5 DEF TrailInv
  <1>2. ASSUME NEW c \in Call, Operate(c) \/ Stamp(c) \/ Fail(c) PROVE TrailInv'
    <2>1. /\ txn[c] \in TxnRow /\ txn[c].ts < clock
          /\ clock \in 1..(MaxEvents + 1) /\ clock \in Nat /\ clock <= clock
          /\ "open" \in Stage /\ "stamped" \in Stage /\ "over" \in Stage
      <3>1. txn[c] \in TxnRow /\ txn[c].ts < clock
        BY DEF TrailInv, TrailTypeOK, TxnRow, Stamped
      <3>2. clock \in 1..(MaxEvents + 1) /\ clock \in Nat /\ clock <= clock
        BY DEF TrailInv, TrailTypeOK
      <3>3. QED
        BY <3>1, <3>2 DEF Stage
    <2>2. CASE Operate(c)
      <3> DEFINE t == [txn[c] EXCEPT !.stage = "open"]
      <3>1. /\ t \in TxnRow /\ t.kind = txn[c].kind /\ t.overtaken = txn[c].overtaken
            /\ t.ts = txn[c].ts /\ t.flushed = txn[c].flushed /\ t.stage = "open"
        BY <2>1 DEF TxnRow
      <3>2. txn' = [txn EXCEPT ![c] = t]
        BY <2>2 DEF Operate, Goto
      <3> HIDE DEF t
      <3>3. QED
        BY <2>1, <2>2, <3>1, <3>2, QuietStep, Zenon DEF Operate
    <2>3. CASE Stamp(c)
      <3> DEFINE t == [txn[c] EXCEPT !.stage = "stamped", !.ts = clock]
      <3>1. /\ t \in TxnRow /\ t.kind = txn[c].kind /\ t.overtaken = txn[c].overtaken
            /\ t.ts = clock /\ t.flushed = txn[c].flushed /\ t.stage = "stamped"
        BY <2>1 DEF TxnRow
      <3>2. txn' = [txn EXCEPT ![c] = t]
        BY <2>3 DEF Stamp
      <3> HIDE DEF t
      <3>3. clock' = clock + 1 /\ clock <= MaxEvents
        BY <2>3 DEF Stamp
      <3>4. clock' \in 1..(MaxEvents + 1) /\ clock <= clock' /\ t.ts < clock'
        BY MaxEventsAssumption, <2>1, <3>1, <3>3
      <3>5. QED
        BY <2>1, <2>3, <3>1, <3>2, <3>4, QuietStep DEF Stamp
    <2>4. CASE Fail(c)
      <3> DEFINE t == [txn[c] EXCEPT !.stage = "over", !.flushed = {}]
      <3>1. /\ t \in TxnRow /\ t.kind = txn[c].kind /\ t.overtaken = txn[c].overtaken
            /\ t.ts = txn[c].ts /\ t.flushed = {} /\ t.stage = "over"
        BY <2>1 DEF TxnRow
      <3>2. txn' = [txn EXCEPT ![c] = t]
        BY <2>4 DEF Fail
      <3> HIDE DEF t
      <3>3. QED
        BY <2>1, <2>4, <3>1, <3>2, QuietStep, Zenon DEF Fail
    <2>5. QED
      BY <1>2, <2>2, <2>3, <2>4
  <1>3. ASSUME NEW c \in Call, RecordEvent(c) PROVE TrailInv'
    BY <1>3, RecordStep
  <1>4. ASSUME NEW c \in Call, Commit(c) PROVE TrailInv'
    BY <1>4, CommitStep
  <1>5. QED
    BY <1>1, <1>2, <1>3, <1>4 DEF TrailNext

\* The invariant, for any bound on the number of events.
THEOREM TrailCorrect == TrailSpec => []TrailInv
  BY TrailStarts, TrailStep, PTL DEF TrailSpec

\* The columns and values the model declares are kept.
THEOREM TrailTypes == TrailSpec => []TrailTypeOK
  <1>1. TrailInv => TrailTypeOK
    BY DEF TrailInv
  <1>2. QED
    BY <1>1, TrailCorrect, PTL

\* No event is ever chained to one that was rolled back (record_event selects
\* the latest event its transaction sees).
THEOREM LinksResolve == TrailSpec => []EveryLinkResolves
  <1>1. TrailInv => EveryLinkResolves
    BY DEF TrailInv, Linked, Closed, EveryLinkResolves
  <1>2. QED
    BY <1>1, TrailCorrect, PTL

\* Audit events and the changes they are about stand or fall together, as far
\* as the call writes them in one transaction.
THEOREM AuditStandsForChanges == TrailSpec => []AuditMatchesChanges
  <1>1. TrailInv => AuditMatchesChanges
    BY DEF TrailInv
  <1>2. QED
    BY <1>1, TrailCorrect, PTL

\* verify_hash_chain accepts the table for as long as no commit has come
\* between another call's reading of the clock and its commit.
THEOREM ChainVerifies == TrailSpec => []ChainVerifiesUnlessOverlapped
  <1>1. TrailInv => ChainVerifiesUnlessOverlapped
    BY DEF TrailInv
  <1>2. QED
    BY <1>1, TrailCorrect, PTL

=============================================================================
