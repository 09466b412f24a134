----------------------- MODULE ConnectorScheduleProofs -----------------------
(***************************************************************************)
(* Theorems of ConnectorSchedule, for any connectors, schedulers, runs and *)
(* requests.                                                               *)
(***************************************************************************)
EXTENDS ConnectorSchedule, TLAPS

-----------------------------------------------------------------------------
(* The inductive invariant *)

\* A job, a run and what has loaded a row are of a connector that is stored.
Known ==
  /\ \A k \in Connectors : queued[k] > 0 => row[k] # None
  /\ \A w \in Runs : run[w] # Idle =>
       /\ run[w].op = "sync"
       /\ run[w].connector \in Connectors
       /\ row[run[w].connector] # None
       /\ run[w].loaded \in Row
  /\ \A a \in Admins : call[a].op # "none" =>
       /\ call[a].connector \in Connectors
       /\ call[a].op = "test" => call[a].loaded \in Row
       /\ call[a].loaded # None =>
            call[a].loaded \in Row /\ row[call[a].connector] # None

\* Nothing that is under way will unschedule a connector that is enabled.
Kept == \A k \in Connectors : row[k] # None /\ row[k].enabled /\ ~crossed[k] =>
  /\ row[k].next # "null"
  /\ \A w \in Runs : ~Unschedules(run[w], k)
  /\ \A a \in Admins : ~Unschedules(call[a], k)

IInv == TypeOK /\ Known /\ PickedIsDue /\ Kept

-----------------------------------------------------------------------------
(* Parts of a step *)

LEMMA IdleFacts ==
  /\ Idle \in Work /\ Idle.op = "none"
  /\ \A k : ~Unschedules(Idle, k)
  BY DEF Idle, Work, Unschedules

LEMMA MoreType == ASSUME NEW n \in 0..MaxQueued PROVE More(n) \in 0..MaxQueued
  BY QueuedAssumption DEF More

\* What a scheduler has picked is locked, so that nobody else writes it.
LEMMA PickedKept ==
  ASSUME TypeOK, PickedIsDue, UNCHANGED picked,
         \A k \in Connectors : row'[k] = row[k] \/ ~Locked(k)
  PROVE  PickedIsDue'
  <1>1. \A s \in Schedulers : \A k \in picked[s] : k \in Connectors /\ row'[k] = row[k]
    BY DEF TypeOK, Locked
  <1>2. QED
    BY <1>1 DEF PickedIsDue, Due, Scheduled, Stored

\* One row is written by a request that is not about to unschedule it; rows keep
\* being enabled, or come to be, only as Kept allows.
LEMMA Write ==
  ASSUME IInv, NEW k \in Connectors, NEW r \in Row,
         ~Locked(k),
         row'[k] = r, \A j \in Connectors \ {k} : row'[j] = row[j],
         row' \in [Connectors -> Row \cup {None}],
         r.enabled /\ ~crossed'[k] =>
           /\ r.next # "null"
           /\ \A w \in Runs : ~Unschedules(run'[w], k)
           /\ \A a \in Admins : ~Unschedules(call'[a], k),
         \A j \in Connectors \ {k} : crossed'[j] = crossed[j],
         crossed' \in [Connectors -> BOOLEAN],
         run' \in [Runs -> Work], \A w \in Runs : run'[w] \in {run[w], Idle},
         call' \in [Admins -> Work], \A a \in Admins : call'[a] \in {call[a], Idle},
         UNCHANGED <<queued, picked>>
  PROVE  IInv'
  <1> USE RowAssumption DEF IInv
  <1>1. TypeOK'
    BY DEF TypeOK
  <1>2. \A j \in Connectors : row[j] # None => row'[j] # None
    OBVIOUS
  <1>3. Known'
    BY <1>2, IdleFacts DEF Known
  <1>4. PickedIsDue'
    BY PickedKept
  <1>5. Kept'
    BY IdleFacts DEF Kept, Unschedules
  <1>6. QED
    BY <1>1, <1>3, <1>4, <1>5

\* No row is written.
LEMMA Read ==
  ASSUME IInv, UNCHANGED <<row, crossed>>,
         queued' \in [Connectors -> 0..MaxQueued],
         \A k \in Connectors : queued'[k] > 0 => row[k] # None,
         picked' = picked,
         run' \in [Runs -> Work],
         \A w \in Runs :
           \/ run'[w] \in {run[w], Idle}
           \/ /\ run'[w].op = "sync"
              /\ run'[w].connector \in Connectors
              /\ run'[w].loaded = row[run'[w].connector]
              /\ run'[w].loaded # None,
         call' \in [Admins -> Work],
         \A a \in Admins :
           \/ call'[a] \in {call[a], Idle}
           \/ /\ call'[a].connector \in Connectors
              /\ call'[a].loaded = row[call'[a].connector]
              /\ call'[a].op = "test" => call'[a].loaded # None
  PROVE  IInv'
  <1> USE DEF IInv
  <1>1. TypeOK'
    BY DEF TypeOK
  <1>2. \A k \in Connectors : row[k] \in Row \cup {None}
    BY DEF TypeOK
  <1>3. Known'
    BY <1>2, IdleFacts DEF Known
  <1>4. PickedIsDue'
    BY PickedKept
  <1>5. Kept'
    BY <1>2, IdleFacts DEF Kept, Unschedules
  <1>6. QED
    BY <1>1, <1>3, <1>4, <1>5

\* One more job of a connector that is stored.
LEMMA MoreQueued ==
  ASSUME IInv, NEW k \in Connectors, row[k] # None,
         queued' = [queued EXCEPT ![k] = More(@)]
  PROVE  /\ queued' \in [Connectors -> 0..MaxQueued]
         /\ \A j \in Connectors : queued'[j] > 0 => row[j] # None
  <1>1. queued[k] \in 0..MaxQueued
    BY DEF IInv, TypeOK
  <1>2. More(queued[k]) \in 0..MaxQueued
    BY <1>1, MoreType
  <1>3. QED
    BY <1>2 DEF IInv, TypeOK, Known

-----------------------------------------------------------------------------
(* Every step *)

LEMMA SchedulerStep ==
  ASSUME IInv, NEW s \in Schedulers, Pick(s) \/ Enqueue(s) \/ Rollback(s)
  PROVE  IInv'
  <1> USE DEF IInv
  <1>1. CASE Pick(s)
    <2>1. /\ picked' = [picked EXCEPT ![s] = {k \in Connectors : Due(k) /\ ~Locked(k)}]
          /\ UNCHANGED <<row, queued, run, call, crossed>>
      BY <1>1 DEF Pick
    <2>2. TypeOK'
      BY <2>1 DEF TypeOK
    <2>3. Known' /\ Kept'
      BY <2>1 DEF Known, Kept, Unschedules
    <2>4. PickedIsDue'
      BY <2>1 DEF PickedIsDue, TypeOK, Due, Scheduled, Stored, Locked
    <2>5. QED
      BY <2>2, <2>3, <2>4
  <1>2. CASE Rollback(s)
    <2>1. picked' = [picked EXCEPT ![s] = {}] /\ UNCHANGED <<row, queued, run, call, crossed>>
      BY <1>2 DEF Rollback
    <2>2. TypeOK'
      BY <2>1 DEF TypeOK
    <2>3. Known' /\ Kept'
      BY <2>1 DEF Known, Kept, Unschedules
    <2>4. PickedIsDue'
      BY <2>1 DEF PickedIsDue, TypeOK, Due, Scheduled, Stored
    <2>5. QED
      BY <2>2, <2>3, <2>4
  <1>3. CASE Enqueue(s)
    <2>1. /\ queued' = [k \in Connectors |->
               IF k \in picked[s] THEN More(queued[k]) ELSE queued[k]]
          /\ row' = [k \in Connectors |->
               IF k \in picked[s] THEN [row[k] EXCEPT !.next = "future"] ELSE row[k]]
          /\ picked' = [picked EXCEPT ![s] = {}]
          /\ UNCHANGED <<run, call, crossed>>
      BY <1>3 DEF Enqueue
    <2>2. \A k \in picked[s] : k \in Connectors /\ row[k] # None /\ row[k] \in Row
      BY DEF PickedIsDue, TypeOK, Due, Scheduled, Stored
    <2>3. \A k \in picked[s] :
            LET r == [row[k] EXCEPT !.next = "future"] IN
            r \in Row /\ r.next = "future" /\ (r.enabled <=> row[k].enabled)
      BY <2>2 DEF Row
    <2>4. \A k \in Connectors :
            /\ row'[k] = None <=> row[k] = None
            /\ row'[k] # None =>
                 /\ row'[k].enabled <=> row[k].enabled
                 /\ row'[k].next = "null" => row[k].next = "null"
            /\ row'[k] \in Row \cup {None}
      <3> SUFFICES ASSUME NEW k \in Connectors
                   PROVE  /\ row'[k] = None <=> row[k] = None
                          /\ row'[k] # None =>
                               /\ row'[k].enabled <=> row[k].enabled
                               /\ row'[k].next = "null" => row[k].next = "null"
                          /\ row'[k] \in Row \cup {None}
        OBVIOUS
      <3>1. CASE k \in picked[s]
        BY <2>1, <2>2, <2>3, <3>1, RowAssumption
      <3>2. CASE k \notin picked[s]
        BY <2>1, <3>2 DEF TypeOK
      <3>3. QED
        BY <3>1, <3>2
    <2>5. \A k \in Connectors : queued'[k] \in 0..MaxQueued
      BY <2>1, MoreType DEF TypeOK
    <2>6. TypeOK'
      BY <2>1, <2>4, <2>5 DEF TypeOK
    <2>7. Known'
      BY <2>1, <2>2, <2>4 DEF Known
    <2>8. \A t \in Schedulers \ {s} : \A k \in picked[t] : k \in Connectors /\ row'[k] = row[k]
      BY <2>1 DEF PickedIsDue, TypeOK
    <2>9. PickedIsDue'
      BY <2>1, <2>8 DEF PickedIsDue, TypeOK, Due, Scheduled, Stored
    <2>10. Kept'
      BY <2>1, <2>4 DEF Kept, Unschedules
    <2>11. QED
      BY <2>6, <2>7, <2>9, <2>10
  <1>4. QED
    BY <1>1, <1>2, <1>3

LEMMA JobStep ==
  ASSUME IInv, NEW w \in Runs,
         \/ FinishSync(w)
         \/ Recover(w)
         \/ \E retried \in BOOLEAN : FailSync(w, retried)
         \/ \E k \in Connectors : BeginSync(w, k)
  PROVE  IInv'
  <1>0. TypeOK /\ \A k \in Connectors : row[k] \in Row \cup {None}
    BY DEF IInv, TypeOK
  <1>1. CASE FinishSync(w)
    <2> DEFINE k == run[w].connector
               old == run[w].loaded
               next == IF old.enabled THEN "future"
                       ELSE IF old.next # "null" THEN "null" ELSE row[k].next
               r == [row[k] EXCEPT !.next = next]
    <2>1. /\ run[w] # Idle /\ ~Locked(k)
          /\ row' = [row EXCEPT ![k] = r]
          /\ run' = [run EXCEPT ![w] = Idle]
          /\ UNCHANGED <<queued, picked, call, crossed>>
      BY <1>1 DEF FinishSync
    <2>2. k \in Connectors /\ row[k] # None /\ row[k] \in Row /\ old \in Row /\ run[w].op = "sync"
      BY <1>0, <2>1 DEF IInv, Known
    <2>3. next \in {"null", "future", "due"}
      BY <2>2 DEF Row
    <2>4. next = "null" => Unschedules(run[w], k) \/ row[k].next = "null"
      BY <2>2, RowAssumption DEF Unschedules
    <2> HIDE DEF next
    <2>5. r \in Row /\ r.next = next /\ (r.enabled <=> row[k].enabled)
      BY <2>2, <2>3 DEF Row
    <2> HIDE DEF r
    <2>6. row'[k] = r /\ (\A j \in Connectors \ {k} : row'[j] = row[j])
            /\ row' \in [Connectors -> Row \cup {None}]
      BY <1>0, <2>1, <2>2, <2>5 DEF TypeOK
    <2>7. run' \in [Runs -> Work] /\ \A v \in Runs : run'[v] \in {run[v], Idle}
      BY <1>0, <2>1, IdleFacts DEF TypeOK
    <2>8. \A v \in Runs : Unschedules(run'[v], k) => Unschedules(run[v], k)
      BY <2>7, IdleFacts
    <2> HIDE DEF k
    <2>9. r.enabled /\ ~crossed[k] =>
            /\ r.next # "null"
            /\ \A v \in Runs : ~Unschedules(run'[v], k)
            /\ \A a \in Admins : ~Unschedules(call[a], k)
      BY <2>2, <2>4, <2>5, <2>8 DEF IInv, Kept
    <2>10. call' = call /\ call \in [Admins -> Work] /\ crossed' = crossed
             /\ crossed \in [Connectors -> BOOLEAN]
      BY <1>0, <2>1 DEF TypeOK
    <2>11. QED
      BY <2>1, <2>2, <2>5, <2>6, <2>7, <2>9, <2>10, Write
  <1>2. CASE Recover(w)
    <2>1. /\ run[w] # Idle
          /\ queued' = [queued EXCEPT ![run[w].connector] = More(@)]
          /\ UNCHANGED <<row, picked, run, call, crossed>>
      BY <1>2 DEF Recover
    <2>2. run[w].connector \in Connectors /\ row[run[w].connector] # None
      BY <2>1 DEF IInv, Known
    <2>3. QED
      BY <1>0, <2>1, <2>2, MoreQueued, Read DEF TypeOK
  <1>3. CASE \E retried \in BOOLEAN : FailSync(w, retried)
    <2>1. /\ run[w] # Idle
          /\ \/ queued' = [queued EXCEPT ![run[w].connector] = More(@)]
             \/ queued' = queued
          /\ run' = [run EXCEPT ![w] = Idle]
          /\ UNCHANGED <<row, picked, call, crossed>>
      BY <1>3 DEF FailSync
    <2>2. run[w].connector \in Connectors /\ row[run[w].connector] # None
      BY <2>1 DEF IInv, Known
    <2>3. run' \in [Runs -> Work] /\ \A v \in Runs : run'[v] \in {run[v], Idle}
      BY <1>0, <2>1, IdleFacts DEF TypeOK
    <2>4. queued' \in [Connectors -> 0..MaxQueued]
            /\ \A k \in Connectors : queued'[k] > 0 => row[k] # None
      BY <1>0, <2>1, <2>2, MoreQueued DEF TypeOK, IInv, Known
    <2>5. QED
      BY <1>0, <2>1, <2>3, <2>4, Read DEF TypeOK
  <1>4. ASSUME NEW k \in Connectors, BeginSync(w, k)
        PROVE  IInv'
    <2> DEFINE q == [op |-> "sync", connector |-> k, loaded |-> row[k]]
    <2>1. /\ queued[k] > 0
          /\ queued' = [queued EXCEPT ![k] = @ - 1]
          /\ run' = [run EXCEPT ![w] = q]
          /\ UNCHANGED <<row, picked, call, crossed>>
      BY <1>4 DEF BeginSync
    <2>2. row[k] # None
      BY <2>1 DEF IInv, Known
    <2>3. q \in Work /\ q.op = "sync" /\ q.connector = k /\ q.loaded = row[k]
      BY <1>0 DEF Work
    <2> HIDE DEF q
    <2>4. run' \in [Runs -> Work] /\ run'[w] = q /\ \A v \in Runs \ {w} : run'[v] = run[v]
      BY <1>0, <2>1, <2>3 DEF TypeOK
    <2>5. queued' \in [Connectors -> 0..MaxQueued]
            /\ \A j \in Connectors : queued'[j] > 0 => row[j] # None
      <3>1. \A n \in 0..MaxQueued : n > 0 => n - 1 \in 0..MaxQueued
        BY QueuedAssumption
      <3>2. QED
        BY <1>0, <2>1, <2>2, <3>1 DEF TypeOK, IInv, Known
    <2>6. QED
      BY <1>0, <2>1, <2>2, <2>3, <2>4, <2>5, Read DEF TypeOK
  <1>5. QED
    BY <1>1, <1>2, <1>3, <1>4

LEMMA RouteStep ==
  ASSUME IInv, NEW a \in Admins,
         \/ FailCall(a)
         \/ \E k \in Connectors : BeginConfigure(a, k) \/ BeginTest(a, k)
         \/ \E x \in BOOLEAN : Configure(a, x) \/ Test(a, x)
  PROVE  IInv'
  <1>0. TypeOK /\ \A k \in Connectors : row[k] \in Row \cup {None}
    BY DEF IInv, TypeOK
  <1>a. ASSUME call' = [call EXCEPT ![a] = Idle]
        PROVE  call' \in [Admins -> Work] /\ \A b \in Admins : call'[b] \in {call[b], Idle}
    BY <1>0, <1>a, IdleFacts DEF TypeOK
  <1>1. CASE FailCall(a)
    <2>1. /\ call' = [call EXCEPT ![a] = Idle]
          /\ UNCHANGED <<row, queued, picked, run, crossed>>
      BY <1>1 DEF FailCall
    <2>2. \A k \in Connectors : queued'[k] > 0 => row[k] # None
      BY <2>1 DEF IInv, Known
    <2>3. QED
      BY <1>0, <1>a, <2>1, <2>2, Read DEF TypeOK
  <1>2. ASSUME NEW k \in Connectors, BeginConfigure(a, k) \/ BeginTest(a, k)
        PROVE  IInv'
    <2>1. PICK op \in {"configure", "test"} :
            /\ call' = [call EXCEPT ![a] = [op |-> op, connector |-> k, loaded |-> row[k]]]
            /\ op = "test" => row[k] # None
            /\ UNCHANGED <<row, queued, picked, run, crossed>>
      BY <1>2 DEF BeginConfigure, BeginTest, Begin, Stored
    <2> DEFINE q == [op |-> op, connector |-> k, loaded |-> row[k]]
    <2>2. q \in Work /\ q.op = op /\ q.connector = k /\ q.loaded = row[k]
      BY <1>0 DEF Work
    <2>3. call' = [call EXCEPT ![a] = q]
      BY <2>1
    <2> HIDE DEF q
    <2>4. call' \in [Admins -> Work] /\ call'[a] = q /\ \A b \in Admins \ {a} : call'[b] = call[b]
      BY <1>0, <2>2, <2>3 DEF TypeOK
    <2>5. \A j \in Connectors : queued'[j] > 0 => row[j] # None
      BY <2>1 DEF IInv, Known
    <2>6. QED
      BY <1>0, <2>1, <2>2, <2>4, <2>5, Read DEF TypeOK
  <1>3. ASSUME NEW ok \in BOOLEAN, Test(a, ok)
        PROVE  IInv'
    <2> DEFINE k == call[a].connector
               status == IF ok THEN "CONNECTED" ELSE "ERROR"
               new == IF call[a].loaded.status # status THEN status ELSE row[k].status
               r == [row[k] EXCEPT !.status = new]
    <2>1. /\ call[a].op = "test" /\ ~Locked(k)
          /\ row' = [row EXCEPT ![k] = r]
          /\ call' = [call EXCEPT ![a] = Idle]
          /\ UNCHANGED <<queued, picked, run, crossed>>
      BY <1>3 DEF Test
    <2>2. k \in Connectors /\ row[k] # None /\ row[k] \in Row
      BY <1>0, <2>1, RowAssumption DEF IInv, Known
    <2>3. new \in {"CONNECTED", "ERROR"}
      BY <2>2 DEF Row
    <2> HIDE DEF new
    <2>4. r \in Row /\ r.next = row[k].next /\ (r.enabled <=> row[k].enabled)
      BY <2>2, <2>3 DEF Row
    <2> HIDE DEF r
    <2>5. row'[k] = r /\ (\A j \in Connectors \ {k} : row'[j] = row[j])
            /\ row' \in [Connectors -> Row \cup {None}]
      BY <1>0, <2>1, <2>2, <2>4 DEF TypeOK
    <2>6. \A b \in Admins : Unschedules(call'[b], k) => Unschedules(call[b], k)
      BY <1>a, <2>1, IdleFacts
    <2> HIDE DEF k
    <2>7. r.enabled /\ ~crossed[k] =>
            /\ r.next # "null"
            /\ \A v \in Runs : ~Unschedules(run[v], k)
            /\ \A b \in Admins : ~Unschedules(call'[b], k)
      BY <2>2, <2>4, <2>6 DEF IInv, Kept
    <2>8. run' = run /\ run \in [Runs -> Work] /\ crossed' = crossed
            /\ crossed \in [Connectors -> BOOLEAN]
      BY <1>0, <2>1 DEF TypeOK
    <2>9. QED
      BY <1>a, <2>1, <2>2, <2>4, <2>5, <2>7, <2>8, Write
  <1>4. ASSUME NEW enabled \in BOOLEAN, Configure(a, enabled), call[a].loaded = None
        PROVE  IInv'
    <2> DEFINE k == call[a].connector
               r == [enabled |-> enabled, status |-> "CONNECTED",
                     next |-> IF enabled THEN "future" ELSE "null"]
    <2>1. /\ call[a].op = "configure" /\ row[k] = None
          /\ row' = [row EXCEPT ![k] = r]
          /\ call' = [call EXCEPT ![a] = Idle]
          /\ UNCHANGED <<queued, picked, run, crossed>>
      BY <1>4 DEF Configure, Stored, IInv, Known
    <2>2. k \in Connectors
      BY <2>1 DEF IInv, Known
    <2>3. r \in Row /\ (r.enabled => r.next # "null")
      BY DEF Row
    <2> HIDE DEF r
    <2>4. row'[k] = r /\ (\A j \in Connectors \ {k} : row'[j] = row[j])
            /\ row' \in [Connectors -> Row \cup {None}]
      BY <1>0, <2>1, <2>2, <2>3 DEF TypeOK
    <2>5. /\ \A v \in Runs : ~Unschedules(run[v], k)
          /\ \A b \in Admins : ~Unschedules(call[b], k)
      BY <2>1, <2>2, IdleFacts DEF IInv, Known, Unschedules
    <2>6. \A b \in Admins : ~Unschedules(call'[b], k)
      BY <1>a, <2>1, <2>5, IdleFacts
    <2>7. ~Locked(k)
      BY <2>1 DEF Locked, IInv, PickedIsDue, Due, Scheduled, Stored
    <2> HIDE DEF k
    <2>8. run' = run /\ run \in [Runs -> Work] /\ crossed' = crossed
            /\ crossed \in [Connectors -> BOOLEAN]
      BY <1>0, <2>1 DEF TypeOK
    <2>9. QED
      BY <1>a, <2>1, <2>2, <2>3, <2>4, <2>5, <2>6, <2>7, <2>8, Write
  <1>5. ASSUME NEW enabled \in BOOLEAN, Configure(a, enabled), call[a].loaded # None
        PROVE  IInv'
    <2> DEFINE k == call[a].connector
               old == call[a].loaded
               r == Configured(old, k, enabled)
    <2>1. /\ call[a].op = "configure" /\ ~Locked(k)
          /\ row' = [row EXCEPT ![k] = r]
          /\ crossed' = [crossed EXCEPT ![k] = IF enabled THEN WillUnschedule(k, a) ELSE @]
          /\ call' = [call EXCEPT ![a] = Idle]
          /\ UNCHANGED <<queued, picked, run>>
      BY <1>5 DEF Configure
    <2>2. k \in Connectors /\ row[k] # None /\ row[k] \in Row /\ old \in Row
      BY <1>0, <1>5, <2>1 DEF IInv, Known
    <2>3. /\ r \in Row
          /\ enabled => r.next = "future"
          /\ ~enabled /\ r.enabled => row[k].enabled /\ ~old.enabled
          /\ ~enabled /\ r.next = "null" => old.next # "null" \/ row[k].next = "null"
      <3>1. old.enabled \in BOOLEAN /\ row[k].enabled \in BOOLEAN
              /\ row[k].status \in {"CONNECTED", "ERROR"}
              /\ row[k].next \in {"null", "future", "due"}
        BY <2>2 DEF Row
      <3>2. CASE enabled
        BY <3>1, <3>2 DEF Configured, Row
      <3>3. CASE ~enabled
        BY <3>1, <3>3 DEF Configured, Row
      <3>4. QED
        BY <3>2, <3>3
    <2> HIDE DEF r
    <2>4. row'[k] = r /\ (\A j \in Connectors \ {k} : row'[j] = row[j])
            /\ row' \in [Connectors -> Row \cup {None}]
      BY <1>0, <2>1, <2>2, <2>3 DEF TypeOK
    <2>5. WillUnschedule(k, a) \in BOOLEAN
      BY DEF WillUnschedule
    <2>6. /\ crossed' \in [Connectors -> BOOLEAN]
          /\ \A j \in Connectors \ {k} : crossed'[j] = crossed[j]
          /\ enabled => (crossed'[k] <=> WillUnschedule(k, a))
          /\ ~enabled => (crossed'[k] <=> crossed[k])
      BY <1>0, <2>1, <2>2, <2>5 DEF TypeOK
    <2>7. call'[a] = Idle /\ \A b \in Admins \ {a} : call'[b] = call[b]
      BY <1>0, <2>1 DEF TypeOK
    <2>8. CASE enabled
      <3>1. ~crossed'[k] => /\ \A v \in Runs : ~Unschedules(run[v], k)
                            /\ \A b \in Admins : ~Unschedules(call'[b], k)
        BY <2>6, <2>7, <2>8, IdleFacts DEF WillUnschedule
      <3>2. r.next # "null"
        BY <2>3, <2>8
      <3> HIDE DEF k, old
      <3>3. run' = run /\ run \in [Runs -> Work]
        BY <1>0, <2>1 DEF TypeOK
      <3>4. QED
        BY <1>a, <2>1, <2>2, <2>3, <2>4, <2>6, <3>1, <3>2, <3>3, Write
    <2>9. CASE ~enabled
      <3>1. ASSUME r.enabled, ~crossed'[k]
            PROVE  /\ r.next # "null"
                   /\ \A v \in Runs : ~Unschedules(run[v], k)
                   /\ \A b \in Admins : ~Unschedules(call'[b], k)
        <4>1. row[k].enabled /\ ~old.enabled /\ ~crossed[k]
          BY <2>3, <2>6, <2>9, <3>1
        <4>2. /\ row[k].next # "null"
              /\ \A v \in Runs : ~Unschedules(run[v], k)
              /\ \A b \in Admins : ~Unschedules(call[b], k)
          BY <2>2, <4>1 DEF IInv, Kept
        <4>3. old.next = "null"
          BY <1>5, <2>1, <4>1, <4>2 DEF Unschedules
        <4>4. QED
          BY <2>3, <2>7, <2>9, <4>2, <4>3, IdleFacts
      <3> HIDE DEF k, old
      <3>2. run' = run /\ run \in [Runs -> Work]
        BY <1>0, <2>1 DEF TypeOK
      <3>3. QED
        BY <1>a, <2>1, <2>2, <2>3, <2>4, <2>6, <3>1, <3>2, Write
    <2>10. QED
      BY <2>8, <2>9
  <1>6. QED
    BY <1>1, <1>2, <1>3, <1>4, <1>5

LEMMA OtherStep ==
  ASSUME IInv, NEW k \in Connectors, ManualSync(k) \/ ComesDue(k)
  PROVE  IInv'
  <1>0. TypeOK
    BY DEF IInv
  <1>1. CASE ManualSync(k)
    <2>1. /\ row[k] # None
          /\ queued' = [queued EXCEPT ![k] = More(@)]
          /\ UNCHANGED <<row, picked, run, call, crossed>>
      BY <1>1 DEF ManualSync, Stored
    <2>2. QED
      BY <1>0, <2>1, MoreQueued, Read DEF TypeOK
  <1>2. CASE ComesDue(k)
    <2> DEFINE r == [row[k] EXCEPT !.next = "due"]
    <2>1. /\ row[k] # None /\ row[k].next = "future" /\ ~Locked(k)
          /\ row' = [row EXCEPT ![k] = r]
          /\ UNCHANGED <<queued, picked, run, call, crossed>>
      BY <1>2 DEF ComesDue, Stored
    <2>2. row[k] \in Row
      BY <1>0, <2>1 DEF TypeOK
    <2>3. r \in Row /\ r.next = "due" /\ (r.enabled <=> row[k].enabled)
      BY <2>2 DEF Row
    <2> HIDE DEF r
    <2>4. row'[k] = r /\ (\A j \in Connectors \ {k} : row'[j] = row[j])
            /\ row' \in [Connectors -> Row \cup {None}]
      BY <1>0, <2>1, <2>3 DEF TypeOK
    <2>5. r.enabled /\ ~crossed[k] =>
            /\ r.next # "null"
            /\ \A v \in Runs : ~Unschedules(run[v], k)
            /\ \A a \in Admins : ~Unschedules(call[a], k)
      BY <2>1, <2>3 DEF IInv, Kept
    <2>6. /\ run' = run /\ run \in [Runs -> Work] /\ crossed' = crossed
          /\ crossed \in [Connectors -> BOOLEAN]
          /\ call' = call /\ call \in [Admins -> Work]
      BY <1>0, <2>1 DEF TypeOK
    <2>7. QED
      BY <2>1, <2>3, <2>4, <2>5, <2>6, Write
  <1>3. QED
    BY <1>1, <1>2

LEMMA IInvStep == IInv /\ [Next]_vars => IInv'
  <1> SUFFICES ASSUME IInv, [Next]_vars PROVE IInv'
    OBVIOUS
  <1>1. CASE UNCHANGED vars
    BY <1>1 DEF vars, IInv, TypeOK, Known, PickedIsDue, Due, Scheduled, Stored, Kept, Unschedules
  <1>2. QED
    BY <1>1, SchedulerStep, JobStep, RouteStep, OtherStep DEF Next

LEMMA IInvCorrect == Spec => []IInv
  <1>1. Init => IInv
    BY IdleFacts, QueuedAssumption
       DEF Init, IInv, TypeOK, Known, PickedIsDue, Kept
  <1>2. QED
    BY <1>1, IInvStep, PTL DEF Spec

-----------------------------------------------------------------------------
(* Theorems *)

\* Connectors, jobs and requests hold what their columns may (app/models/entities.py,
\* DataConnector).
THEOREM TypeCorrect == Spec => []TypeOK
  <1>1. IInv => TypeOK
    BY DEF IInv
  <1>2. QED
    BY <1>1, IInvCorrect, PTL

\* What a scheduler enqueues is still due, and it alone enqueues it
\* (enqueue_due_connector_jobs).
THEOREM PicksAreDue == Spec => []PickedIsDue
  <1>1. IInv => PickedIsDue
    BY DEF IInv
  <1>2. QED
    BY <1>1, IInvCorrect, PTL

\* An enabled connector has a next time, unless it was configured while something
\* that had loaded it as disabled was under way (jobs_worker.py, create_connector).
THEOREM NoneIsForgotten == Spec => []NeverForgotten
  <1>1. IInv => NeverForgotten
    BY DEF IInv, Kept, NeverForgotten, Stored
  <1>2. QED
    BY <1>1, IInvCorrect, PTL

=============================================================================
