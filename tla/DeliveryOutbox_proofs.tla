------------------------ MODULE DeliveryOutbox_proofs ------------------------
(***************************************************************************)
(* Proofs about DeliveryOutbox, for any envelopes, batches, sessions,      *)
(* contents, numbers of attempts and bounds.  Everything rests on one      *)
(* observation: an envelope keeps the sequence number of its first record, *)
(* because a recovery never writes an envelope that is already there.  So  *)
(* the copies the worker and the recovery write back late bring an old     *)
(* status back, but never an old place in the order.                       *)
(***************************************************************************)
EXTENDS DeliveryOutbox, FiniteSetTheorems, TLAPS

\* Before the worker handles a record it holds a copy of it.
InFlight == worker.pc \notin {"idle", "pick"}
WorkerHolds == InFlight => Present(worker.env) /\ worker.rec.seq = outbox[worker.env].seq

\* What a recovery has still to reissue is there, and its successor is not.
ReissuerHolds ==
    reissuer.pc # "idle" =>
        \A e \in reissuer.todo :
            /\ Present(e) /\ reissuer.copy[e] # NoRecord
            /\ reissuer.copy[e].seq = outbox[e].seq
            /\ ~Present(Reissue[e])

\* The number a recovery has reserved is nobody's, and above its envelope's.
ReservedIsFree ==
    reissuer.pc = "new" =>
        /\ reissuer.seq < nextSeq
        /\ outbox[reissuer.env].seq < reissuer.seq
        /\ \A e \in Envelopes : Present(e) => outbox[e].seq # reissuer.seq

\* A reissued envelope comes after the one it replaces.
ReissuedIsLater ==
    \A e \in DOMAIN Reissue :
        Present(Reissue[e]) => Present(e) /\ outbox[e].seq < outbox[Reissue[e]].seq

DeliveryInv ==
    /\ DeliveryTypeOK /\ SequenceNumbersUnique
    /\ WorkerHolds /\ ReissuerHolds /\ ReservedIsFree /\ ReissuedIsLater

\* What a step does to the places of the records that are there.
SeqsStay == \A e \in Envelopes : Present(e) => Present(e)' /\ outbox'[e].seq = outbox[e].seq
NoneAppears == \A e \in Envelopes : Present(e)' => Present(e)

(***************************************************************************)
(* Records.                                                                *)
(***************************************************************************)
LEMMA RecordIsPresent ==
    ASSUME StoreTypeOK, NEW e \in Envelopes
    PROVE  /\ Present(e) => outbox[e] \in DeliveryOutboxRecord
           /\ ~Present(e) => outbox[e] = NoRecord
  BY DEF StoreTypeOK, Present

LEMMA NewRecordIsARecord ==
    ASSUME NEW s \in Nat, NEW p \in Snapshots, NEW c \in Contents
    PROVE  /\ NewRecord(s, p, c) \in DeliveryOutboxRecord
           /\ NewRecord(s, p, c).seq = s /\ NewRecord(s, p, c).attempt = 0
           /\ NewRecord(s, p, c).status = "pending"
  BY DEF NewRecord, DeliveryOutboxRecord

Statuses == {"pending", "retrying", "delivered", "delivery_failed", "superseded"}
Failures == {"none", "transport", "other", "manual"}

LEMMA MarkedIsARecord ==
    \A r \in DeliveryOutboxRecord, s \in Statuses, z \in Int, f \in Failures :
           /\ Marked(r, s, z, f) \in DeliveryOutboxRecord
           /\ Marked(r, s, z, f).seq = r.seq /\ Marked(r, s, z, f).content = r.content
           /\ Marked(r, s, z, f).status = s /\ Marked(r, s, z, f).attempt = r.attempt
<1> TAKE r \in DeliveryOutboxRecord, s \in Statuses, z \in Int, f \in Failures
<1> USE DEF Statuses, Failures
<1> DEFINE t == Marked(r, s, z, f)
           q == [r EXCEPT !.status = s, !.retry_at = z]
<1>1. t = [q EXCEPT !.failure = f]
  BY DEF Marked
<1>2. /\ q \in DeliveryOutboxRecord /\ q.seq = r.seq /\ q.content = r.content
      /\ q.status = s /\ q.attempt = r.attempt
  BY DEF DeliveryOutboxRecord
<1> HIDE DEF q, t
<1>3. /\ t \in DeliveryOutboxRecord /\ t.seq = q.seq /\ t.content = q.content
      /\ t.status = q.status /\ t.attempt = q.attempt
  BY <1>1, <1>2 DEF DeliveryOutboxRecord
<1> QED BY <1>2, <1>3 DEF t

\* The envelopes a recovery makes are never their own sources.
LEMMA ReissueIsAnother ==
    ASSUME NEW e \in DOMAIN Reissue
    PROVE  e \in Envelopes /\ Reissue[e] \in Envelopes
  BY ReissueAssumption

\* update_delivery_record of a copy that has the record's number.
LEMMA UpdateKeepsPlaces ==
    ASSUME DeliveryInv, NEW e \in Envelopes, NEW rec \in DeliveryOutboxRecord,
           Present(e), rec.seq = outbox[e].seq, UpdateDeliveryRecord(e, rec)
    PROVE  /\ StoreTypeOK' /\ SeqsStay /\ NoneAppears /\ nextSeq' = nextSeq
           /\ outbox'[e] = rec /\ \A f \in Envelopes \ {e} : outbox'[f] = outbox[f]
<1>1. StoreTypeOK
  BY DEF DeliveryInv, DeliveryTypeOK
<1>2. rec.seq < nextSeq /\ rec.seq \in Nat /\ nextSeq \in Nat
  BY <1>1 DEF DeliveryInv, SequenceNumbersUnique, StoreTypeOK, DeliveryOutboxRecord
<1>3. nextSeq' = nextSeq
  BY <1>2 DEF UpdateDeliveryRecord
<1>4. outbox' = [outbox EXCEPT ![e] = rec]
  BY DEF UpdateDeliveryRecord
<1>5. outbox'[e] = rec /\ \A f \in Envelopes \ {e} : outbox'[f] = outbox[f]
  BY <1>1, <1>4 DEF StoreTypeOK
<1>6. rec # NoRecord
  BY NoRecordAssumption
<1>7. StoreTypeOK'
  BY <1>1, <1>3, <1>4 DEF StoreTypeOK
<1>8. SeqsStay /\ NoneAppears
  BY <1>5, <1>6 DEF SeqsStay, NoneAppears, Present
<1> QED BY <1>3, <1>5, <1>7, <1>8

(***************************************************************************)
(* Frames: what is left of the invariant when the places stay.             *)
(***************************************************************************)
LEMMA PlacesStay ==
    ASSUME DeliveryInv, StoreTypeOK', SeqsStay, NoneAppears, nextSeq' = nextSeq
    PROVE  /\ SequenceNumbersUnique' /\ ReissuedIsLater'
           /\ worker' = worker => WorkerHolds'
           /\ reissuer' = reissuer => ReissuerHolds' /\ ReservedIsFree'
<1> USE DEF DeliveryInv
<1>1. SequenceNumbersUnique'
  BY DEF SequenceNumbersUnique, SeqsStay, NoneAppears
<1>2. ReissuedIsLater'
  BY ReissueIsAnother DEF ReissuedIsLater, SeqsStay, NoneAppears
<1>3. ASSUME worker' = worker PROVE WorkerHolds'
  <2>1. worker.pc \notin {"idle", "pick"} => worker.env \in Envelopes
    BY DEF DeliveryTypeOK, WorkerTypeOK
  <2> QED BY <1>3, <2>1 DEF WorkerHolds, InFlight, SeqsStay
<1>4. ASSUME reissuer' = reissuer PROVE ReissuerHolds' /\ ReservedIsFree'
  <2>1. \A e \in reissuer.todo : e \in Envelopes /\ Reissue[e] \in Envelopes
    BY ReissueIsAnother DEF DeliveryTypeOK, ReissuerTypeOK
  <2>2. reissuer.pc = "new" => reissuer.env \in reissuer.todo
    BY DEF DeliveryTypeOK, ReissuerTypeOK
  <2>3. ReissuerHolds'
    BY <1>4, <2>1 DEF ReissuerHolds, SeqsStay, NoneAppears
  <2>4. reissuer.pc = "new" => Present(reissuer.env) /\ reissuer.env \in Envelopes
    BY <2>1, <2>2 DEF ReissuerHolds
  <2>5. ReservedIsFree'
    BY <1>4, <2>4 DEF ReservedIsFree, SeqsStay, NoneAppears
  <2> QED BY <2>3, <2>5
<1> QED BY <1>1, <1>2, <1>3, <1>4

LEMMA StoreStays ==
    ASSUME DeliveryInv, UNCHANGED storeVars
    PROVE  StoreTypeOK' /\ SeqsStay /\ NoneAppears /\ nextSeq' = nextSeq
  BY DEF DeliveryInv, DeliveryTypeOK, StoreTypeOK, storeVars, SeqsStay, NoneAppears, Present

LEMMA HistoryFrame ==
    ASSUME HistoryTypeOK, UNCHANGED <<events, contexts, envVars, historyVars>>
    PROVE  HistoryTypeOK'
  BY DEF HistoryTypeOK, envVars, historyVars

LEMMA WorkerFrame ==
    ASSUME DeliveryInv, worker' = worker PROVE WorkerTypeOK'
  BY DEF DeliveryInv, DeliveryTypeOK, WorkerTypeOK

LEMMA ReissuerFrame ==
    ASSUME DeliveryInv, reissuer' = reissuer PROVE ReissuerTypeOK'
  BY DEF DeliveryInv, DeliveryTypeOK, ReissuerTypeOK

\* A step that moves no place and leaves the recovery alone, and after which
\* the worker holds no copy or the one it held.
LEMMA WorkerMoves ==
    ASSUME DeliveryInv, StoreTypeOK', SeqsStay, NoneAppears, nextSeq' = nextSeq,
           reissuer' = reissuer, WorkerTypeOK', HistoryTypeOK',
           \/ worker'.pc \in {"idle", "pick"}
           \/ /\ worker'.env \in Envelopes /\ Present(worker'.env)
              /\ worker'.rec.seq = outbox[worker'.env].seq
    PROVE  DeliveryInv'
<1>1. WorkerHolds'
  BY DEF WorkerHolds, InFlight, SeqsStay
<1>2. SequenceNumbersUnique' /\ ReissuedIsLater' /\ ReissuerHolds' /\ ReservedIsFree'
  BY PlacesStay
<1> QED BY <1>1, <1>2, ReissuerFrame DEF DeliveryInv, DeliveryTypeOK

(***************************************************************************)
(* The store's operations.                                                 *)
(***************************************************************************)
LEMMA SupersedeKeeps ==
    ASSUME DeliveryInv, NEW S, SupersedeRecords(S)
    PROVE  DeliveryInv'
<1> USE DEF DeliveryInv, DeliveryTypeOK
<1> DEFINE hit == {e \in S : Present(e) /\ outbox[e].status \notin {"delivered", "superseded"}}
<1>1. outbox' = [e \in Envelopes |->
           IF e \in hit THEN Marked(outbox[e], "superseded", 0, "none") ELSE outbox[e]]
  BY DEF SupersedeRecords
<1>2. UNCHANGED <<nextSeq, worker, reissuer, events, contexts, envVars, historyVars>>
  BY DEF SupersedeRecords
<1>3. \A e \in Envelopes : /\ Present(e) => /\ outbox'[e] \in DeliveryOutboxRecord
                                            /\ outbox'[e].seq = outbox[e].seq
                           /\ ~Present(e) => outbox'[e] = NoRecord
  <2> SUFFICES ASSUME NEW e \in Envelopes
               PROVE  /\ Present(e) => /\ outbox'[e] \in DeliveryOutboxRecord
                                       /\ outbox'[e].seq = outbox[e].seq
                      /\ ~Present(e) => outbox'[e] = NoRecord
    OBVIOUS
  <2>1. CASE e \in hit
    <3>1. Present(e)
      BY <2>1
    <3>2. PICK r \in DeliveryOutboxRecord : r = outbox[e]
      BY <3>1, RecordIsPresent
    <3>3. outbox'[e] = Marked(r, "superseded", 0, "none")
      BY <1>1, <2>1, <3>2
    <3>4. outbox'[e] \in DeliveryOutboxRecord /\ outbox'[e].seq = r.seq
      BY <3>3, MarkedIsARecord DEF Statuses, Failures
    <3> QED BY <3>1, <3>2, <3>4
  <2>2. CASE e \notin hit
    BY <1>1, <2>2, RecordIsPresent
  <2> QED BY <2>1, <2>2
<1> HIDE DEF hit
<1>4. StoreTypeOK' /\ SeqsStay /\ NoneAppears
  <2>1. outbox' \in [Envelopes -> DeliveryOutboxRecord \cup {NoRecord}]
    BY <1>1, <1>3
  <2> QED BY <1>2, <1>3, <2>1, NoRecordAssumption
        DEF StoreTypeOK, SeqsStay, NoneAppears, Present
<1>5. HistoryTypeOK' /\ WorkerTypeOK'
  BY <1>2, HistoryFrame, WorkerFrame
<1>6. SequenceNumbersUnique' /\ ReissuedIsLater' /\ WorkerHolds' /\ ReissuerHolds' /\ ReservedIsFree'
  BY <1>2, <1>4, PlacesStay
<1> QED BY <1>2, <1>4, <1>5, <1>6, ReissuerFrame

LEMMA RequeueKeeps ==
    ASSUME DeliveryInv, RequeueTransportFailures
    PROVE  DeliveryInv'
<1> USE DEF DeliveryInv, DeliveryTypeOK
<1> DEFINE hit == {e \in Envelopes : /\ Present(e) /\ outbox[e].status = "delivery_failed"
                                     /\ outbox[e].failure = "transport"}
<1>1. /\ outbox' = [e \in Envelopes |->
               IF e \in hit THEN NewRecord(outbox[e].seq, outbox[e].snapshot, outbox[e].content)
               ELSE outbox[e]]
      /\ \A e \in hit : resets[e] < MaxResets
      /\ resets' = [e \in Envelopes |-> IF e \in hit THEN resets[e] + 1 ELSE resets[e]]
      /\ fresh' = fresh \cup hit
      /\ UNCHANGED <<nextSeq, worker, reissuer, events, contexts, envVars, accepted, sends>>
  BY DEF RequeueTransportFailures
<1>2. \A e \in Envelopes : /\ Present(e) => /\ outbox'[e] \in DeliveryOutboxRecord
                                            /\ outbox'[e].seq = outbox[e].seq
                           /\ ~Present(e) => outbox'[e] = NoRecord
  <2> SUFFICES ASSUME NEW e \in Envelopes
               PROVE  /\ Present(e) => /\ outbox'[e] \in DeliveryOutboxRecord
                                       /\ outbox'[e].seq = outbox[e].seq
                      /\ ~Present(e) => outbox'[e] = NoRecord
    OBVIOUS
  <2>1. CASE e \in hit
    <3>1. Present(e) /\ outbox[e] \in DeliveryOutboxRecord
      BY <2>1, RecordIsPresent
    <3>2. outbox[e].seq \in Nat /\ outbox[e].snapshot \in Snapshots /\ outbox[e].content \in Contents
      BY <3>1 DEF DeliveryOutboxRecord
    <3>3. outbox'[e] = NewRecord(outbox[e].seq, outbox[e].snapshot, outbox[e].content)
      BY <1>1, <2>1
    <3> QED BY <3>1, <3>2, <3>3, NewRecordIsARecord
  <2>2. CASE e \notin hit
    BY <1>1, <2>2, RecordIsPresent
  <2> QED BY <2>1, <2>2
<1>3. hit \subseteq Envelopes
  OBVIOUS
<1> HIDE DEF hit
<1>4. StoreTypeOK' /\ SeqsStay /\ NoneAppears
  <2>1. outbox' \in [Envelopes -> DeliveryOutboxRecord \cup {NoRecord}]
    BY <1>1, <1>2
  <2> QED BY <1>1, <1>2, <2>1, NoRecordAssumption
        DEF StoreTypeOK, SeqsStay, NoneAppears, Present
<1>5. HistoryTypeOK'
  <2>1. resets' \in [Envelopes -> 0..MaxResets]
    BY <1>1, DeliveryBoundsAssumption DEF HistoryTypeOK
  <2> QED BY <1>1, <1>3, <2>1 DEF HistoryTypeOK, envVars
<1>6. SequenceNumbersUnique' /\ ReissuedIsLater' /\ WorkerHolds' /\ ReissuerHolds' /\ ReservedIsFree'
  BY <1>1, <1>4, PlacesStay
<1> QED BY <1>1, <1>4, <1>5, <1>6, WorkerFrame, ReissuerFrame

\* The new envelopes of a batch get numbers in its order, from the next one on.
LEMMA BatchNumbers ==
    ASSUME StoreTypeOK, NEW batch \in Batches, NEW i \in 1..Len(batch), ~Present(batch[i])
    PROVE  /\ BatchSeq(batch, i) \in Nat /\ nextSeq <= BatchSeq(batch, i)
           /\ \A k \in (i + 1)..(Len(batch) + 1) : BatchSeq(batch, i) < BatchSeq(batch, k)
<1>1. Len(batch) \in Nat
  BY BatchesAssumption
<1>2. \A k \in Int : IsFiniteSet(NewBefore(batch, k))
  <2> SUFFICES ASSUME NEW k \in Int PROVE IsFiniteSet(NewBefore(batch, k))
    OBVIOUS
  <2>1. IsFiniteSet(1..(k - 1))
    BY FS_Interval
  <2> QED BY <2>1, FS_Subset DEF NewBefore
<1>3. Cardinality(NewBefore(batch, i)) \in Nat
  BY <1>2, FS_CardinalityType
<1>4. nextSeq \in Nat
  BY DEF StoreTypeOK
<1>5. ASSUME NEW k \in (i + 1)..(Len(batch) + 1)
      PROVE  BatchSeq(batch, i) < BatchSeq(batch, k)
  <2>1. NewBefore(batch, i) \subseteq NewBefore(batch, k)
    BY <1>1 DEF NewBefore
  <2>2. i \in NewBefore(batch, k) /\ i \notin NewBefore(batch, i)
    BY <1>1 DEF NewBefore
  <2>3. IsFiniteSet(NewBefore(batch, k)) /\ IsFiniteSet(NewBefore(batch, i))
    BY <1>1, <1>2
  <2>4. /\ Cardinality(NewBefore(batch, i)) <= Cardinality(NewBefore(batch, k))
        /\ Cardinality(NewBefore(batch, i)) # Cardinality(NewBefore(batch, k))
    BY <2>1, <2>2, <2>3, FS_Subset
  <2>5. Cardinality(NewBefore(batch, k)) \in Nat
    BY <2>3, FS_CardinalityType
  <2> QED BY <1>3, <1>4, <2>4, <2>5 DEF BatchSeq
<1>6. BatchSeq(batch, i) \in Nat /\ nextSeq <= BatchSeq(batch, i)
  BY <1>3, <1>4 DEF BatchSeq
<1> QED BY <1>5, <1>6

LEMMA BatchGrows ==
    ASSUME StoreTypeOK, NEW batch \in Batches
    PROVE  BatchSeq(batch, Len(batch) + 1) \in Nat /\ nextSeq <= BatchSeq(batch, Len(batch) + 1)
<1>1. Len(batch) \in Nat
  BY BatchesAssumption
<1>2. IsFiniteSet(1..((Len(batch) + 1) - 1))
  BY <1>1, FS_Interval
<1>3. IsFiniteSet(NewBefore(batch, Len(batch) + 1))
  BY <1>2, FS_Subset DEF NewBefore
<1>4. Cardinality(NewBefore(batch, Len(batch) + 1)) \in Nat
  BY <1>3, FS_CardinalityType
<1> QED BY <1>4 DEF BatchSeq, StoreTypeOK

LEMMA EnqueueKeeps ==
    ASSUME DeliveryInv, NEW batch \in Batches, NEW snapshot \in Snapshots,
           NEW content \in Contents, EnqueueEnvelopes(batch, snapshot, content)
    PROVE  DeliveryInv'
<1> USE DEF DeliveryInv, DeliveryTypeOK
<1> DEFINE index(e)  == CHOOSE i \in 1..Len(batch) : batch[i] = e
           members   == {batch[i] : i \in 1..Len(batch)}
           new       == {e \in members : ~Present(e)}
           refreshed == {e \in members \ new : Refreshes(e, snapshot, content)}
           number(e) == BatchSeq(batch, index(e))
<1>1. /\ outbox' = [e \in Envelopes |->
               IF e \in new THEN NewRecord(number(e), snapshot, content)
               ELSE IF e \in refreshed THEN NewRecord(outbox[e].seq, snapshot, content)
               ELSE outbox[e]]
      /\ \A e \in refreshed : resets[e] < MaxResets
      /\ nextSeq' = BatchSeq(batch, Len(batch) + 1)
      /\ resets' = [e \in Envelopes |-> IF e \in refreshed THEN resets[e] + 1 ELSE resets[e]]
      /\ fresh' = fresh \cup new \cup refreshed
      /\ UNCHANGED <<worker, reissuer, events, contexts, envVars, accepted, sends>>
  BY DEF EnqueueEnvelopes
<1>2. Len(batch) \in Nat /\ members \subseteq Envelopes
  BY BatchesAssumption
<1>3. ASSUME NEW e \in new
      PROVE  /\ index(e) \in 1..Len(batch) /\ batch[index(e)] = e
             /\ number(e) \in Nat /\ nextSeq <= number(e) /\ number(e) < nextSeq'
  <2>1. index(e) \in 1..Len(batch) /\ batch[index(e)] = e
    OBVIOUS
  <2> HIDE DEF index
  <2>2. ~Present(batch[index(e)])
    BY <2>1
  <2>3. Len(batch) + 1 \in (index(e) + 1)..(Len(batch) + 1)
    BY <1>2, <2>1
  <2> QED BY <1>1, <2>1, <2>2, <2>3, BatchNumbers
<1>4. ASSUME NEW e \in new, NEW f \in new, number(e) = number(f) PROVE e = f
  <2>1. /\ index(e) \in 1..Len(batch) /\ batch[index(e)] = e /\ ~Present(batch[index(e)])
        /\ index(f) \in 1..Len(batch) /\ batch[index(f)] = f /\ ~Present(batch[index(f)])
        /\ number(e) \in Nat
    BY <1>3
  <2> HIDE DEF index
  <2>2. index(e) < index(f) => number(e) < number(f)
    <3> SUFFICES ASSUME index(e) < index(f) PROVE number(e) < number(f)
      OBVIOUS
    <3>1. index(f) \in (index(e) + 1)..(Len(batch) + 1)
      BY <1>2, <2>1
    <3> QED BY <2>1, <3>1, BatchNumbers
  <2>3. index(f) < index(e) => number(f) < number(e)
    <3> SUFFICES ASSUME index(f) < index(e) PROVE number(f) < number(e)
      OBVIOUS
    <3>1. index(e) \in (index(f) + 1)..(Len(batch) + 1)
      BY <1>2, <2>1
    <3> QED BY <2>1, <3>1, BatchNumbers
  <2>4. index(e) = index(f)
    BY <1>4, <2>1, <2>2, <2>3
  <2> QED BY <2>1, <2>4
<1>5. new \subseteq Envelopes /\ refreshed \subseteq Envelopes /\ \A e \in refreshed : Present(e)
  BY <1>2
<1>6. \A e \in Envelopes : e \in new => ~Present(e)
  OBVIOUS
<1>7. \A e \in DOMAIN Reissue : Reissue[e] \notin new
  BY BatchesReissueNothing
<1> HIDE DEF index, members, new, refreshed, number
<1>8. ASSUME NEW e \in Envelopes
      PROVE  /\ e \in new => outbox'[e] \in DeliveryOutboxRecord /\ outbox'[e].seq = number(e)
             /\ Present(e) => outbox'[e] \in DeliveryOutboxRecord /\ outbox'[e].seq = outbox[e].seq
             /\ ~Present(e) /\ e \notin new => outbox'[e] = NoRecord
  <2>1. CASE e \in new
    <3>1. outbox'[e] = NewRecord(number(e), snapshot, content)
      BY <1>1, <2>1
    <3> QED BY <1>3, <1>6, <2>1, <3>1, NewRecordIsARecord
  <2>2. CASE e \notin new /\ e \in refreshed
    <3>1. outbox'[e] = NewRecord(outbox[e].seq, snapshot, content) /\ Present(e)
      BY <1>1, <1>5, <2>2
    <3>2. outbox[e].seq \in Nat
      BY <3>1, RecordIsPresent DEF DeliveryOutboxRecord
    <3> QED BY <2>2, <3>1, <3>2, NewRecordIsARecord
  <2>3. CASE e \notin new /\ e \notin refreshed
    BY <1>1, <2>3, RecordIsPresent
  <2> QED BY <2>1, <2>2, <2>3
<1>9. nextSeq' \in Nat /\ nextSeq <= nextSeq' /\ nextSeq \in Nat \ {0}
  BY <1>1, BatchGrows DEF StoreTypeOK
<1>10. StoreTypeOK'
  <2>1. \A e \in Envelopes : outbox'[e] \in DeliveryOutboxRecord \cup {NoRecord}
    BY <1>8
  <2>2. outbox' \in [Envelopes -> DeliveryOutboxRecord \cup {NoRecord}]
    BY <1>1, <2>1
  <2> QED BY <1>9, <2>2 DEF StoreTypeOK
<1>11. \A e \in Envelopes : /\ Present(e) => Present(e)' /\ outbox'[e].seq = outbox[e].seq
                            /\ Present(e)' /\ ~Present(e) => e \in new /\ outbox'[e].seq = number(e)
  <2> SUFFICES ASSUME NEW e \in Envelopes
               PROVE  /\ Present(e) => Present(e)' /\ outbox'[e].seq = outbox[e].seq
                      /\ Present(e)' /\ ~Present(e) => e \in new /\ outbox'[e].seq = number(e)
    OBVIOUS
  <2>1. Present(e) => Present(e)' /\ outbox'[e].seq = outbox[e].seq
    BY <1>8, NoRecordAssumption DEF Present
  <2>2. outbox'[e] = NoRecord => ~Present(e)'
    BY DEF Present
  <2> QED BY <1>8, <2>1, <2>2
<1>12. \A e \in Envelopes : Present(e) => outbox[e].seq < nextSeq /\ outbox[e].seq \in Nat
  BY RecordIsPresent DEF SequenceNumbersUnique, DeliveryOutboxRecord
<1>13. SequenceNumbersUnique'
  <2>1. \A e \in Envelopes : Present(e)' => outbox'[e].seq < nextSeq'
    BY <1>3, <1>9, <1>11, <1>12
  <2>2. ASSUME NEW e \in Envelopes, NEW f \in Envelopes, Present(e)', Present(f)',
               outbox'[e].seq = outbox'[f].seq
        PROVE  e = f
    <3>1. CASE Present(e) /\ Present(f)
      BY <1>11, <2>2, <3>1 DEF SequenceNumbersUnique
    <3>2. CASE ~Present(e) /\ ~Present(f)
      BY <1>4, <1>11, <2>2, <3>2
    <3>3. CASE Present(e) /\ ~Present(f)
      <4>1. outbox'[e].seq < nextSeq /\ outbox'[e].seq \in Nat /\ outbox'[f].seq = number(f) /\ f \in new
        BY <1>11, <1>12, <2>2, <3>3
      <4> QED BY <1>3, <1>9, <2>2, <4>1
    <3>4. CASE ~Present(e) /\ Present(f)
      <4>1. outbox'[f].seq < nextSeq /\ outbox'[f].seq \in Nat /\ outbox'[e].seq = number(e) /\ e \in new
        BY <1>11, <1>12, <2>2, <3>4
      <4> QED BY <1>3, <1>9, <2>2, <4>1
    <3> QED BY <3>1, <3>2, <3>3, <3>4
  <2> QED BY <2>1, <2>2 DEF SequenceNumbersUnique
<1>14. WorkerHolds'
  <2>1. InFlight => worker.env \in Envelopes
    BY DEF InFlight, WorkerTypeOK
  <2> QED BY <1>1, <1>11, <2>1 DEF WorkerHolds, InFlight
<1>15. \A e \in DOMAIN Reissue : Present(Reissue[e])' => Present(Reissue[e])
  BY <1>7, <1>11, ReissueIsAnother
<1>16. ReissuerHolds'
  <2>1. \A e \in reissuer.todo : e \in DOMAIN Reissue /\ e \in Envelopes
    BY ReissueIsAnother DEF ReissuerTypeOK
  <2> QED BY <1>1, <1>11, <1>15, <2>1 DEF ReissuerHolds
<1>17. ReissuedIsLater'
  BY <1>11, <1>15, ReissueIsAnother DEF ReissuedIsLater
<1>18. ReservedIsFree'
  <2> SUFFICES ASSUME reissuer.pc = "new"
               PROVE  /\ reissuer.seq < nextSeq'
                      /\ outbox'[reissuer.env].seq < reissuer.seq
                      /\ \A e \in Envelopes : Present(e)' => outbox'[e].seq # reissuer.seq
    BY <1>1 DEF ReservedIsFree
  <2>1. reissuer.seq < nextSeq /\ reissuer.seq \in Nat
    BY DEF ReservedIsFree, ReissuerTypeOK
  <2>2. reissuer.env \in Envelopes /\ Present(reissuer.env)
    BY ReissueIsAnother DEF ReissuerTypeOK, ReissuerHolds
  <2>3. outbox'[reissuer.env].seq < reissuer.seq
    BY <1>11, <2>2 DEF ReservedIsFree
  <2>4. ASSUME NEW e \in Envelopes, Present(e)' PROVE outbox'[e].seq # reissuer.seq
    <3>1. CASE Present(e)
      BY <1>11, <3>1 DEF ReservedIsFree
    <3>2. CASE ~Present(e)
      BY <1>3, <1>9, <1>11, <2>1, <2>4, <3>2
    <3> QED BY <3>1, <3>2
  <2> QED BY <1>9, <2>1, <2>3, <2>4
<1>19. HistoryTypeOK'
  <2>1. resets' \in [Envelopes -> 0..MaxResets]
    BY <1>1, DeliveryBoundsAssumption DEF HistoryTypeOK
  <2> QED BY <1>1, <1>5, <2>1 DEF HistoryTypeOK, envVars
<1> QED BY <1>1, <1>10, <1>13, <1>14, <1>16, <1>17, <1>18, <1>19, WorkerFrame, ReissuerFrame

(***************************************************************************)
(* The worker's steps.                                                     *)
(***************************************************************************)
LEMMA WorkerIsTyped ==
    ASSUME DeliveryInv
    PROVE  /\ worker.now \in 0..MaxTime /\ quietUntil \in 0..MaxTime
           /\ worker.pc \notin {"idle", "pick"} =>
                /\ worker.env \in Envelopes /\ worker.rec \in DeliveryOutboxRecord
                /\ Present(worker.env) /\ worker.rec.seq = outbox[worker.env].seq
  BY DEF DeliveryInv, DeliveryTypeOK, WorkerTypeOK, HistoryTypeOK, WorkerHolds, InFlight

\* Where a step may leave the worker.
LEMMA WorkerIsLeft ==
    ASSUME DeliveryInv
    PROVE  /\ worker' = IdleWorker => WorkerTypeOK' /\ worker'.pc = "idle"
           /\ NextPick => WorkerTypeOK' /\ worker'.pc = "pick"
           /\ \A e \in Envelopes, r \in DeliveryOutboxRecord, l \in {"picked", "record", "requeued"} :
                 Working(e, r, l) =>
                    WorkerTypeOK' /\ worker'.pc = l /\ worker'.env = e /\ worker'.rec = r
                    /\ worker'.now = worker.now
           /\ \A l \in {"routed", "send", "requeued"} :
                 worker.pc \in {"picked", "routed", "record"} /\ worker' = [worker EXCEPT !.pc = l] =>
                    WorkerTypeOK' /\ worker'.pc = l /\ worker'.env = worker.env
                    /\ worker'.rec = worker.rec /\ worker'.now = worker.now
<1> USE DEF DeliveryInv, DeliveryTypeOK
<1>0. 0 \in 0..MaxTime
  BY DeliveryBoundsAssumption
<1>1. worker' = IdleWorker => WorkerTypeOK' /\ worker'.pc = "idle"
  BY <1>0 DEF IdleWorker, WorkerTypeOK
<1>2. NextPick => WorkerTypeOK' /\ worker'.pc = "pick"
  <2> SUFFICES ASSUME NextPick PROVE WorkerTypeOK' /\ worker'.pc = "pick"
    OBVIOUS
  <2> DEFINE w == [worker EXCEPT !.pc = "pick", !.env = NoRecord]
  <2>1. worker' = [w EXCEPT !.rec = NoRecord, !.result = "none"]
    BY DEF NextPick
  <2>2. w \in [pc : {"idle", "pick", "picked", "routed", "send", "commit", "record", "requeued"},
                   now : 0..MaxTime, env : Envelopes \cup {NoRecord},
                   rec : DeliveryOutboxRecord \cup {NoRecord}, result : Results \cup {"none"}]
        /\ w.pc = "pick"
    BY DEF WorkerTypeOK
  <2> HIDE DEF w
  <2> QED BY <2>1, <2>2 DEF WorkerTypeOK
<1>3. ASSUME NEW e \in Envelopes, NEW r \in DeliveryOutboxRecord,
             NEW l \in {"picked", "record", "requeued"}, Working(e, r, l)
      PROVE  WorkerTypeOK' /\ worker'.pc = l /\ worker'.env = e /\ worker'.rec = r
             /\ worker'.now = worker.now
  <2> DEFINE w == [worker EXCEPT !.pc = l, !.env = e]
  <2>1. worker' = [w EXCEPT !.rec = r]
    BY <1>3 DEF Working
  <2>2. w \in [pc : {"idle", "pick", "picked", "routed", "send", "commit", "record", "requeued"},
                   now : 0..MaxTime, env : Envelopes \cup {NoRecord},
                   rec : DeliveryOutboxRecord \cup {NoRecord}, result : Results \cup {"none"}]
        /\ w.pc = l /\ w.env = e /\ w.now = worker.now
    BY DEF WorkerTypeOK
  <2> HIDE DEF w
  <2> QED BY <2>1, <2>2 DEF WorkerTypeOK
<1>4. ASSUME NEW l \in {"routed", "send", "requeued"}, worker.pc \in {"picked", "routed", "record"},
             worker' = [worker EXCEPT !.pc = l]
      PROVE  WorkerTypeOK' /\ worker'.pc = l /\ worker'.env = worker.env
             /\ worker'.rec = worker.rec /\ worker'.now = worker.now
  BY <1>4 DEF WorkerTypeOK
<1> QED BY <1>1, <1>2, <1>3, <1>4
LEMMA BeginDrainKeeps ==
    ASSUME DeliveryInv, BeginDrain PROVE DeliveryInv'
<1>1. WorkerTypeOK' /\ worker'.pc = "pick"
  BY DEF DeliveryInv, DeliveryTypeOK, WorkerTypeOK, HistoryTypeOK, BeginDrain
<1>2. HistoryTypeOK'
  BY HistoryFrame DEF DeliveryInv, DeliveryTypeOK, BeginDrain
<1> QED BY <1>1, <1>2, StoreStays, WorkerMoves DEF BeginDrain

LEMMA PickRecordKeeps ==
    ASSUME DeliveryInv, PickRecord PROVE DeliveryInv'
<1>1. UNCHANGED <<storeVars, reissuer>>
  BY DEF PickRecord
<1>2. HistoryTypeOK'
  BY DEF DeliveryInv, DeliveryTypeOK, HistoryTypeOK, PickRecord, envVars
<1>3. /\ StoreTypeOK' /\ SeqsStay /\ NoneAppears /\ nextSeq' = nextSeq
  BY <1>1, StoreStays
<1>4. CASE worker' = IdleWorker
  BY <1>1, <1>2, <1>3, <1>4, WorkerIsLeft, WorkerMoves
<1>5. ASSUME NEW e \in Envelopes, NextReady(e, worker.now), Working(e, outbox[e], "picked")
      PROVE  DeliveryInv'
  <2>1. Present(e) /\ outbox[e] \in DeliveryOutboxRecord
    BY <1>5, RecordIsPresent DEF NextReady, Waiting, DeliveryInv, DeliveryTypeOK
  <2>2. WorkerTypeOK' /\ worker'.env = e /\ worker'.rec = outbox[e]
    BY <1>5, <2>1, WorkerIsLeft
  <2>3. Present(worker'.env) /\ worker'.rec.seq = outbox[worker'.env].seq
    BY <2>1, <2>2
  <2> QED BY <1>1, <1>2, <1>3, <2>2, <2>3, WorkerMoves
<1> QED BY <1>4, <1>5 DEF PickRecord

\* Whatever the worker writes back for its record, if it then drops the record
\* or keeps this very copy.
LEMMA WriteBackKeeps ==
    ASSUME DeliveryInv, InFlight, NEW rec \in DeliveryOutboxRecord, rec.seq = worker.rec.seq,
           UpdateDeliveryRecord(worker.env, rec),
           UNCHANGED <<reissuer, events, contexts, envVars, historyVars>>,
           \/ NextPick
           \/ \E l \in {"record", "requeued"} : Working(worker.env, rec, l)
           \/ worker' = [worker EXCEPT !.pc = "routed"] /\ worker.pc = "picked"
    PROVE  DeliveryInv'
<1>1. /\ worker.env \in Envelopes /\ Present(worker.env) /\ rec.seq = outbox[worker.env].seq
      /\ worker.rec \in DeliveryOutboxRecord /\ worker.rec.seq = outbox[worker.env].seq
  BY WorkerIsTyped DEF InFlight
<1>2. StoreTypeOK' /\ SeqsStay /\ NoneAppears /\ nextSeq' = nextSeq
  BY <1>1, UpdateKeepsPlaces
<1>3. HistoryTypeOK'
  BY HistoryFrame DEF DeliveryInv, DeliveryTypeOK
<1>4. CASE NextPick
  BY <1>2, <1>3, <1>4, WorkerIsLeft, WorkerMoves
<1>5. ASSUME NEW l \in {"record", "requeued"}, Working(worker.env, rec, l) PROVE DeliveryInv'
  <2>1. WorkerTypeOK' /\ worker'.env = worker.env /\ worker'.rec = rec
    BY <1>1, <1>5, WorkerIsLeft
  <2> QED BY <1>1, <1>2, <1>3, <2>1, WorkerMoves
<1>6. CASE worker' = [worker EXCEPT !.pc = "routed"] /\ worker.pc = "picked"
  <2>1. WorkerTypeOK' /\ worker'.env = worker.env /\ worker'.rec = worker.rec
    BY <1>6, WorkerIsLeft
  <2> QED BY <1>1, <1>2, <1>3, <2>1, WorkerMoves
<1> QED BY <1>4, <1>5, <1>6

LEMMA GiveUpKeeps ==
    ASSUME DeliveryInv, InFlight, GiveUp PROVE DeliveryInv'
<1>1. PICK rec : rec = Marked(worker.rec, "delivery_failed", 0, "other")
  OBVIOUS
<1>2. PICK r \in DeliveryOutboxRecord : r = worker.rec
  BY WorkerIsTyped DEF InFlight
<1>3. rec \in DeliveryOutboxRecord /\ rec.seq = worker.rec.seq
  <2>1. rec = Marked(r, "delivery_failed", 0, "other")
    BY <1>1, <1>2
  <2>2. /\ Marked(r, "delivery_failed", 0, "other") \in DeliveryOutboxRecord
        /\ Marked(r, "delivery_failed", 0, "other").seq = r.seq
    BY MarkedIsARecord DEF Statuses, Failures
  <2> QED BY <1>2, <2>1, <2>2
<1>4. /\ UpdateDeliveryRecord(worker.env, rec) /\ NextPick
      /\ UNCHANGED <<reissuer, events, contexts, envVars, historyVars>>
  BY <1>1 DEF GiveUp
<1> QED BY <1>3, <1>4, WriteBackKeeps

LEMMA DeferRecordKeeps ==
    ASSUME DeliveryInv, DeferRecord PROVE DeliveryInv'
<1>1. PICK rec : rec = Marked(worker.rec, "retrying", quietUntil, "manual")
  OBVIOUS
<1>2. InFlight
  BY DEF DeferRecord, InFlight
<1>3. PICK r \in DeliveryOutboxRecord, z \in Int : r = worker.rec /\ z = quietUntil
  BY <1>2, WorkerIsTyped, DeliveryBoundsAssumption DEF InFlight
<1>4. rec \in DeliveryOutboxRecord /\ rec.seq = worker.rec.seq
  <2>1. rec = Marked(r, "retrying", z, "manual")
    BY <1>1, <1>3
  <2>2. /\ Marked(r, "retrying", z, "manual") \in DeliveryOutboxRecord
        /\ Marked(r, "retrying", z, "manual").seq = r.seq
    BY MarkedIsARecord DEF Statuses, Failures
  <2> QED BY <1>3, <2>1, <2>2
<1>5. /\ UpdateDeliveryRecord(worker.env, rec) /\ Working(worker.env, rec, "requeued")
      /\ UNCHANGED <<reissuer, events, contexts, envVars, historyVars>>
  BY <1>1 DEF DeferRecord
<1> QED BY <1>2, <1>4, <1>5, WriteBackKeeps

\* A step of the worker that writes no record and keeps the one it handles.
LEMMA GoesOnKeeps ==
    ASSUME DeliveryInv, UNCHANGED <<storeVars, reissuer>>, HistoryTypeOK',
           NEW l \in {"routed", "send", "requeued"}, worker.pc \in {"picked", "routed", "record"},
           worker' = [worker EXCEPT !.pc = l]
    PROVE  DeliveryInv'
<1>1. WorkerTypeOK' /\ worker'.env = worker.env /\ worker'.rec = worker.rec
  BY WorkerIsLeft
<1>2. /\ worker.env \in Envelopes /\ Present(worker.env) /\ worker.rec.seq = outbox[worker.env].seq
  BY WorkerIsTyped
<1> QED BY <1>1, <1>2, StoreStays, WorkerMoves

LEMMA RouteRecordKeeps ==
    ASSUME DeliveryInv, RouteRecord PROVE DeliveryInv'
<1>1. InFlight /\ worker.pc = "picked" /\ worker' = [worker EXCEPT !.pc = "routed"]
  BY DEF RouteRecord, InFlight
<1>2. UNCHANGED <<reissuer, events, contexts, envVars, historyVars>>
  BY DEF RouteRecord
<1>3. CASE UpdateDeliveryRecord(worker.env, worker.rec)
  <2>1. worker.rec \in DeliveryOutboxRecord
    BY <1>1, WorkerIsTyped
  <2> QED BY <1>1, <1>2, <1>3, <2>1, WriteBackKeeps
<1>4. CASE UNCHANGED storeVars
  <2>1. HistoryTypeOK'
    BY <1>2, HistoryFrame DEF DeliveryInv, DeliveryTypeOK
  <2> QED BY <1>1, <1>2, <1>4, <2>1, GoesOnKeeps
<1> QED BY <1>3, <1>4 DEF RouteRecord

LEMMA RecordEventKeeps ==
    ASSUME DeliveryInv, NEW ev, ev.env = worker.env, InFlight,
           NEW l \in {"pick", "send", "requeued"}, worker.pc \in {"routed", "record", "requeued"},
           worker.pc = "requeued" => l = "pick", RecordEvent(ev, l)
    PROVE  DeliveryInv'
<1>1. UNCHANGED <<storeVars, reissuer, contexts, envVars, historyVars>>
  BY DEF RecordEvent
<1>2. worker.env \in Envelopes
  BY WorkerIsTyped DEF InFlight
<1>3. events' = events \/ events' = events \cup {ev}
  BY DEF RecordEvent
<1>4. HistoryTypeOK'
  BY <1>1, <1>2, <1>3 DEF DeliveryInv, DeliveryTypeOK, HistoryTypeOK, envVars, historyVars
<1>5. \/ worker' = IdleWorker \/ NextPick
      \/ l # "pick" /\ worker' = [worker EXCEPT !.pc = l]
  BY DEF RecordEvent
<1>6. StoreTypeOK' /\ SeqsStay /\ NoneAppears /\ nextSeq' = nextSeq
  BY <1>1, StoreStays
<1>7. CASE worker' = IdleWorker \/ NextPick
  BY <1>1, <1>4, <1>6, <1>7, WorkerIsLeft, WorkerMoves
<1>8. CASE l # "pick" /\ worker' = [worker EXCEPT !.pc = l]
  BY <1>1, <1>4, <1>8, GoesOnKeeps
<1> QED BY <1>5, <1>7, <1>8
LEMMA AnnounceRecordKeeps ==
    ASSUME DeliveryInv, AnnounceRecord PROVE DeliveryInv'
<1>1. InFlight /\ worker.pc = "routed"
  BY DEF AnnounceRecord, InFlight
<1>2. PICK ev : ev = Event("announced", worker.rec.content, worker.rec.content)
  OBVIOUS
<1>3. ev.env = worker.env
  BY <1>2 DEF Event
<1>4. CASE RecordEvent(ev, "send")
  BY <1>1, <1>3, <1>4, RecordEventKeeps
<1>5. CASE /\ worker' = [worker EXCEPT !.pc = "send"]
           /\ UNCHANGED <<storeVars, reissuer, events, contexts, envVars, historyVars>>
  <2>1. HistoryTypeOK'
    BY <1>5, HistoryFrame DEF DeliveryInv, DeliveryTypeOK
  <2> QED BY <1>1, <1>5, <2>1, GoesOnKeeps
<1> QED BY <1>2, <1>4, <1>5 DEF AnnounceRecord

LEMMA RecordDeliveryResultKeeps ==
    ASSUME DeliveryInv, RecordDeliveryResult PROVE DeliveryInv'
<1>1. InFlight /\ worker.pc = "record"
  BY DEF RecordDeliveryResult, InFlight
<1>2. PICK ev : ev = Event(IF worker.result = "delivered" THEN "succeeded" ELSE "failed",
                           worker.rec.attempt, <<worker.rec.content, worker.result>>)
  OBVIOUS
<1>3. ev.env = worker.env
  BY <1>2 DEF Event
<1>4. RecordEvent(ev, "requeued") \/ RecordEvent(ev, "pick")
  BY <1>2 DEF RecordDeliveryResult
<1> QED BY <1>1, <1>3, <1>4, RecordEventKeeps

LEMMA RecordRequeuedKeeps ==
    ASSUME DeliveryInv, RecordRequeued PROVE DeliveryInv'
<1>1. InFlight /\ worker.pc = "requeued"
  BY DEF RecordRequeued, InFlight
<1>2. PICK ev : ev = Event("requeued", worker.rec.retry_at,
                           <<worker.rec.content, worker.rec.attempt, worker.rec.failure>>)
  OBVIOUS
<1>3. ev.env = worker.env
  BY <1>2 DEF Event
<1>4. RecordEvent(ev, "pick")
  BY <1>2 DEF RecordRequeued
<1> QED BY <1>1, <1>3, <1>4, RecordEventKeeps

LEMMA DeliverRecordKeeps ==
    ASSUME DeliveryInv, DeliverRecord PROVE DeliveryInv'
<1>1. worker.env \in Envelopes /\ worker.rec \in DeliveryOutboxRecord /\ Present(worker.env)
      /\ worker.rec.seq = outbox[worker.env].seq
  BY WorkerIsTyped DEF DeliverRecord
<1>2. PICK result \in Results :
          /\ worker' = [worker EXCEPT !.pc = "commit", !.result = result]
          /\ accepted' \in {accepted, accepted \cup {<<worker.env, worker.rec.content>>}}
  BY DEF DeliverRecord
<1>3. /\ sends' = [sends EXCEPT ![worker.env] = @ + 1]
      /\ UNCHANGED <<storeVars, reissuer, events, contexts, envVars, resets, fresh>>
  BY DEF DeliverRecord
<1>4. /\ WorkerTypeOK' /\ worker'.env = worker.env /\ worker'.rec = worker.rec
  BY <1>1, <1>2 DEF DeliveryInv, DeliveryTypeOK, WorkerTypeOK
<1>5. HistoryTypeOK'
  <2>1. worker.rec.content \in Contents
    BY <1>1 DEF DeliveryOutboxRecord
  <2>2. accepted' \subseteq Envelopes \X Contents
    BY <1>1, <1>2, <2>1 DEF DeliveryInv, DeliveryTypeOK, HistoryTypeOK
  <2>3. sends' \in [Envelopes -> Nat]
    BY <1>1, <1>3 DEF DeliveryInv, DeliveryTypeOK, HistoryTypeOK
  <2> QED BY <1>3, <2>2, <2>3 DEF DeliveryInv, DeliveryTypeOK, HistoryTypeOK, envVars
<1>6. UNCHANGED <<storeVars, reissuer>>
  BY <1>3
<1> QED BY <1>1, <1>4, <1>5, <1>6, StoreStays, WorkerMoves

\* What the worker writes back for the result of a call.
LEMMA OutcomeIsARecord ==
    ASSUME NEW rec \in DeliveryOutboxRecord, NEW result \in Results, worker.now \in Int
    PROVE  /\ Outcome(rec, result) \in DeliveryOutboxRecord
           /\ Outcome(rec, result).seq = rec.seq /\ Outcome(rec, result).content = rec.content
           /\ Outcome(rec, result).attempt = rec.attempt + 1
           /\ Outcome(rec, result).status \in {"delivered", "retrying", "delivery_failed"}
           /\ Outcome(rec, result).status = "delivered" <=> result = "delivered"
           /\ Outcome(rec, result).status = "retrying" => rec.attempt + 1 < MaxAttempts
<1>1. PICK attempt : attempt = rec.attempt + 1
  OBVIOUS
<1>2. attempt \in Nat
  BY <1>1 DEF DeliveryOutboxRecord
<1>3. PICK r \in DeliveryOutboxRecord : r = [rec EXCEPT !.attempt = attempt]
  BY <1>2 DEF DeliveryOutboxRecord
<1>4. r.seq = rec.seq /\ r.content = rec.content /\ r.attempt = attempt
  BY <1>3 DEF DeliveryOutboxRecord
<1> DEFINE retry  == result \in {"retry_transport", "retry_protocol"} /\ attempt < MaxAttempts
           status == IF result = "delivered" THEN "delivered"
                     ELSE IF retry THEN "retrying" ELSE "delivery_failed"
           at     == IF retry THEN RetryAt(attempt) ELSE 0
<1>5. Outcome(rec, result) = Marked(r, status, at, FailureOf(result))
  BY <1>1, <1>3 DEF Outcome
<1>6. RetryAt(attempt) \in Int
  <2>1. PICK n : n = attempt - 1
    OBVIOUS
  <2>2. n \in Int
    BY <1>2, <2>1
  <2>3. 2^n \in Int
    BY <2>2
  <2>4. Backoff * 2^n \in Int
    BY <2>3, DeliveryBoundsAssumption
  <2>5. worker.now + Backoff * 2^n \in Int
    BY <2>4
  <2> QED BY <2>1, <2>5, DeliveryBoundsAssumption DEF RetryAt, Capped
<1>7. PICK z \in Int : z = at
  BY <1>6
<1>8. PICK s \in Statuses :
          /\ s = status /\ s \in {"delivered", "retrying", "delivery_failed"}
          /\ s = "delivered" <=> result = "delivered"
          /\ s = "retrying" => attempt < MaxAttempts
  BY DEF Statuses
<1>9. PICK f \in Failures : f = FailureOf(result)
  BY DEF FailureOf, Failures
<1> HIDE DEF status, at, retry
<1>10. Outcome(rec, result) = Marked(r, s, z, f)
  BY <1>5, <1>7, <1>8, <1>9
<1>11. /\ Marked(r, s, z, f) \in DeliveryOutboxRecord
       /\ Marked(r, s, z, f).seq = r.seq /\ Marked(r, s, z, f).content = r.content
       /\ Marked(r, s, z, f).status = s /\ Marked(r, s, z, f).attempt = r.attempt
  BY MarkedIsARecord
<1> QED BY <1>1, <1>4, <1>8, <1>10, <1>11

LEMMA CommitResultKeeps ==
    ASSUME DeliveryInv, CommitResult PROVE DeliveryInv'
<1>1. InFlight /\ worker.pc = "commit"
  BY DEF CommitResult, InFlight
<1>2. /\ worker.rec \in DeliveryOutboxRecord /\ worker.result \in Results /\ worker.now \in Int
  BY <1>1, DeliveryBoundsAssumption DEF DeliveryInv, DeliveryTypeOK, WorkerTypeOK
<1>3. PICK rec : rec = Outcome(worker.rec, worker.result)
  OBVIOUS
<1>4. rec \in DeliveryOutboxRecord /\ rec.seq = worker.rec.seq
  BY <1>2, <1>3, OutcomeIsARecord
<1>5. /\ UpdateDeliveryRecord(worker.env, rec)
      /\ Working(worker.env, rec, "record") \/ NextPick
      /\ UNCHANGED <<reissuer, events, contexts, envVars, historyVars>>
  BY <1>3 DEF CommitResult
<1> QED BY <1>1, <1>4, <1>5, WriteBackKeeps

LEMMA WorkerStepKeeps ==
    ASSUME DeliveryInv, WorkerStep PROVE DeliveryInv'
<1>1. (SuppressRecord \/ SuppressDuplicate) => InFlight /\ GiveUp
  BY DEF SuppressRecord, SuppressDuplicate, InFlight
<1> QED BY <1>1, BeginDrainKeeps, PickRecordKeeps, GiveUpKeeps, DeferRecordKeeps, RouteRecordKeeps,
           AnnounceRecordKeeps, DeliverRecordKeeps, CommitResultKeeps, RecordDeliveryResultKeeps,
           RecordRequeuedKeeps DEF WorkerStep

LEMMA WorkerFaultKeeps ==
    ASSUME DeliveryInv, WorkerFault PROVE DeliveryInv'
<1>1. worker' = IdleWorker /\ UNCHANGED <<storeVars, reissuer>>
  BY DEF WorkerFault
<1>2. HistoryTypeOK'
  BY DeliveryBoundsAssumption
     DEF DeliveryInv, DeliveryTypeOK, HistoryTypeOK, WorkerFault, Fault, historyVars
<1>3. WorkerTypeOK' /\ worker'.pc = "idle"
  BY <1>1, WorkerIsLeft
<1>4. reissuer' = reissuer /\ StoreTypeOK' /\ SeqsStay /\ NoneAppears /\ nextSeq' = nextSeq
  BY <1>1, StoreStays
<1> QED BY <1>2, <1>3, <1>4, WorkerMoves
(***************************************************************************)
(* The recovery's steps.                                                   *)
(***************************************************************************)
LEMMA ReissuerIsTyped ==
    ASSUME DeliveryInv, reissuer.pc # "idle"
    PROVE  /\ \A e \in reissuer.todo :
                 /\ e \in DOMAIN Reissue /\ e \in Envelopes /\ Reissue[e] \in Envelopes
                 /\ Present(e) /\ reissuer.copy[e] \in DeliveryOutboxRecord
                 /\ reissuer.copy[e].seq = outbox[e].seq /\ ~Present(Reissue[e])
           /\ reissuer.pc \in {"old", "reserve", "new"} =>
                 reissuer.env \in reissuer.todo /\ reissuer.env \in Envelopes
           /\ reissuer.seq \in Nat
<1> USE DEF DeliveryInv, DeliveryTypeOK, ReissuerTypeOK
<1>1. ASSUME NEW e \in reissuer.todo
      PROVE  /\ e \in DOMAIN Reissue /\ e \in Envelopes /\ Reissue[e] \in Envelopes
             /\ Present(e) /\ reissuer.copy[e] \in DeliveryOutboxRecord
             /\ reissuer.copy[e].seq = outbox[e].seq /\ ~Present(Reissue[e])
  <2>1. e \in DOMAIN Reissue
    OBVIOUS
  <2>2. e \in Envelopes /\ Reissue[e] \in Envelopes
    BY <2>1, ReissueIsAnother
  <2>3. reissuer.copy[e] \in DeliveryOutboxRecord \cup {NoRecord}
    BY <2>2
  <2> QED BY <2>1, <2>2, <2>3 DEF ReissuerHolds
<1>2. reissuer.pc \in {"old", "reserve", "new"} => reissuer.env \in reissuer.todo
  OBVIOUS
<1> QED BY <1>1, <1>2

\* A step that moves no place and leaves the worker alone.
LEMMA ReissuerMoves ==
    ASSUME DeliveryInv, StoreTypeOK', SeqsStay, NoneAppears, nextSeq' = nextSeq,
           worker' = worker, ReissuerTypeOK', HistoryTypeOK', ReissuerHolds', ReservedIsFree'
    PROVE  DeliveryInv'
<1>1. SequenceNumbersUnique' /\ ReissuedIsLater' /\ WorkerHolds'
  BY PlacesStay
<1> QED BY <1>1, WorkerFrame DEF DeliveryInv, DeliveryTypeOK

LEMMA StartReissueKeeps ==
    ASSUME DeliveryInv, StartReissue PROVE DeliveryInv'
<1>1. UNCHANGED <<storeVars, worker, events, contexts, envVars, historyVars>>
  BY DEF StartReissue
<1>2. HistoryTypeOK'
  BY <1>1, HistoryFrame DEF DeliveryInv, DeliveryTypeOK
<1>3. PICK todo :
          /\ todo = {e \in DOMAIN Reissue :
                        /\ Present(e)
                        /\ Present(Reissue[e]) => outbox[Reissue[e]].seq < outbox[e].seq
                        /\ outbox[e].status \notin {"superseded", "delivery_failed"}}
          /\ reissuer' = [reissuer EXCEPT !.pc = "context", !.copy = outbox, !.todo = todo]
  BY DEF StartReissue
<1>4. /\ reissuer' = [pc |-> "context", copy |-> outbox, todo |-> todo,
                      env |-> reissuer.env, seq |-> reissuer.seq]
      /\ reissuer.env \in Envelopes \cup {NoRecord} /\ reissuer.seq \in Nat
  BY <1>3 DEF DeliveryInv, DeliveryTypeOK, ReissuerTypeOK
<1>5. outbox \in [Envelopes -> DeliveryOutboxRecord \cup {NoRecord}] /\ outbox' = outbox
  BY <1>1 DEF DeliveryInv, DeliveryTypeOK, StoreTypeOK, storeVars
<1>6. todo \subseteq DOMAIN Reissue
  BY <1>3
<1>7. ReissuerTypeOK'
  BY <1>4, <1>5, <1>6 DEF ReissuerTypeOK
<1>8. ASSUME NEW e \in todo
      PROVE  Present(e) /\ outbox[e] # NoRecord /\ ~Present(Reissue[e])
  <2>1. e \in DOMAIN Reissue /\ e \in Envelopes /\ Reissue[e] \in Envelopes /\ Present(e)
    BY <1>3, ReissueIsAnother
  <2>2. Present(Reissue[e]) => outbox[Reissue[e]].seq < outbox[e].seq
    BY <1>3
  <2>3. Present(Reissue[e]) => outbox[e].seq < outbox[Reissue[e]].seq
    BY <2>1 DEF DeliveryInv, ReissuedIsLater
  <2>4. /\ outbox[e].seq \in Nat
        /\ Present(Reissue[e]) => outbox[Reissue[e]].seq \in Nat
    BY <2>1, RecordIsPresent DEF DeliveryInv, DeliveryTypeOK, DeliveryOutboxRecord
  <2> QED BY <2>1, <2>2, <2>3, <2>4 DEF Present
<1>9. ReissuerHolds' /\ ReservedIsFree'
  BY <1>4, <1>5, <1>8 DEF ReissuerHolds, ReservedIsFree, Present
<1> QED BY <1>1, <1>2, <1>7, <1>9, StoreStays, ReissuerMoves

LEMMA SupersedeContextKeeps ==
    ASSUME DeliveryInv, NEW e \in Envelopes, SupersedeContext(e) PROVE DeliveryInv'
<1>1. /\ UNCHANGED <<storeVars, worker, events, envVars, historyVars>>
      /\ contexts' = contexts \cup {e} /\ e \in reissuer.todo /\ reissuer.pc = "context"
      /\ reissuer' = [reissuer EXCEPT !.pc = "old", !.env = e]
  BY DEF SupersedeContext
<1>2. e \in DOMAIN Reissue
  BY <1>1, ReissuerIsTyped
<1>3. HistoryTypeOK'
  BY <1>1, <1>2 DEF DeliveryInv, DeliveryTypeOK, HistoryTypeOK, envVars, historyVars
<1>4. ReissuerTypeOK'
  BY <1>1 DEF DeliveryInv, DeliveryTypeOK, ReissuerTypeOK
<1>5. reissuer'.pc = "old" /\ reissuer'.todo = reissuer.todo /\ reissuer'.copy = reissuer.copy
  BY <1>1 DEF DeliveryInv, DeliveryTypeOK, ReissuerTypeOK
<1>6. ReissuerHolds' /\ ReservedIsFree'
  BY <1>1, <1>5 DEF DeliveryInv, ReissuerHolds, ReservedIsFree, Present, storeVars
<1> QED BY <1>1, <1>3, <1>4, <1>6, StoreStays, ReissuerMoves

LEMMA SupersedeOldKeeps ==
    ASSUME DeliveryInv, SupersedeOld PROVE DeliveryInv'
<1>1. /\ reissuer.pc = "old" /\ reissuer' = [reissuer EXCEPT !.pc = "reserve"]
      /\ UNCHANGED <<worker, events, contexts, envVars, historyVars>>
  BY DEF SupersedeOld
<1>2. PICK e : e = reissuer.env /\ e \in reissuer.todo
  BY <1>1, ReissuerIsTyped
<1>3. PICK old \in DeliveryOutboxRecord : old = reissuer.copy[e] /\ old.seq = outbox[e].seq
  BY <1>1, <1>2, ReissuerIsTyped
<1>4. PICK rec : rec = [old EXCEPT !.status = "superseded"]
  OBVIOUS
<1>5. UpdateDeliveryRecord(e, rec)
  BY <1>2, <1>3, <1>4 DEF SupersedeOld
<1>6. rec \in DeliveryOutboxRecord /\ rec.seq = outbox[e].seq
  BY <1>3, <1>4 DEF DeliveryOutboxRecord
<1>7. e \in Envelopes /\ Present(e)
  BY <1>1, <1>2, ReissuerIsTyped
<1>8. StoreTypeOK' /\ SeqsStay /\ NoneAppears /\ nextSeq' = nextSeq
  BY <1>5, <1>6, <1>7, UpdateKeepsPlaces
<1>9. HistoryTypeOK'
  BY <1>1, HistoryFrame DEF DeliveryInv, DeliveryTypeOK
<1>10. ReissuerTypeOK' /\ reissuer'.pc = "reserve" /\ reissuer'.todo = reissuer.todo
       /\ reissuer'.copy = reissuer.copy
  BY <1>1 DEF DeliveryInv, DeliveryTypeOK, ReissuerTypeOK
<1>11. ReissuerHolds'
  <2>1. ASSUME NEW f \in reissuer.todo
        PROVE  /\ Present(f)' /\ reissuer.copy[f] # NoRecord
               /\ reissuer.copy[f].seq = outbox'[f].seq /\ ~Present(Reissue[f])'
    BY <1>1, <1>8, ReissuerIsTyped, NoRecordAssumption DEF SeqsStay, NoneAppears
  <2> QED BY <1>10, <2>1 DEF ReissuerHolds
<1>12. ReservedIsFree'
  BY <1>10 DEF ReservedIsFree
<1> QED BY <1>1, <1>8, <1>9, <1>10, <1>11, <1>12, ReissuerMoves

LEMMA ReserveOutboxSeqKeeps ==
    ASSUME DeliveryInv, ReserveOutboxSeq PROVE DeliveryInv'
<1> USE DEF DeliveryInv, DeliveryTypeOK
<1>1. /\ reissuer.pc = "reserve" /\ reissuer' = [reissuer EXCEPT !.pc = "new", !.seq = nextSeq]
      /\ nextSeq' = nextSeq + 1
      /\ UNCHANGED <<outbox, worker, events, contexts, envVars, historyVars>>
  BY DEF ReserveOutboxSeq
<1>2. nextSeq \in Nat
  BY DEF StoreTypeOK
<1>3. StoreTypeOK' /\ HistoryTypeOK' /\ WorkerTypeOK'
  BY <1>1, HistoryFrame, WorkerFrame DEF StoreTypeOK
<1>4. ReissuerTypeOK'
  BY <1>1, <1>2 DEF ReissuerTypeOK
<1>5. /\ reissuer'.pc = "new" /\ reissuer'.todo = reissuer.todo /\ reissuer'.copy = reissuer.copy
      /\ reissuer'.env = reissuer.env /\ reissuer'.seq = nextSeq
  BY <1>1 DEF ReissuerTypeOK
<1>6. \A e \in Envelopes : Present(e) => outbox[e].seq < nextSeq /\ outbox[e].seq \in Nat
  BY RecordIsPresent DEF SequenceNumbersUnique, DeliveryOutboxRecord
<1>7. \A e \in Envelopes : Present(e)' <=> Present(e)
  BY <1>1 DEF Present
<1>8. SequenceNumbersUnique'
  BY <1>1, <1>2, <1>6, <1>7 DEF SequenceNumbersUnique
<1>9. WorkerHolds' /\ ReissuedIsLater' /\ ReissuerHolds'
  BY <1>1, <1>5 DEF WorkerHolds, InFlight, ReissuedIsLater, ReissuerHolds, Present
<1>10. ReservedIsFree'
  <2>1. reissuer.env \in Envelopes /\ Present(reissuer.env)
    BY <1>1, ReissuerIsTyped
  <2> QED BY <1>1, <1>2, <1>5, <1>6, <1>7, <2>1 DEF ReservedIsFree
<1> QED BY <1>3, <1>4, <1>8, <1>9, <1>10
LEMMA WriteReissuedKeeps ==
    ASSUME DeliveryInv, WriteReissued PROVE DeliveryInv'
<1> USE DEF DeliveryInv, DeliveryTypeOK
<1>1. PICK env, left :
          /\ env = reissuer.env /\ env \in reissuer.todo /\ left = reissuer.todo \ {env}
  BY ReissuerIsTyped DEF WriteReissued
<1>2. PICK e : e = Reissue[env]
  OBVIOUS
<1>3. PICK old \in DeliveryOutboxRecord : old = reissuer.copy[env]
  BY <1>1, ReissuerIsTyped DEF WriteReissued
<1>4. PICK rec : rec = NewRecord(reissuer.seq, old.snapshot, old.content)
  OBVIOUS
<1>5. /\ reissuer.pc = "new" /\ UpdateDeliveryRecord(e, rec) /\ fresh' = fresh \cup {e}
      /\ reissuer' = IF left = {} THEN IdleReissuer
                     ELSE [reissuer EXCEPT !.pc = "context", !.todo = left,
                                           !.env = NoRecord, !.seq = 0]
      /\ UNCHANGED <<worker, events, contexts, envVars, accepted, sends, resets>>
  BY <1>1, <1>2, <1>3, <1>4 DEF WriteReissued
<1>6. /\ env \in DOMAIN Reissue /\ env \in Envelopes /\ e \in Envelopes /\ Present(env)
      /\ ~Present(e) /\ reissuer.seq \in Nat /\ reissuer.seq < nextSeq
      /\ outbox[env].seq < reissuer.seq
      /\ \A f \in Envelopes : Present(f) => outbox[f].seq # reissuer.seq
  BY <1>1, <1>2, <1>5, ReissuerIsTyped DEF ReservedIsFree
<1>7. rec \in DeliveryOutboxRecord /\ rec.seq = reissuer.seq
  <2>1. old.snapshot \in Snapshots /\ old.content \in Contents
    BY DEF DeliveryOutboxRecord
  <2> QED BY <1>4, <1>6, <2>1, NewRecordIsARecord
<1>8. /\ outbox' = [outbox EXCEPT ![e] = rec] /\ nextSeq' = nextSeq
  BY <1>5, <1>6, <1>7 DEF UpdateDeliveryRecord, StoreTypeOK
<1>9. /\ outbox'[e] = rec /\ rec # NoRecord /\ \A f \in Envelopes \ {e} : outbox'[f] = outbox[f]
  BY <1>6, <1>7, <1>8, NoRecordAssumption DEF StoreTypeOK
<1>10. \A f \in Envelopes : Present(f)' <=> (Present(f) \/ f = e)
  BY <1>9 DEF Present
<1>11. StoreTypeOK'
  BY <1>7, <1>8 DEF StoreTypeOK
<1>12. HistoryTypeOK' /\ WorkerTypeOK'
  BY <1>5, <1>6, WorkerFrame DEF HistoryTypeOK, envVars
<1>13. left \subseteq reissuer.todo /\ left \subseteq DOMAIN Reissue
  BY <1>1 DEF ReissuerTypeOK
<1>14. \/ reissuer' = IdleReissuer
       \/ reissuer' = [pc |-> "context", copy |-> reissuer.copy, todo |-> left,
                       env |-> NoRecord, seq |-> 0]
  BY <1>5 DEF ReissuerTypeOK
<1>15. ReissuerTypeOK' /\ reissuer'.pc \in {"idle", "context"}
  <2>1. CASE reissuer' = IdleReissuer
    BY <2>1 DEF IdleReissuer, ReissuerTypeOK
  <2>2. CASE reissuer' = [pc |-> "context", copy |-> reissuer.copy, todo |-> left,
                          env |-> NoRecord, seq |-> 0]
    BY <1>5, <1>13, <2>2 DEF ReissuerTypeOK
  <2> QED BY <1>14, <2>1, <2>2
<1>16. ASSUME NEW f \in left
       PROVE  /\ Present(f)' /\ reissuer.copy[f] # NoRecord
              /\ reissuer.copy[f].seq = outbox'[f].seq /\ ~Present(Reissue[f])'
  <2>1. /\ f \in DOMAIN Reissue /\ f \in Envelopes /\ Reissue[f] \in Envelopes
        /\ Present(f) /\ reissuer.copy[f] \in DeliveryOutboxRecord
        /\ reissuer.copy[f].seq = outbox[f].seq /\ ~Present(Reissue[f])
    BY <1>5, <1>13, ReissuerIsTyped
  <2>2. f # e /\ Reissue[f] # e
    BY <1>1, <1>2, <1>6, <2>1, ReissueAssumption
  <2> QED BY <1>9, <1>10, <2>1, <2>2, NoRecordAssumption
<1>17. ReissuerHolds' /\ ReservedIsFree'
  <2>1. reissuer'.pc # "idle" => reissuer'.todo = left /\ reissuer'.copy = reissuer.copy
    BY <1>14 DEF IdleReissuer
  <2> QED BY <1>15, <1>16, <2>1 DEF ReissuerHolds, ReservedIsFree
<1>18. SequenceNumbersUnique'
  BY <1>6, <1>7, <1>8, <1>9, <1>10 DEF SequenceNumbersUnique
<1>19. WorkerHolds'
  <2>1. InFlight => worker.env \in Envelopes /\ Present(worker.env)
    BY WorkerIsTyped DEF InFlight
  <2> QED BY <1>5, <1>6, <1>9, <1>10, <2>1 DEF WorkerHolds, InFlight
<1>20. ReissuedIsLater'
  <2> SUFFICES ASSUME NEW f \in DOMAIN Reissue, Present(Reissue[f])'
               PROVE  Present(f)' /\ outbox'[f].seq < outbox'[Reissue[f]].seq
    BY DEF ReissuedIsLater
  <2>1. f \in Envelopes /\ Reissue[f] \in Envelopes
    BY ReissueIsAnother
  <2>2. CASE f = env
    BY <1>2, <1>6, <1>7, <1>9, <1>10, <2>2
  <2>3. CASE f # env
    <3>1. Reissue[f] # e
      BY <1>2, <1>6, <2>3, ReissueAssumption
    <3>2. Present(Reissue[f]) /\ Present(f) /\ f # e
      BY <1>6, <1>10, <2>1, <3>1 DEF ReissuedIsLater
    <3> QED BY <1>9, <1>10, <2>1, <3>1, <3>2 DEF ReissuedIsLater
  <2> QED BY <2>2, <2>3
<1> QED BY <1>11, <1>12, <1>15, <1>17, <1>18, <1>19, <1>20

LEMMA ReissuerFaultKeeps ==
    ASSUME DeliveryInv, ReissuerFault PROVE DeliveryInv'
<1>1. reissuer' = IdleReissuer /\ UNCHANGED <<storeVars, worker>>
  BY DEF ReissuerFault
<1>2. HistoryTypeOK'
  BY DeliveryBoundsAssumption
     DEF DeliveryInv, DeliveryTypeOK, HistoryTypeOK, ReissuerFault, Fault, historyVars
<1>3. ReissuerTypeOK' /\ ReissuerHolds' /\ ReservedIsFree'
  BY <1>1 DEF IdleReissuer, ReissuerTypeOK, ReissuerHolds, ReservedIsFree
<1> QED BY <1>1, <1>2, <1>3, StoreStays, ReissuerMoves

(***************************************************************************)
(* The environment.                                                        *)
(***************************************************************************)
LEMMA EnvironmentKeeps ==
    ASSUME DeliveryInv, ClockTick \/ ManualActivity PROVE DeliveryInv'
<1>1. UNCHANGED <<storeVars, worker, reissuer, events, contexts, faults, historyVars>>
  BY DEF ClockTick, ManualActivity
<1>2. clock' \in 0..MaxTime /\ quietUntil' \in 0..MaxTime
  BY DeliveryBoundsAssumption
     DEF DeliveryInv, DeliveryTypeOK, HistoryTypeOK, ClockTick, ManualActivity, Capped
<1>3. HistoryTypeOK'
  BY <1>1, <1>2 DEF DeliveryInv, DeliveryTypeOK, HistoryTypeOK, historyVars
<1>4. StoreTypeOK' /\ SeqsStay /\ NoneAppears /\ nextSeq' = nextSeq
  BY <1>1, StoreStays
<1>5. WorkerTypeOK' /\ ReissuerTypeOK'
  BY <1>1, WorkerFrame, ReissuerFrame
<1>6. SequenceNumbersUnique' /\ ReissuedIsLater' /\ WorkerHolds' /\ ReissuerHolds' /\ ReservedIsFree'
  BY <1>1, <1>4, PlacesStay
<1> QED BY <1>3, <1>4, <1>5, <1>6 DEF DeliveryInv, DeliveryTypeOK

(***************************************************************************)
(* The invariant, the types and the order.                                 *)
(***************************************************************************)
LEMMA DeliveryStutter ==
    ASSUME DeliveryInv, UNCHANGED deliveryVars PROVE DeliveryInv'
<1>1. UNCHANGED <<storeVars, worker, reissuer, events, contexts, envVars, historyVars>>
  BY DEF deliveryVars
<1>2. HistoryTypeOK'
  BY <1>1, HistoryFrame DEF DeliveryInv, DeliveryTypeOK
<1>3. StoreTypeOK' /\ SeqsStay /\ NoneAppears /\ nextSeq' = nextSeq
  BY <1>1, StoreStays
<1>4. SequenceNumbersUnique' /\ ReissuedIsLater' /\ WorkerHolds' /\ ReissuerHolds' /\ ReservedIsFree'
  BY <1>1, <1>3, PlacesStay
<1> QED BY <1>1, <1>2, <1>3, <1>4, WorkerFrame, ReissuerFrame DEF DeliveryInv, DeliveryTypeOK

LEMMA InitiallyInOrder == DeliveryInit => DeliveryInv
<1> SUFFICES ASSUME DeliveryInit PROVE DeliveryInv
  OBVIOUS
<1> USE DEF DeliveryInit
<1>1. \A e \in Envelopes : ~Present(e)
  BY DEF Present
<1>2. StoreTypeOK
  BY DEF StoreTypeOK
<1>3. WorkerTypeOK
  BY DeliveryBoundsAssumption DEF WorkerTypeOK, IdleWorker
<1>4. ReissuerTypeOK
  BY DEF ReissuerTypeOK, IdleReissuer
<1>5. HistoryTypeOK
  BY DeliveryBoundsAssumption DEF HistoryTypeOK
<1>6. SequenceNumbersUnique /\ ReissuedIsLater
  BY <1>1, ReissueIsAnother DEF SequenceNumbersUnique, ReissuedIsLater
<1>7. WorkerHolds /\ ReissuerHolds /\ ReservedIsFree
  BY DEF WorkerHolds, InFlight, ReissuerHolds, ReservedIsFree, IdleWorker, IdleReissuer
<1> QED BY <1>2, <1>3, <1>4, <1>5, <1>6, <1>7 DEF DeliveryInv, DeliveryTypeOK

LEMMA StepKeepsOrder == DeliveryInv /\ [DeliveryNext]_deliveryVars => DeliveryInv'
<1> SUFFICES ASSUME DeliveryInv, [DeliveryNext]_deliveryVars PROVE DeliveryInv'
  OBVIOUS
<1>1. CASE \E batch \in Batches, snapshot \in Snapshots, content \in Contents :
               EnqueueEnvelopes(batch, snapshot, content)
  BY <1>1, EnqueueKeeps
<1>2. CASE \E e \in Envelopes : Kind[e] = "approval" /\ SupersedeRecords({e})
  BY <1>2, SupersedeKeeps
<1>3. CASE RequeueTransportFailures
  BY <1>3, RequeueKeeps
<1>4. CASE WorkerStep
  BY <1>4, WorkerStepKeeps
<1>5. CASE WorkerFault
  BY <1>5, WorkerFaultKeeps
<1>6. CASE ReissueStep
  BY <1>6, StartReissueKeeps, SupersedeContextKeeps, SupersedeOldKeeps, ReserveOutboxSeqKeeps,
     WriteReissuedKeeps DEF ReissueStep
<1>7. CASE ReissuerFault
  BY <1>7, ReissuerFaultKeeps
<1>8. CASE ClockTick \/ ManualActivity
  BY <1>8, EnvironmentKeeps
<1>9. CASE UNCHANGED deliveryVars
  BY <1>9, DeliveryStutter
<1> QED BY <1>1, <1>2, <1>3, <1>4, <1>5, <1>6, <1>7, <1>8, <1>9 DEF DeliveryNext

\* The inductive invariant of DeliveryOutboxStore, its worker and the recovery.
THEOREM DeliveryInvariance == DeliverySpec => []DeliveryInv
  BY InitiallyInOrder, StepKeepsOrder, PTL DEF DeliverySpec

\* Every variable of the outbox, the worker and the recovery keeps its type
\* through enqueueing, refreshing, requeueing, delivery, deferral, reissue and
\* crashes.
THEOREM DeliveryTypeCorrect == DeliverySpec => []DeliveryTypeOK
<1>1. DeliveryInv => DeliveryTypeOK
  BY DEF DeliveryInv
<1> QED BY <1>1, DeliveryInvariance, PTL

\* update_delivery_record, reserve_outbox_seq and enqueue_envelopes together
\* never give one sequence number to two records, nor keep one to give out
\* again: _next_ready_record's order in a session is total.
THEOREM OrderIsTotal == DeliverySpec => []SequenceNumbersUnique
<1>1. DeliveryInv => SequenceNumbersUnique
  BY DEF DeliveryInv
<1> QED BY <1>1, DeliveryInvariance, PTL
(***************************************************************************)
(* What happens to a record.                                               *)
(***************************************************************************)
Same(e) == outbox'[e] = outbox[e] /\ resets'[e] = resets[e]

\* A new record, or one put back to pending.
Pending(e) == outbox'[e].status = "pending" /\ outbox'[e].attempt = 0 /\ e \in fresh'
Starts(e) == ~Present(e) /\ resets'[e] = resets[e] /\ Pending(e)
StartsAgain(e) ==
    /\ Present(e) /\ Present(e)' /\ resets'[e] = resets[e] + 1 /\ Pending(e)
    /\ ~(Kind[e] = "approval" /\ outbox[e].status = "superseded")

Superseded(e) ==
    Present(e) /\ Present(e)' /\ resets'[e] = resets[e] /\ outbox'[e].status = "superseded"

\* A step in which the worker does nothing, or is stopped by a fault.
OtherStep ==
    \/ \E batch \in Batches, snapshot \in Snapshots, content \in Contents :
           EnqueueEnvelopes(batch, snapshot, content)
    \/ \E e \in Envelopes : Kind[e] = "approval" /\ SupersedeRecords({e})
    \/ RequeueTransportFailures \/ WorkerFault \/ ReissueStep \/ ReissuerFault
    \/ ClockTick \/ ManualActivity \/ UNCHANGED deliveryVars

Undisturbed ==
    /\ \A e \in Envelopes : Same(e) \/ Starts(e) \/ StartsAgain(e) \/ Superseded(e)
    /\ accepted' = accepted /\ sends' = sends /\ fresh \subseteq fresh'
    /\ \/ worker' = worker /\ (faults' = faults \/ faults' = faults + 1)
       \/ worker' = IdleWorker /\ faults' = faults + 1

LEMMA EnqueueChanges ==
    ASSUME DeliveryInv, NEW batch \in Batches, NEW snapshot \in Snapshots,
           NEW content \in Contents, EnqueueEnvelopes(batch, snapshot, content)
    PROVE  Undisturbed
<1> DEFINE index(e)  == CHOOSE i \in 1..Len(batch) : batch[i] = e
           members   == {batch[i] : i \in 1..Len(batch)}
           new       == {e \in members : ~Present(e)}
           refreshed == {e \in members \ new : Refreshes(e, snapshot, content)}
           number(e) == BatchSeq(batch, index(e))
<1>1. /\ outbox' = [e \in Envelopes |->
               IF e \in new THEN NewRecord(number(e), snapshot, content)
               ELSE IF e \in refreshed THEN NewRecord(outbox[e].seq, snapshot, content)
               ELSE outbox[e]]
      /\ resets' = [e \in Envelopes |-> IF e \in refreshed THEN resets[e] + 1 ELSE resets[e]]
      /\ fresh' = fresh \cup new \cup refreshed
      /\ UNCHANGED <<worker, reissuer, events, contexts, envVars, accepted, sends>>
  BY DEF EnqueueEnvelopes
<1>2. /\ \A e \in new : ~Present(e)
      /\ \A e \in refreshed : /\ Present(e) /\ e \notin new
                              /\ ~(Kind[e] = "approval" /\ outbox[e].status = "superseded")
  BY DEF Refreshes
<1> HIDE DEF index, members, new, refreshed, number
<1>3. ASSUME NEW e \in Envelopes PROVE Same(e) \/ Starts(e) \/ StartsAgain(e) \/ Superseded(e)
  <2>1. CASE e \in new
    <3>1. outbox'[e] = NewRecord(number(e), snapshot, content) /\ resets'[e] = resets[e] /\ e \in fresh'
      BY <1>1, <1>2, <2>1
    <3>2. outbox'[e].status = "pending" /\ outbox'[e].attempt = 0
      BY <3>1 DEF NewRecord
    <3> QED BY <1>2, <2>1, <3>1, <3>2 DEF Starts, Pending
  <2>2. CASE e \in refreshed
    <3>1. /\ outbox'[e] = NewRecord(outbox[e].seq, snapshot, content)
          /\ resets'[e] = resets[e] + 1 /\ e \in fresh'
      BY <1>1, <1>2, <2>2
    <3>2. outbox'[e].status = "pending" /\ outbox'[e].attempt = 0
      BY <3>1 DEF NewRecord
    <3>3. outbox[e].seq \in Nat
      BY <1>2, <2>2, RecordIsPresent DEF DeliveryInv, DeliveryTypeOK, DeliveryOutboxRecord
    <3>4. Present(e)'
      BY <3>1, <3>3, NewRecordIsARecord, NoRecordAssumption DEF Present
    <3> QED BY <1>2, <2>2, <3>1, <3>2, <3>4 DEF StartsAgain, Pending
  <2>3. CASE e \notin new /\ e \notin refreshed
    BY <1>1, <2>3 DEF Same
  <2> QED BY <2>1, <2>2, <2>3
<1> QED BY <1>1, <1>3 DEF Undisturbed, envVars

LEMMA SupersedeChanges ==
    ASSUME DeliveryInv, NEW S, SupersedeRecords(S) PROVE Undisturbed
<1> DEFINE hit == {e \in S : Present(e) /\ outbox[e].status \notin {"delivered", "superseded"}}
<1>1. /\ outbox' = [e \in Envelopes |->
               IF e \in hit THEN Marked(outbox[e], "superseded", 0, "none") ELSE outbox[e]]
      /\ UNCHANGED <<nextSeq, worker, reissuer, events, contexts, envVars, historyVars>>
  BY DEF SupersedeRecords
<1>2. ASSUME NEW e \in Envelopes PROVE Same(e) \/ Superseded(e)
  <2>1. CASE e \in hit
    <3>1. Present(e)
      BY <2>1
    <3>2. PICK r \in DeliveryOutboxRecord : r = outbox[e]
      BY <3>1, RecordIsPresent DEF DeliveryInv, DeliveryTypeOK
    <3>3. outbox'[e] = Marked(r, "superseded", 0, "none") /\ resets'[e] = resets[e]
      BY <1>1, <2>1, <3>2 DEF historyVars
    <3>4. outbox'[e] \in DeliveryOutboxRecord /\ outbox'[e].status = "superseded"
      BY <3>3, MarkedIsARecord DEF Statuses, Failures
    <3> QED BY <3>1, <3>3, <3>4, NoRecordAssumption DEF Superseded, Present
  <2>2. CASE e \notin hit
    BY <1>1, <2>2 DEF Same, historyVars
  <2> QED BY <2>1, <2>2
<1> QED BY <1>1, <1>2 DEF Undisturbed, envVars, historyVars

LEMMA RequeueChanges ==
    ASSUME DeliveryInv, RequeueTransportFailures PROVE Undisturbed
<1> DEFINE hit == {e \in Envelopes : /\ Present(e) /\ outbox[e].status = "delivery_failed"
                                     /\ outbox[e].failure = "transport"}
<1>1. /\ outbox' = [e \in Envelopes |->
               IF e \in hit THEN NewRecord(outbox[e].seq, outbox[e].snapshot, outbox[e].content)
               ELSE outbox[e]]
      /\ resets' = [e \in Envelopes |-> IF e \in hit THEN resets[e] + 1 ELSE resets[e]]
      /\ fresh' = fresh \cup hit
      /\ UNCHANGED <<nextSeq, worker, reissuer, events, contexts, envVars, accepted, sends>>
  BY DEF RequeueTransportFailures
<1>2. ASSUME NEW e \in Envelopes PROVE Same(e) \/ StartsAgain(e)
  <2>1. CASE e \in hit
    <3>1. Present(e) /\ outbox[e].status = "delivery_failed"
      BY <2>1
    <3>2. outbox[e].seq \in Nat /\ outbox[e].snapshot \in Snapshots /\ outbox[e].content \in Contents
      BY <3>1, RecordIsPresent DEF DeliveryInv, DeliveryTypeOK, DeliveryOutboxRecord
    <3>3. /\ outbox'[e] = NewRecord(outbox[e].seq, outbox[e].snapshot, outbox[e].content)
          /\ resets'[e] = resets[e] + 1 /\ e \in fresh'
      BY <1>1, <2>1
    <3>4. Present(e)' /\ outbox'[e].status = "pending" /\ outbox'[e].attempt = 0
      BY <3>2, <3>3, NewRecordIsARecord, NoRecordAssumption DEF Present
    <3> QED BY <3>1, <3>3, <3>4 DEF StartsAgain, Pending
  <2>2. CASE e \notin hit
    BY <1>1, <2>2 DEF Same
  <2> QED BY <2>1, <2>2
<1> QED BY <1>1, <1>2 DEF Undisturbed, envVars

LEMMA ReissueChanges ==
    ASSUME DeliveryInv, ReissueStep PROVE Undisturbed
<1>1. CASE StartReissue \/ (\E e \in Envelopes : SupersedeContext(e)) \/ ReserveOutboxSeq
  <2>1. UNCHANGED <<outbox, worker, envVars, historyVars>>
    BY <1>1 DEF StartReissue, SupersedeContext, ReserveOutboxSeq, storeVars
  <2> QED BY <2>1 DEF Undisturbed, Same, envVars, historyVars
<1>2. CASE SupersedeOld
  <2>1. /\ reissuer.pc = "old" /\ UNCHANGED <<worker, events, contexts, envVars, historyVars>>
    BY <1>2 DEF SupersedeOld
  <2>2. PICK e : e = reissuer.env /\ e \in reissuer.todo
    BY <2>1, ReissuerIsTyped
  <2>3. PICK old \in DeliveryOutboxRecord : old = reissuer.copy[e] /\ old.seq = outbox[e].seq
    BY <2>1, <2>2, ReissuerIsTyped
  <2>4. PICK rec : rec = [old EXCEPT !.status = "superseded"]
    OBVIOUS
  <2>5. UpdateDeliveryRecord(e, rec)
    BY <1>2, <2>2, <2>3, <2>4 DEF SupersedeOld
  <2>6. rec \in DeliveryOutboxRecord /\ rec.seq = outbox[e].seq /\ rec.status = "superseded"
    BY <2>3, <2>4 DEF DeliveryOutboxRecord
  <2>7. e \in Envelopes /\ Present(e)
    BY <2>1, <2>2, ReissuerIsTyped
  <2>8. SeqsStay /\ outbox'[e] = rec /\ \A f \in Envelopes \ {e} : outbox'[f] = outbox[f]
    BY <2>5, <2>6, <2>7, UpdateKeepsPlaces
  <2>9. Superseded(e) /\ \A f \in Envelopes \ {e} : Same(f)
    BY <2>1, <2>6, <2>7, <2>8 DEF Superseded, Same, historyVars, SeqsStay
  <2> QED BY <2>1, <2>9 DEF Undisturbed, envVars, historyVars
<1>3. CASE WriteReissued
  <2>1. PICK e, old, seq :
            /\ e = Reissue[reissuer.env] /\ UpdateDeliveryRecord(e, NewRecord(seq, old.snapshot, old.content))
            /\ reissuer.pc = "new" /\ fresh' = fresh \cup {e}
            /\ UNCHANGED <<worker, events, contexts, envVars, accepted, sends, resets>>
    BY <1>3 DEF WriteReissued
  <2>2. e \in Envelopes /\ ~Present(e)
    BY <2>1, ReissuerIsTyped
  <2>3. PICK rec : rec = NewRecord(seq, old.snapshot, old.content)
    OBVIOUS
  <2>4. rec.status = "pending" /\ rec.attempt = 0
    BY <2>3 DEF NewRecord
  <2>5. outbox' = [outbox EXCEPT ![e] = rec]
    BY <2>1, <2>3 DEF UpdateDeliveryRecord
  <2>6. outbox'[e] = rec /\ \A f \in Envelopes \ {e} : outbox'[f] = outbox[f]
    BY <2>2, <2>5 DEF DeliveryInv, DeliveryTypeOK, StoreTypeOK
  <2>7. Starts(e) /\ \A f \in Envelopes \ {e} : Same(f)
    BY <2>1, <2>2, <2>4, <2>6 DEF Starts, Pending, Same
  <2> QED BY <2>1, <2>7 DEF Undisturbed, envVars
<1> QED BY <1>1, <1>2, <1>3 DEF ReissueStep

LEMMA OthersChange ==
    ASSUME DeliveryInv, OtherStep PROVE Undisturbed
<1>1. CASE \E batch \in Batches, snapshot \in Snapshots, content \in Contents :
               EnqueueEnvelopes(batch, snapshot, content)
  BY <1>1, EnqueueChanges
<1>2. CASE \E e \in Envelopes : Kind[e] = "approval" /\ SupersedeRecords({e})
  BY <1>2, SupersedeChanges
<1>3. CASE RequeueTransportFailures
  BY <1>3, RequeueChanges
<1>4. CASE ReissueStep
  BY <1>4, ReissueChanges
<1>5. CASE WorkerFault \/ ReissuerFault
  <2>1. /\ UNCHANGED <<storeVars, historyVars>> /\ faults' = faults + 1
        /\ worker' = worker \/ worker' = IdleWorker
    BY <1>5 DEF WorkerFault, ReissuerFault, Fault
  <2> QED BY <2>1 DEF Undisturbed, Same, storeVars, historyVars
<1>6. CASE ClockTick \/ ManualActivity \/ UNCHANGED deliveryVars
  <2>1. UNCHANGED <<storeVars, worker, faults, historyVars>>
    BY <1>6 DEF ClockTick, ManualActivity, deliveryVars, envVars
  <2> QED BY <2>1 DEF Undisturbed, Same, storeVars, historyVars
<1> QED BY <1>1, <1>2, <1>3, <1>4, <1>5, <1>6 DEF OtherStep
(***************************************************************************)
(* What the worker does, by the place it is in.                            *)
(***************************************************************************)
Drops ==
    /\ worker.pc # "commit" /\ worker'.pc \in {"idle", "pick", "requeued"}
    /\ outbox' = outbox /\ accepted' = accepted /\ sends' = sends

Picks ==
    /\ worker.pc = "pick" /\ worker'.pc = "picked"
    /\ outbox' = outbox /\ accepted' = accepted /\ sends' = sends /\ fresh' = {}
    /\ \E e \in Envelopes : /\ NextReady(e, worker.now)
                            /\ worker'.env = e /\ worker'.rec = outbox[e] /\ worker'.now = worker.now

GivesUp ==
    /\ worker.pc \in {"picked", "routed"} /\ worker'.pc = "pick"
    /\ outbox'[worker.env] # NoRecord /\ outbox'[worker.env].status = "delivery_failed"
    /\ accepted' = accepted /\ sends' = sends /\ fresh' = fresh

Defers ==
    /\ worker.pc = "picked" /\ worker'.pc = "requeued"
    /\ outbox'[worker.env] # NoRecord /\ outbox'[worker.env].status = "retrying"
    /\ outbox'[worker.env].attempt = worker.rec.attempt
    /\ accepted' = accepted /\ sends' = sends /\ fresh' = fresh

GoesOn ==
    /\ worker.pc \in {"picked", "routed"} /\ worker'.pc \in {"routed", "send"}
    /\ worker'.env = worker.env /\ worker'.rec = worker.rec /\ worker'.now = worker.now
    /\ outbox'[worker.env] # NoRecord
    /\ outbox'[worker.env] = outbox[worker.env] \/ outbox'[worker.env] = worker.rec
    /\ accepted' = accepted /\ sends' = sends /\ fresh' = fresh

Sends ==
    /\ worker.pc = "send" /\ worker'.pc = "commit"
    /\ worker'.env = worker.env /\ worker'.rec = worker.rec
    /\ outbox' = outbox /\ fresh' = fresh
    /\ sends' = [sends EXCEPT ![worker.env] = @ + 1]
    /\ accepted \subseteq accepted'
    /\ worker'.result = "delivered" => <<worker.env, worker.rec.content>> \in accepted'

Commits ==
    /\ worker.pc = "commit" /\ worker'.pc \in {"pick", "record"}
    /\ outbox'[worker.env] # NoRecord
    /\ outbox'[worker.env].content = worker.rec.content
    /\ outbox'[worker.env].attempt = worker.rec.attempt + 1
    /\ outbox'[worker.env].status \in {"delivered", "retrying", "delivery_failed"}
    /\ outbox'[worker.env].status = "delivered" => worker.result = "delivered"
    /\ outbox'[worker.env].status = "retrying" => worker.rec.attempt + 1 < MaxAttempts
    /\ accepted' = accepted /\ sends' = sends /\ fresh' = fresh

WorkerDoes ==
    /\ \A f \in Envelopes \ {worker.env} : outbox'[f] = outbox[f]
    /\ resets' = resets /\ faults' = faults
    /\ Drops \/ Picks \/ GivesUp \/ Defers \/ GoesOn \/ Sends \/ Commits

\* What is left of the records after a write-back.
LEMMA WriteBackWrites ==
    ASSUME DeliveryInv, InFlight, NEW rec \in DeliveryOutboxRecord, rec.seq = worker.rec.seq,
           UpdateDeliveryRecord(worker.env, rec)
    PROVE  /\ \A f \in Envelopes \ {worker.env} : outbox'[f] = outbox[f]
           /\ outbox'[worker.env] = rec /\ outbox'[worker.env] # NoRecord
<1>1. PICK e \in Envelopes : e = worker.env /\ Present(e) /\ rec.seq = outbox[e].seq
  BY WorkerIsTyped DEF InFlight
<1>2. UpdateDeliveryRecord(e, rec)
  BY <1>1
<1>3. outbox'[e] = rec /\ \A f \in Envelopes \ {e} : outbox'[f] = outbox[f]
  BY <1>1, <1>2, UpdateKeepsPlaces
<1>4. outbox'[worker.env] # NoRecord
  BY <1>1, <1>3, NoRecordAssumption
<1>5. outbox'[worker.env] = rec /\ \A f \in Envelopes \ {worker.env} : outbox'[f] = outbox[f]
  BY <1>1, <1>3
<1> QED BY <1>4, <1>5 DEF Present

LEMMA PickDoes == ASSUME DeliveryInv, PickRecord PROVE WorkerDoes
<1>1. /\ worker.pc = "pick" /\ fresh' = {}
      /\ UNCHANGED <<storeVars, reissuer, events, contexts, envVars, accepted, sends, resets>>
  BY DEF PickRecord
<1>2. CASE worker' = IdleWorker
  BY <1>1, <1>2 DEF WorkerDoes, Drops, IdleWorker, storeVars, envVars
<1>3. ASSUME NEW e \in Envelopes, NextReady(e, worker.now), Working(e, outbox[e], "picked")
      PROVE  WorkerDoes
  <2>1. Present(e) /\ outbox[e] \in DeliveryOutboxRecord
    BY <1>3, RecordIsPresent DEF NextReady, Waiting, DeliveryInv, DeliveryTypeOK
  <2>2. /\ worker'.pc = "picked" /\ worker'.env = e /\ worker'.rec = outbox[e]
        /\ worker'.now = worker.now
    BY <1>3, <2>1, WorkerIsLeft
  <2> QED BY <1>1, <1>3, <2>2 DEF WorkerDoes, Picks, storeVars, envVars
<1> QED BY <1>2, <1>3 DEF PickRecord

LEMMA GiveUpDoes ==
    ASSUME DeliveryInv, SuppressRecord \/ SuppressDuplicate PROVE WorkerDoes
<1>1. InFlight /\ GiveUp /\ worker.pc \in {"picked", "routed"}
  BY DEF SuppressRecord, SuppressDuplicate, InFlight
<1>2. PICK r \in DeliveryOutboxRecord : r = worker.rec
  BY <1>1, WorkerIsTyped DEF InFlight
<1>3. PICK rec : rec = Marked(r, "delivery_failed", 0, "other")
  OBVIOUS
<1>4. rec \in DeliveryOutboxRecord /\ rec.seq = worker.rec.seq /\ rec.status = "delivery_failed"
  <2>1. /\ Marked(r, "delivery_failed", 0, "other") \in DeliveryOutboxRecord
        /\ Marked(r, "delivery_failed", 0, "other").seq = r.seq
        /\ Marked(r, "delivery_failed", 0, "other").status = "delivery_failed"
    BY MarkedIsARecord DEF Statuses, Failures
  <2> QED BY <1>2, <1>3, <2>1
<1>5. /\ UpdateDeliveryRecord(worker.env, rec) /\ NextPick
      /\ UNCHANGED <<reissuer, events, contexts, envVars, historyVars>>
  BY <1>1, <1>2, <1>3 DEF GiveUp
<1>6. /\ \A f \in Envelopes \ {worker.env} : outbox'[f] = outbox[f]
      /\ outbox'[worker.env] = rec /\ outbox'[worker.env] # NoRecord
  BY <1>1, <1>4, <1>5, WriteBackWrites
<1>7. worker'.pc = "pick"
  BY <1>5, WorkerIsLeft
<1> QED BY <1>1, <1>4, <1>5, <1>6, <1>7 DEF WorkerDoes, GivesUp, envVars, historyVars

LEMMA DeferDoes ==
    ASSUME DeliveryInv, DeferRecord PROVE WorkerDoes
<1>1. InFlight /\ worker.pc = "picked"
  BY DEF DeferRecord, InFlight
<1>2. PICK r \in DeliveryOutboxRecord, z \in Int : r = worker.rec /\ z = quietUntil
  BY <1>1, WorkerIsTyped, DeliveryBoundsAssumption DEF InFlight
<1>3. PICK rec : rec = Marked(r, "retrying", z, "manual")
  OBVIOUS
<1>4. /\ rec \in DeliveryOutboxRecord /\ rec.seq = worker.rec.seq /\ rec.status = "retrying"
      /\ rec.attempt = worker.rec.attempt
  <2>1. /\ Marked(r, "retrying", z, "manual") \in DeliveryOutboxRecord
        /\ Marked(r, "retrying", z, "manual").seq = r.seq
        /\ Marked(r, "retrying", z, "manual").status = "retrying"
        /\ Marked(r, "retrying", z, "manual").attempt = r.attempt
    BY MarkedIsARecord DEF Statuses, Failures
  <2> QED BY <1>2, <1>3, <2>1
<1>5. /\ UpdateDeliveryRecord(worker.env, rec) /\ Working(worker.env, rec, "requeued")
      /\ UNCHANGED <<reissuer, events, contexts, envVars, historyVars>>
  BY <1>2, <1>3 DEF DeferRecord
<1>6. /\ \A f \in Envelopes \ {worker.env} : outbox'[f] = outbox[f]
      /\ outbox'[worker.env] = rec /\ outbox'[worker.env] # NoRecord
  BY <1>1, <1>4, <1>5, WriteBackWrites
<1>7. worker'.pc = "requeued"
  BY <1>5 DEF Working, DeliveryInv, DeliveryTypeOK, WorkerTypeOK
<1> QED BY <1>1, <1>4, <1>5, <1>6, <1>7 DEF WorkerDoes, Defers, envVars, historyVars

LEMMA RouteDoes ==
    ASSUME DeliveryInv, RouteRecord PROVE WorkerDoes
<1>1. InFlight /\ worker.pc = "picked" /\ worker' = [worker EXCEPT !.pc = "routed"]
      /\ UNCHANGED <<reissuer, events, contexts, envVars, historyVars>>
  BY DEF RouteRecord, InFlight
<1>2. worker.rec \in DeliveryOutboxRecord /\ Present(worker.env)
  BY <1>1, WorkerIsTyped
<1>3. /\ worker'.pc = "routed" /\ worker'.env = worker.env /\ worker'.rec = worker.rec
      /\ worker'.now = worker.now
  BY <1>1, WorkerIsLeft
<1>4. CASE UpdateDeliveryRecord(worker.env, worker.rec)
  <2>1. /\ \A f \in Envelopes \ {worker.env} : outbox'[f] = outbox[f]
        /\ outbox'[worker.env] = worker.rec /\ outbox'[worker.env] # NoRecord
    BY <1>1, <1>2, <1>4, WriteBackWrites
  <2> QED BY <1>1, <1>3, <2>1 DEF WorkerDoes, GoesOn, envVars, historyVars
<1>5. CASE UNCHANGED storeVars
  BY <1>1, <1>2, <1>3, <1>5 DEF WorkerDoes, GoesOn, envVars, historyVars, storeVars, Present
<1> QED BY <1>4, <1>5 DEF RouteRecord

LEMMA EventDoes ==
    ASSUME DeliveryInv, NEW ev, RecordEvent(ev, "pick") \/ RecordEvent(ev, "requeued"),
           worker.pc \in {"record", "requeued"}
    PROVE  WorkerDoes
<1>1. UNCHANGED <<storeVars, reissuer, contexts, envVars, historyVars>>
  BY DEF RecordEvent
<1>2. \/ worker' = IdleWorker \/ NextPick \/ worker' = [worker EXCEPT !.pc = "requeued"]
  BY DEF RecordEvent
<1>3. worker'.pc \in {"idle", "pick", "requeued"}
  <2>1. CASE worker' = [worker EXCEPT !.pc = "requeued"]
    BY <2>1 DEF DeliveryInv, DeliveryTypeOK, WorkerTypeOK
  <2> QED BY <1>2, <2>1, WorkerIsLeft
<1> QED BY <1>1, <1>3 DEF WorkerDoes, Drops, storeVars, envVars, historyVars

LEMMA AnnounceDoes ==
    ASSUME DeliveryInv, AnnounceRecord PROVE WorkerDoes
<1>1. worker.pc = "routed" /\ Present(worker.env)
  BY WorkerIsTyped DEF AnnounceRecord
<1>2. UNCHANGED <<storeVars, reissuer, contexts, envVars, historyVars>>
  BY DEF AnnounceRecord, RecordEvent
<1>3. worker' = IdleWorker \/ worker' = [worker EXCEPT !.pc = "send"]
  BY DEF AnnounceRecord, RecordEvent
<1>4. CASE worker' = IdleWorker
  BY <1>1, <1>2, <1>4 DEF WorkerDoes, Drops, IdleWorker, storeVars, envVars, historyVars
<1>5. CASE worker' = [worker EXCEPT !.pc = "send"]
  <2>1. /\ worker'.pc = "send" /\ worker'.env = worker.env /\ worker'.rec = worker.rec
        /\ worker'.now = worker.now
    BY <1>1, <1>5, WorkerIsLeft
  <2> QED BY <1>1, <1>2, <2>1 DEF WorkerDoes, GoesOn, storeVars, envVars, historyVars, Present
<1> QED BY <1>3, <1>4, <1>5

LEMMA DeliverDoes ==
    ASSUME DeliveryInv, DeliverRecord PROVE WorkerDoes
<1>1. PICK result \in Results :
          /\ worker' = [worker EXCEPT !.pc = "commit", !.result = result]
          /\ accepted' \in {accepted, accepted \cup {<<worker.env, worker.rec.content>>}}
          /\ result = "delivered" => <<worker.env, worker.rec.content>> \in accepted'
  BY DEF DeliverRecord
<1>2. /\ worker.pc = "send" /\ sends' = [sends EXCEPT ![worker.env] = @ + 1]
      /\ UNCHANGED <<storeVars, reissuer, events, contexts, envVars, resets, fresh>>
  BY DEF DeliverRecord
<1>3. /\ worker'.pc = "commit" /\ worker'.env = worker.env /\ worker'.rec = worker.rec
      /\ worker'.result = result
  BY <1>1 DEF DeliveryInv, DeliveryTypeOK, WorkerTypeOK
<1> QED BY <1>1, <1>2, <1>3 DEF WorkerDoes, Sends, storeVars, envVars

LEMMA CommitDoes ==
    ASSUME DeliveryInv, CommitResult PROVE WorkerDoes
<1>1. InFlight /\ worker.pc = "commit"
  BY DEF CommitResult, InFlight
<1>2. /\ worker.rec \in DeliveryOutboxRecord /\ worker.result \in Results /\ worker.now \in Int
  BY <1>1, DeliveryBoundsAssumption DEF DeliveryInv, DeliveryTypeOK, WorkerTypeOK
<1>3. PICK rec : rec = Outcome(worker.rec, worker.result)
  OBVIOUS
<1>4. /\ rec \in DeliveryOutboxRecord /\ rec.seq = worker.rec.seq /\ rec.content = worker.rec.content
      /\ rec.attempt = worker.rec.attempt + 1
      /\ rec.status \in {"delivered", "retrying", "delivery_failed"}
      /\ rec.status = "delivered" => worker.result = "delivered"
      /\ rec.status = "retrying" => worker.rec.attempt + 1 < MaxAttempts
  BY <1>2, <1>3, OutcomeIsARecord
<1>5. /\ UpdateDeliveryRecord(worker.env, rec)
      /\ Working(worker.env, rec, "record") \/ NextPick
      /\ UNCHANGED <<reissuer, events, contexts, envVars, historyVars>>
  BY <1>3 DEF CommitResult
<1>6. /\ \A f \in Envelopes \ {worker.env} : outbox'[f] = outbox[f]
      /\ outbox'[worker.env] = rec /\ outbox'[worker.env] # NoRecord
  BY <1>1, <1>4, <1>5, WriteBackWrites
<1>7. worker'.pc \in {"pick", "record"}
  BY <1>5 DEF Working, NextPick, DeliveryInv, DeliveryTypeOK, WorkerTypeOK
<1> QED BY <1>1, <1>4, <1>5, <1>6, <1>7 DEF WorkerDoes, Commits, envVars, historyVars

LEMMA WorkerStepDoes == ASSUME DeliveryInv, WorkerStep PROVE WorkerDoes
<1>1. CASE BeginDrain
  <2>1. worker.pc = "idle" /\ worker'.pc = "pick"
        /\ UNCHANGED <<storeVars, reissuer, events, contexts, envVars, historyVars>>
    BY <1>1 DEF BeginDrain, DeliveryInv, DeliveryTypeOK, WorkerTypeOK
  <2> QED BY <2>1 DEF WorkerDoes, Drops, storeVars, envVars, historyVars
<1>2. CASE RecordDeliveryResult
  BY <1>2, EventDoes DEF RecordDeliveryResult
<1>3. CASE RecordRequeued
  BY <1>3, EventDoes DEF RecordRequeued
<1> QED BY <1>1, <1>2, <1>3, PickDoes, GiveUpDoes, DeferDoes, RouteDoes, AnnounceDoes, DeliverDoes,
           CommitDoes DEF WorkerStep
LEMMA StepIsOneOf ==
    ASSUME DeliveryInv, [DeliveryNext]_deliveryVars PROVE Undisturbed \/ WorkerDoes
<1>1. OtherStep \/ WorkerStep
  BY DEF DeliveryNext, OtherStep
<1> QED BY <1>1, OthersChange, WorkerStepDoes

(***************************************************************************)
(* A delivered record holds what was accepted: the copy the worker writes  *)
(* back is the one it sent, and no other step makes a record delivered.    *)
(***************************************************************************)
HandlesWaiting ==
    worker.pc \in {"picked", "routed", "send", "commit"} =>
        worker.rec.status \in {"pending", "retrying"}

ResultWasAccepted ==
    worker.pc = "commit" /\ worker.result = "delivered" =>
        <<worker.env, worker.rec.content>> \in accepted

AcceptedInv == DeliveredWasAccepted /\ ResultWasAccepted /\ HandlesWaiting

LEMMA AcceptedStep ==
    ASSUME DeliveryInv, AcceptedInv, [DeliveryNext]_deliveryVars PROVE AcceptedInv'
<1> USE DEF AcceptedInv
<1>1. CASE Undisturbed
  <2>1. DeliveredWasAccepted'
    <3> SUFFICES ASSUME NEW e \in Envelopes, Present(e)', outbox'[e].status = "delivered"
                 PROVE  <<e, outbox'[e].content>> \in accepted'
      BY DEF DeliveredWasAccepted
    <3>1. outbox'[e] = outbox[e] /\ accepted' = accepted
      BY <1>1 DEF Undisturbed, Same, Starts, StartsAgain, Pending, Superseded
    <3> QED BY <3>1 DEF DeliveredWasAccepted, Present
  <2>2. (worker' = worker \/ worker' = IdleWorker) /\ accepted' = accepted
    BY <1>1 DEF Undisturbed
  <2>3. ResultWasAccepted' /\ HandlesWaiting'
    BY <2>2 DEF ResultWasAccepted, HandlesWaiting, IdleWorker
  <2> QED BY <2>1, <2>3
<1>2. CASE WorkerDoes
  <2>1. \A f \in Envelopes \ {worker.env} : outbox'[f] = outbox[f]
    BY <1>2 DEF WorkerDoes
  <2>2. accepted \subseteq accepted'
    BY <1>2 DEF WorkerDoes, Drops, Picks, GivesUp, Defers, GoesOn, Sends, Commits
  <2>3. \/ outbox'[worker.env] = outbox[worker.env]
        \/ outbox'[worker.env].status # "delivered"
        \/ <<worker.env, outbox'[worker.env].content>> \in accepted'
    <3>1. CASE Drops \/ Picks \/ Sends
      BY <3>1 DEF Drops, Picks, Sends
    <3>2. CASE GivesUp \/ Defers
      BY <3>2 DEF GivesUp, Defers
    <3>3. CASE GoesOn
      BY <3>3 DEF GoesOn, HandlesWaiting
    <3>4. CASE Commits
      BY <3>4 DEF Commits, ResultWasAccepted
    <3> QED BY <1>2, <3>1, <3>2, <3>3, <3>4 DEF WorkerDoes
  <2>4. DeliveredWasAccepted'
    <3> SUFFICES ASSUME NEW e \in Envelopes, Present(e)', outbox'[e].status = "delivered"
                 PROVE  <<e, outbox'[e].content>> \in accepted'
      BY DEF DeliveredWasAccepted
    <3>1. outbox'[e] = outbox[e] => <<e, outbox'[e].content>> \in accepted'
      BY <2>2 DEF DeliveredWasAccepted, Present
    <3> QED BY <2>1, <2>3, <3>1
  <2>5. HandlesWaiting'
    <3>1. CASE Drops \/ GivesUp \/ Defers \/ Commits
      BY <3>1 DEF Drops, GivesUp, Defers, Commits, HandlesWaiting
    <3>2. CASE Picks
      BY <3>2 DEF Picks, NextReady, Waiting, HandlesWaiting
    <3>3. CASE GoesOn \/ Sends
      BY <3>3 DEF GoesOn, Sends, HandlesWaiting
    <3> QED BY <1>2, <3>1, <3>2, <3>3 DEF WorkerDoes
  <2>6. ResultWasAccepted'
    <3>1. CASE worker'.pc # "commit"
      BY <3>1 DEF ResultWasAccepted
    <3>2. CASE Sends
      BY <3>2 DEF Sends, ResultWasAccepted
    <3> QED BY <1>2, <3>1, <3>2 DEF WorkerDoes, Drops, Picks, GivesUp, Defers, GoesOn, Commits
  <2> QED BY <2>4, <2>5, <2>6
<1> QED BY <1>1, <1>2, StepIsOneOf

\* DeliveryWorker writes the delivered status only into the copy it sent, and
\* neither a refresh in between nor another store operation turns that into a
\* record of something else.
THEOREM DeliveredMeansAccepted == DeliverySpec => []DeliveredWasAccepted
<1>1. DeliveryInit => AcceptedInv
  <2> SUFFICES ASSUME DeliveryInit PROVE AcceptedInv
    OBVIOUS
  <2>1. worker = IdleWorker /\ \A e \in Envelopes : ~Present(e)
    BY DEF DeliveryInit, Present
  <2> QED BY <2>1 DEF AcceptedInv, DeliveredWasAccepted, ResultWasAccepted, HandlesWaiting, IdleWorker
<1>2. DeliveryInv /\ AcceptedInv /\ [DeliveryNext]_deliveryVars => AcceptedInv'
  BY AcceptedStep
<1>3. AcceptedInv => DeliveredWasAccepted
  BY DEF AcceptedInv
<1> QED BY <1>1, <1>2, <1>3, DeliveryInvariance, PTL DEF DeliverySpec

(***************************************************************************)
(* The order of delivery in a session: what _next_ready_record found to be *)
(* next stays next among the records that nobody has touched since.        *)
(***************************************************************************)
LEMMA InOrderStep ==
    ASSUME DeliveryInv, InOrderUnlessDeferred, [DeliveryNext]_deliveryVars
    PROVE  InOrderUnlessDeferred'
<1> SUFFICES ASSUME worker'.pc \in {"picked", "routed", "send"},
                    NEW f \in Envelopes \ (fresh' \cup {worker'.env}), Waiting(f)',
                    Session[f] = Session[worker'.env],
                    \/ outbox'[f].snapshot < worker'.rec.snapshot
                    \/ outbox'[f].snapshot = worker'.rec.snapshot /\ outbox'[f].seq < worker'.rec.seq
             PROVE  outbox'[f].failure = "manual" /\ ~(outbox'[f].retry_at <= worker'.now)
  BY DEF InOrderUnlessDeferred, Due
<1>1. CASE Undisturbed
  <2>1. worker' = worker /\ fresh \subseteq fresh'
    BY <1>1 DEF Undisturbed, IdleWorker
  <2>2. outbox'[f] = outbox[f]
    BY <1>1 DEF Undisturbed, Same, Starts, StartsAgain, Pending, Superseded, Waiting
  <2> QED BY <2>1, <2>2 DEF InOrderUnlessDeferred, Due, Waiting, Present
<1>2. CASE WorkerDoes
  <2>1. CASE Picks
    <3>1. PICK e \in Envelopes : /\ NextReady(e, worker.now) /\ worker'.env = e
                                 /\ worker'.rec = outbox[e] /\ worker'.now = worker.now
      BY <2>1 DEF Picks
    <3>2. outbox' = outbox
      BY <2>1 DEF Picks
    <3>3. Waiting(f) /\ Before(f, e)
      BY <3>1, <3>2 DEF Waiting, Present, Before
    <3> QED BY <3>1, <3>2, <3>3 DEF NextReady, Due
  <2>2. CASE GoesOn
    <3>1. /\ worker.pc \in {"picked", "routed"} /\ fresh' = fresh
          /\ worker'.env = worker.env /\ worker'.rec = worker.rec /\ worker'.now = worker.now
      BY <2>2 DEF GoesOn
    <3>2. outbox'[f] = outbox[f]
      BY <1>2, <3>1 DEF WorkerDoes
    <3> QED BY <3>1, <3>2 DEF InOrderUnlessDeferred, Due, Waiting, Present
  <2> QED BY <1>2, <2>1, <2>2 DEF WorkerDoes, Drops, GivesUp, Defers, Sends, Commits
<1> QED BY <1>1, <1>2, StepIsOneOf

\* _next_ready_record: while a record is handled, no older one of its session
\* that was there when it was picked is passed over, except a notification
\* deferred for local manual activity.
THEOREM DeliveredInOrder == DeliverySpec => []InOrderUnlessDeferred
<1>1. DeliveryInit => InOrderUnlessDeferred
  BY DEF DeliveryInit, InOrderUnlessDeferred, IdleWorker
<1>2. DeliveryInv /\ InOrderUnlessDeferred /\ [DeliveryNext]_deliveryVars => InOrderUnlessDeferred'
  BY InOrderStep
<1> QED BY <1>1, <1>2, DeliveryInvariance, PTL DEF DeliverySpec

(***************************************************************************)
(* A superseded approval.                                                  *)
(***************************************************************************)
\* supersede_records is undone in one way only: _refresh_existing_record and
\* requeue_transport_failures leave a superseded approval alone, and a recovery
\* never writes an envelope that is there; only the worker overwrites it with
\* the copy it is handling.
THEOREM SupersededStays == DeliverySpec => OnlyInFlightRevives
<1>1. DeliveryInv /\ [DeliveryNext]_deliveryVars =>
          [\A e \in Envelopes :
              (/\ Kind[e] = "approval" /\ Present(e)
               /\ outbox[e].status = "superseded" /\ outbox'[e].status # "superseded")
              => worker.env = e]_deliveryVars
  <2> SUFFICES ASSUME DeliveryInv, [DeliveryNext]_deliveryVars, NEW e \in Envelopes,
                      Kind[e] = "approval", Present(e), outbox[e].status = "superseded",
                      outbox'[e].status # "superseded"
               PROVE  worker.env = e
    OBVIOUS
  <2>1. CASE Undisturbed
    BY <2>1 DEF Undisturbed, Same, Starts, StartsAgain, Superseded
  <2>2. CASE WorkerDoes
    BY <2>2 DEF WorkerDoes
  <2> QED BY <2>1, <2>2, StepIsOneOf
<1> QED BY <1>1, DeliveryInvariance, PTL DEF DeliverySpec, OnlyInFlightRevives
(***************************************************************************)
(* The calls of the delivery client.  A record waits with fewer attempts   *)
(* than allowed, and the calls made for it are at most those its attempts, *)
(* its resets and the faults account for, but for the one whose result the *)
(* worker is about to write back.                                          *)
(***************************************************************************)
Committing(e) == IF worker.pc = "commit" /\ worker.env = e THEN 1 ELSE 0
Spent(e) == MaxAttempts * resets[e] + faults

WithinBudget(e) ==
    /\ sends[e] <= Spent(e) + MaxAttempts
    /\ ~Present(e) => sends[e] = 0
    /\ Waiting(e) => /\ outbox[e].attempt < MaxAttempts
                     /\ sends[e] <= Spent(e) + outbox[e].attempt + Committing(e)

CopyWithinBudget ==
    worker.pc \in {"picked", "routed", "send", "commit"} =>
        /\ worker.rec.attempt < MaxAttempts
        /\ sends[worker.env] <= Spent(worker.env) + worker.rec.attempt + Committing(worker.env)

BudgetInv == (\A e \in Envelopes : WithinBudget(e)) /\ CopyWithinBudget

LEMMA BudgetTypes ==
    ASSUME DeliveryInv, NEW e \in Envelopes
    PROVE  /\ sends[e] \in Nat /\ resets[e] \in Nat /\ faults \in Nat /\ Spent(e) \in Nat
           /\ MaxAttempts \in Nat /\ MaxAttempts > 0 /\ Committing(e) \in {0, 1}
           /\ Present(e) => outbox[e].attempt \in Nat
<1>1. sends[e] \in Nat /\ resets[e] \in Nat /\ faults \in Nat
  BY DeliveryBoundsAssumption DEF DeliveryInv, DeliveryTypeOK, HistoryTypeOK
<1>2. Present(e) => outbox[e].attempt \in Nat
  BY RecordIsPresent DEF DeliveryInv, DeliveryTypeOK, DeliveryOutboxRecord
<1>3. MaxAttempts \in Nat /\ MaxAttempts > 0
  BY AttemptsAssumption
<1>4. MaxAttempts * resets[e] \in Nat
  BY <1>1, <1>3
<1> QED BY <1>1, <1>2, <1>3, <1>4 DEF Spent, Committing

\* The account of an envelope after a step that does not reset it.
LEMMA SpentStays ==
    ASSUME NEW e, resets'[e] = resets[e], faults' = faults PROVE Spent(e)' = Spent(e)
  BY DEF Spent

LEMMA SpentGrows ==
    ASSUME DeliveryInv, NEW e \in Envelopes, faults' = faults \/ faults' = faults + 1
    PROVE  /\ resets'[e] = resets[e] => Spent(e)' = Spent(e) + (faults' - faults)
           /\ resets'[e] = resets[e] + 1 =>
                 Spent(e)' = Spent(e) + MaxAttempts + (faults' - faults)
<1>1. PICK m \in Nat, r \in Nat, n \in Nat : m = MaxAttempts /\ r = resets[e] /\ n = faults
  BY BudgetTypes
<1>2. m * (r + 1) = m * r + m
  OBVIOUS
<1>3. m * r \in Nat
  OBVIOUS
<1>4. Spent(e) = m * r + n
  BY <1>1 DEF Spent
<1>5. ASSUME resets'[e] = resets[e] PROVE Spent(e)' = Spent(e) + (faults' - faults)
  <2>1. Spent(e)' = m * r + faults'
    BY <1>1, <1>5 DEF Spent
  <2> QED BY <1>1, <1>3, <1>4, <2>1
<1>6. ASSUME resets'[e] = resets[e] + 1
      PROVE  Spent(e)' = Spent(e) + MaxAttempts + (faults' - faults)
  <2>1. Spent(e)' = m * (r + 1) + faults'
    BY <1>1, <1>6 DEF Spent
  <2> QED BY <1>1, <1>2, <1>3, <1>4, <2>1
<1> QED BY <1>5, <1>6

LEMMA BudgetOthers ==
    ASSUME DeliveryInv, BudgetInv, Undisturbed PROVE BudgetInv'
<1>1. /\ sends' = sends /\ (faults' = faults \/ faults' = faults + 1)
      /\ \/ worker' = worker
         \/ worker' = IdleWorker /\ faults' = faults + 1
  BY DEF Undisturbed
<1>2. ASSUME NEW e \in Envelopes
      PROVE  /\ Spent(e) + Committing(e) <= Spent(e)' + Committing(e)'
             /\ resets'[e] = resets[e] + 1 => Spent(e) + MaxAttempts <= Spent(e)'
             /\ Spent(e) <= Spent(e)' /\ Spent(e)' \in Nat /\ Committing(e)' \in {0, 1}
             /\ resets'[e] = resets[e] \/ resets'[e] = resets[e] + 1
  <2>1. resets'[e] = resets[e] \/ resets'[e] = resets[e] + 1
    BY DEF Undisturbed, Same, Starts, StartsAgain, Superseded
  <2>2. Committing(e)' \in {0, 1} /\ (Committing(e)' = Committing(e) \/ faults' = faults + 1)
    BY <1>1 DEF Committing
  <2>3. Spent(e) \in Nat /\ faults \in Nat /\ MaxAttempts \in Nat /\ Committing(e) \in {0, 1}
    BY BudgetTypes
  <2>4. /\ resets'[e] = resets[e] => Spent(e)' = Spent(e) + (faults' - faults)
        /\ resets'[e] = resets[e] + 1 => Spent(e)' = Spent(e) + MaxAttempts + (faults' - faults)
    BY <1>1, SpentGrows
  <2> QED BY <1>1, <2>1, <2>2, <2>3, <2>4
<1>3. ASSUME NEW e \in Envelopes PROVE WithinBudget(e)'
  <2>1. PICK n \in Nat, s \in Nat, s1 \in Nat, c \in {0, 1}, c1 \in {0, 1}, m \in Nat :
            /\ n = sends[e] /\ s = Spent(e) /\ s1 = Spent(e)' /\ c = Committing(e)
            /\ c1 = Committing(e)' /\ m = MaxAttempts /\ m > 0
    BY <1>2, BudgetTypes
  <2>2. /\ s + c <= s1 + c1 /\ s <= s1
        /\ resets'[e] = resets[e] + 1 => s + m <= s1
    BY <1>2, <2>1
  <2>3. /\ n <= s + m /\ (~Present(e) => n = 0)
        /\ Waiting(e) => outbox[e].attempt < m /\ n <= s + outbox[e].attempt + c
    BY <2>1 DEF BudgetInv, WithinBudget
  <2>4. sends'[e] = n
    BY <1>1, <2>1
  <2> SUFFICES /\ n <= s1 + m /\ (~Present(e)' => n = 0)
               /\ Waiting(e)' => outbox'[e].attempt < m /\ n <= s1 + outbox'[e].attempt + c1
    BY <2>1, <2>4 DEF WithinBudget
  <2>5. n <= s1 + m
    BY <2>2, <2>3
  <2>6. CASE Same(e)
    <3>1. (Present(e)' <=> Present(e)) /\ (Waiting(e)' <=> Waiting(e)) /\ outbox'[e] = outbox[e]
      BY <2>6 DEF Same, Present, Waiting
    <3>2. ASSUME Waiting(e) PROVE outbox[e].attempt < m /\ n <= s1 + outbox[e].attempt + c1
      <4>1. PICK k \in Nat : k = outbox[e].attempt
        BY <3>2, BudgetTypes DEF Waiting
      <4>2. k < m /\ n <= s + k + c
        BY <2>3, <3>2, <4>1
      <4>3. n <= s1 + k + c1
        BY <2>2, <4>2
      <4> QED BY <4>1, <4>2, <4>3
    <3> QED BY <2>3, <2>5, <3>1, <3>2
  <2>7. CASE Starts(e)
    <3>1. n = 0 /\ outbox'[e].attempt = 0
      BY <2>3, <2>7 DEF Starts, Pending
    <3> QED BY <2>1, <2>5, <3>1
  <2>8. CASE StartsAgain(e)
    <3>1. Present(e)' /\ resets'[e] = resets[e] + 1 /\ outbox'[e].attempt = 0
      BY <2>8 DEF StartsAgain, Pending
    <3>2. n <= s1 + 0 + c1
      BY <2>2, <2>3, <3>1
    <3> QED BY <2>1, <2>5, <3>1, <3>2
  <2>9. CASE Superseded(e)
    BY <2>5, <2>9 DEF Superseded, Waiting
  <2> QED BY <2>6, <2>7, <2>8, <2>9 DEF Undisturbed
<1>4. CopyWithinBudget'
  <2> SUFFICES ASSUME worker'.pc \in {"picked", "routed", "send", "commit"}
               PROVE  /\ worker'.rec.attempt < MaxAttempts
                      /\ sends'[worker'.env] <=
                            Spent(worker.env)' + worker'.rec.attempt + Committing(worker.env)'
    BY DEF CopyWithinBudget
  <2>1. worker' = worker
    BY <1>1 DEF IdleWorker
  <2>2. worker.pc \in {"picked", "routed", "send", "commit"}
    BY <2>1
  <2>3. PICK e \in Envelopes, k \in Nat : e = worker.env /\ k = worker.rec.attempt
    BY <2>2, WorkerIsTyped DEF DeliveryOutboxRecord
  <2>4. k < MaxAttempts /\ sends[e] <= Spent(e) + k + Committing(e)
    BY <2>2, <2>3 DEF BudgetInv, CopyWithinBudget
  <2>5. PICK n \in Nat, s \in Nat, s1 \in Nat, c \in {0, 1}, c1 \in {0, 1} :
            /\ n = sends[e] /\ s = Spent(e) /\ s1 = Spent(e)' /\ c = Committing(e)
            /\ c1 = Committing(e)' /\ s + c <= s1 + c1
    BY <1>2, BudgetTypes
  <2>6. n <= s1 + k + c1
    BY <2>4, <2>5
  <2>7. /\ sends'[worker'.env] = n /\ worker'.rec.attempt = k
        /\ Spent(worker.env)' = s1 /\ Committing(worker.env)' = c1
    BY <1>1, <2>1, <2>3, <2>5 DEF Spent, Committing
  <2> QED BY <2>4, <2>6, <2>7
<1> QED BY <1>3, <1>4 DEF BudgetInv
LEMMA BudgetWorker ==
    ASSUME DeliveryInv, BudgetInv, WorkerDoes PROVE BudgetInv'
<1>1. /\ \A f \in Envelopes \ {worker.env} : outbox'[f] = outbox[f]
      /\ resets' = resets /\ faults' = faults
      /\ Drops \/ Picks \/ GivesUp \/ Defers \/ GoesOn \/ Sends \/ Commits
  BY DEF WorkerDoes
<1>2. \A e \in Envelopes : Spent(e)' = Spent(e)
  BY <1>1 DEF Spent
<1>3. Sends \/ sends' = sends
  BY <1>1 DEF Drops, Picks, GivesUp, Defers, GoesOn, Commits
<1>4. ASSUME NEW e \in Envelopes PROVE WithinBudget(e)'
  <2>1. PICK n \in Nat, s \in Nat, c \in {0, 1}, c1 \in {0, 1}, m \in Nat :
            /\ n = sends[e] /\ s = Spent(e) /\ c = Committing(e) /\ c1 = Committing(e)'
            /\ m = MaxAttempts /\ m > 0
    <3>1. Committing(e)' \in {0, 1}
      BY DEF Committing
    <3> QED BY <3>1, BudgetTypes
  <2>2. /\ n <= s + m /\ (~Present(e) => n = 0)
        /\ Waiting(e) => outbox[e].attempt < m /\ n <= s + outbox[e].attempt + c
    BY <2>1 DEF BudgetInv, WithinBudget
  <2>3. ASSUME outbox'[e] = outbox[e], sends'[e] = n, c1 = c PROVE WithinBudget(e)'
    <3>1. (Present(e)' <=> Present(e)) /\ (Waiting(e)' <=> Waiting(e))
      BY <2>3 DEF Present, Waiting
    <3> QED BY <1>2, <2>1, <2>2, <2>3, <3>1 DEF WithinBudget
  <2>4. CASE Drops \/ Picks
    <3>1. outbox'[e] = outbox[e] /\ sends'[e] = n /\ worker.pc # "commit" /\ worker'.pc # "commit"
      BY <2>1, <2>4 DEF Drops, Picks
    <3>2. c = 0 /\ c1 = 0
      BY <2>1, <3>1 DEF Committing
    <3> QED BY <2>3, <3>1, <3>2
  <2>5. CASE e # worker.env /\ ~(Drops \/ Picks)
    <3>1. c = 0
      BY <2>1, <2>5 DEF Committing
    <3>2. worker'.pc = "commit" => worker'.env = worker.env
      BY <1>1, <2>5 DEF GivesUp, Defers, GoesOn, Sends, Commits
    <3>3. c1 = 0
      BY <2>1, <2>5, <3>2 DEF Committing
    <3>4. outbox'[e] = outbox[e]
      BY <1>1, <2>5
    <3>5. sends'[e] = n
      BY <1>3, <2>1, <2>5 DEF Sends, DeliveryInv, DeliveryTypeOK, HistoryTypeOK
    <3> QED BY <2>3, <3>1, <3>3, <3>4, <3>5
  <2>6. CASE e = worker.env /\ ~(Drops \/ Picks)
    <3>1. /\ worker.pc \in {"picked", "routed", "send", "commit"}
          /\ worker'.pc = "commit" => Sends
      BY <1>1, <2>6 DEF GivesUp, Defers, GoesOn, Sends, Commits
    <3>2. PICK k \in Nat : k = worker.rec.attempt /\ Present(e)
      BY <2>6, <3>1, WorkerIsTyped DEF DeliveryOutboxRecord
    <3>3. k < m /\ n <= s + k + c
      BY <2>1, <2>6, <3>1, <3>2 DEF BudgetInv, CopyWithinBudget
    <3>4. worker.pc # "commit" => c = 0
      BY <2>1 DEF Committing
    <3>5. worker'.pc # "commit" => c1 = 0
      BY <2>1 DEF Committing
    <3>6. CASE GivesUp
      <4>1. sends'[e] = n /\ Present(e)' /\ ~Waiting(e)'
        BY <2>1, <2>6, <3>6 DEF GivesUp, Present, Waiting
      <4> QED BY <1>2, <2>1, <2>2, <4>1 DEF WithinBudget
    <3>7. ASSUME sends'[e] = n, c = 0, Present(e)', outbox'[e].attempt = k PROVE WithinBudget(e)'
      <4>1. n <= s + k + c1
        BY <3>3, <3>7
      <4> QED BY <1>2, <2>1, <2>2, <3>3, <3>7, <4>1 DEF WithinBudget
    <3>8. CASE Defers
      <4>1. sends'[e] = n /\ Present(e)' /\ outbox'[e].attempt = k /\ worker.pc = "picked"
        BY <2>1, <2>6, <3>2, <3>8 DEF Defers, Present
      <4> QED BY <3>4, <3>7, <4>1
    <3>9. CASE GoesOn
      <4>1. sends'[e] = n /\ Present(e)' /\ worker.pc # "commit" /\ worker'.pc # "commit"
        BY <2>1, <2>6, <3>9 DEF GoesOn, Present
      <4>2. outbox'[e] = outbox[e] \/ outbox'[e].attempt = k
        BY <2>6, <3>2, <3>9 DEF GoesOn
      <4> QED BY <2>3, <3>4, <3>5, <3>7, <4>1, <4>2
    <3>10. CASE Sends
      <4>1. sends'[e] = n + 1 /\ outbox'[e] = outbox[e] /\ worker.pc = "send"
        BY <2>1, <2>6, <3>10 DEF Sends, DeliveryInv, DeliveryTypeOK, HistoryTypeOK
      <4>2. c = 0 /\ c1 = 1
        BY <2>1, <2>6, <3>4, <3>10, <4>1 DEF Sends, Committing
      <4>3. n + 1 <= s + m
        BY <3>3, <4>2
      <4>4. Present(e)' /\ (Waiting(e)' <=> Waiting(e))
        BY <3>2, <4>1 DEF Present, Waiting
      <4>5. ASSUME Waiting(e) PROVE n + 1 <= s + outbox[e].attempt + 1
        <5>1. PICK j \in Nat : j = outbox[e].attempt
          BY <4>5, BudgetTypes DEF Waiting
        <5>2. n <= s + j + c
          BY <2>2, <4>5, <5>1
        <5> QED BY <4>2, <5>1, <5>2
      <4> QED BY <1>2, <2>1, <2>2, <4>1, <4>2, <4>3, <4>4, <4>5 DEF WithinBudget
    <3>11. CASE Commits
      <4>1. /\ sends'[e] = n /\ Present(e)' /\ worker'.pc # "commit"
            /\ outbox'[e].attempt = k + 1
            /\ outbox'[e].status \in {"delivered", "retrying", "delivery_failed"}
            /\ outbox'[e].status = "retrying" => k + 1 < m
        BY <2>1, <2>6, <3>2, <3>11 DEF Commits, Present
      <4>2. Waiting(e)' => k + 1 < m
        BY <4>1 DEF Waiting
      <4>3. n <= s + (k + 1) + c1
        BY <3>3, <3>5, <4>1
      <4> QED BY <1>2, <2>1, <2>2, <4>1, <4>2, <4>3 DEF WithinBudget
    <3> QED BY <1>1, <2>6, <3>6, <3>8, <3>9, <3>10, <3>11
  <2> QED BY <2>4, <2>5, <2>6
<1>5. CopyWithinBudget'
  <2>1. CASE Drops \/ GivesUp \/ Defers \/ Commits
    BY <2>1 DEF Drops, GivesUp, Defers, Commits, CopyWithinBudget
  <2>2. CASE Picks
    <3>1. PICK e \in Envelopes : /\ Waiting(e) /\ worker'.env = e /\ worker'.rec = outbox[e]
      BY <2>2 DEF Picks, NextReady
    <3>2. outbox' = outbox /\ Waiting(e)'
      BY <2>2, <3>1 DEF Picks, Waiting, Present
    <3>3. WithinBudget(e)'
      BY <1>4
    <3>4. /\ worker'.rec.attempt < MaxAttempts
          /\ sends'[e] <= Spent(e)' + worker'.rec.attempt + Committing(e)'
      BY <3>1, <3>2, <3>3 DEF WithinBudget
    <3>5. Spent(worker.env)' = Spent(e)' /\ Committing(worker.env)' = Committing(e)'
      BY <3>1 DEF Spent, Committing
    <3> QED BY <3>1, <3>4, <3>5 DEF CopyWithinBudget
  <2>3. CASE GoesOn \/ Sends
    <3>1. /\ worker.pc \in {"picked", "routed", "send"} /\ worker'.env = worker.env
          /\ worker'.rec = worker.rec
      BY <2>3 DEF GoesOn, Sends
    <3>2. PICK e \in Envelopes, k \in Nat : e = worker.env /\ k = worker.rec.attempt
      BY <3>1, WorkerIsTyped DEF DeliveryOutboxRecord
    <3>3. PICK n \in Nat, s \in Nat : n = sends[e] /\ s = Spent(e)
      BY BudgetTypes
    <3>4. Committing(e) = 0
      BY <3>1 DEF Committing
    <3>5. k < MaxAttempts /\ n <= s + k
      BY <3>1, <3>2, <3>3, <3>4 DEF BudgetInv, CopyWithinBudget
    <3>6. \/ sends'[e] = n
          \/ sends'[e] = n + 1 /\ Committing(e)' = 1
      BY <2>3, <3>1, <3>2, <3>3
         DEF GoesOn, Sends, Committing, DeliveryInv, DeliveryTypeOK, HistoryTypeOK
    <3>7. Committing(e)' \in {0, 1}
      BY DEF Committing
    <3>8. sends'[e] <= s + k + Committing(e)'
      BY <3>5, <3>6, <3>7
    <3>9. Spent(worker.env)' = s /\ Committing(worker.env)' = Committing(e)'
      BY <1>2, <3>1, <3>2, <3>3 DEF Spent, Committing
    <3> QED BY <3>1, <3>2, <3>5, <3>8, <3>9 DEF CopyWithinBudget
  <2> QED BY <1>1, <2>1, <2>2, <2>3
<1> QED BY <1>4, <1>5 DEF BudgetInv

\* The retry counter of DeliveryWorker bounds the calls of the client whoever
\* overwrites it: MaxAttempts for the envelope and again for each refresh or
\* requeue, and one more for each result lost in a fault.
THEOREM CallsAreBounded == DeliverySpec => []SendsWithinBudget
<1>1. DeliveryInit => BudgetInv
  <2> SUFFICES ASSUME DeliveryInit PROVE BudgetInv
    OBVIOUS
  <2>1. ASSUME NEW e \in Envelopes PROVE WithinBudget(e)
    <3>1. sends[e] = 0 /\ ~Present(e) /\ ~Waiting(e)
      BY DEF DeliveryInit, Present, Waiting
    <3>2. Spent(e) \in Nat /\ MaxAttempts \in Nat
      BY InitiallyInOrder, BudgetTypes
    <3>3. sends[e] <= Spent(e) + MaxAttempts
      BY <3>1, <3>2
    <3> QED BY <3>1, <3>3 DEF WithinBudget
  <2>2. CopyWithinBudget
    BY DEF DeliveryInit, IdleWorker, CopyWithinBudget
  <2> QED BY <2>1, <2>2 DEF BudgetInv
<1>2. DeliveryInv /\ BudgetInv /\ [DeliveryNext]_deliveryVars => BudgetInv'
  BY StepIsOneOf, BudgetOthers, BudgetWorker
<1>3. DeliveryInv /\ BudgetInv => SendsWithinBudget
  <2> SUFFICES ASSUME DeliveryInv, BudgetInv, NEW e \in Envelopes
               PROVE  sends[e] <= MaxAttempts * (1 + resets[e]) + faults
    BY DEF SendsWithinBudget
  <2>1. PICK m \in Nat, r \in Nat, n \in Nat : m = MaxAttempts /\ r = resets[e] /\ n = faults
    BY BudgetTypes
  <2>2. m * (1 + r) = m * r + m /\ m * r \in Nat
    OBVIOUS
  <2>3. sends[e] <= (m * r + n) + m
    BY <2>1 DEF BudgetInv, WithinBudget, Spent
  <2>4. sends[e] \in Nat
    BY BudgetTypes
  <2>5. sends[e] <= m * (1 + r) + n
    BY <2>2, <2>3, <2>4
  <2> QED BY <2>1, <2>5
<1> QED BY <1>1, <1>2, <1>3, DeliveryInvariance, PTL DEF DeliverySpec

=============================================================================
