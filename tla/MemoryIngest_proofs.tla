------------------------- MODULE MemoryIngest_proofs -------------------------
(***************************************************************************)
(* Proofs about MemoryIngest, for any events, drains, numbers of attempts  *)
(* and bounds.                                                             *)
(*                                                                         *)
(* The queue and its file are related by very little: the file is some     *)
(* earlier state of the queue.  What carries the proofs is that a drain    *)
(* keeps what it knows of its event (archived or not, which attempt) and   *)
(* that a record only ever becomes processed in such a drain's hands.      *)
(***************************************************************************)
EXTENDS MemoryIngest, FiniteSetTheorems, TLAPS

At(d) == drain[d].pc \notin {"claim", "done"}

\* A drain at work has a queued event in hand, which is in the file as well.
Holds(d) ==
    /\ At(d) => /\ drain[d].env \in Events /\ Queued(drain[d].env)
                /\ disk[drain[d].env] # NoRecord
    /\ ~At(d) => drain[d].env = NoRecord
    /\ drain[d].pc = "goal" => drain[d].env \in GoalEvents
    /\ drain[d].pc \in {"goal", "processed"} => drain[d].env \in archive

DrainsHold == \A d \in Drains : Holds(d)
QueueIsRecorded == \A e \in Events : Queued(e) => e \in recorded
FileIsOlder == \A e \in Events : disk[e] # NoRecord => Queued(e)

IngestInv ==
    /\ IngestTypeOK /\ DrainsHold /\ QueueIsRecorded /\ FileIsOlder /\ ProcessedIsArchived

DrainState == [pc : {"claim", "archive", "goal", "processed", "failed", "done"},
               env : Events \cup {NoRecord}, attempts : Nat, now : 0..MaxTime]

\* A write that succeeds or raises.
Writes(new) == queue' = new /\ (disk' = new \/ disk' = disk)

\* Nothing leaves the queue or its file, and nothing the archive.
Grows ==
    /\ \A e \in Events : /\ Queued(e) => queue'[e] # NoRecord
                         /\ disk[e] # NoRecord => disk'[e] # NoRecord
    /\ archive \subseteq archive' /\ recorded \subseteq recorded'

(***************************************************************************)
(* Records and drains.                                                     *)
(***************************************************************************)
LEMMA ClaimedIsARecord ==
    ASSUME NEW r \in MemoryIngestQueueRecord
    PROVE  /\ Claimed(r) \in MemoryIngestQueueRecord /\ Claimed(r).seq = r.seq
           /\ Claimed(r).status = "processing" /\ Claimed(r).attempts = r.attempts + 1
  BY DEF Claimed, MemoryIngestQueueRecord

LEMMA QueuedRecord ==
    ASSUME QueueTypeOK, NEW e \in Events, Queued(e)
    PROVE  /\ queue[e] \in MemoryIngestQueueRecord /\ queue[e].attempts \in Nat
           /\ queue[e].seq \in Nat \ {0}
  BY DEF QueueTypeOK, Queued, MemoryIngestQueueRecord

LEMMA NoRecordIsNone ==
    NoRecord \notin MemoryIngestQueueRecord /\ NoRecord \notin Events
  BY NoRecordAssumption

LEMMA DrainMoves ==
    ASSUME DrainTypeOK, NEW d \in Drains, NEW v \in DrainState, drain' = [drain EXCEPT ![d] = v]
    PROVE  DrainTypeOK' /\ drain'[d] = v /\ \A x \in Drains \ {d} : drain'[x] = drain[x]
<1> USE DEF DrainTypeOK, DrainState
<1>1. drain \in [Drains -> DrainState]
  OBVIOUS
<1> HIDE DEF DrainState
<1>2. drain' \in [Drains -> DrainState] /\ drain'[d] = v
      /\ \A x \in Drains \ {d} : drain'[x] = drain[x]
  BY <1>1
<1> QED BY <1>2 DEF DrainState

LEMMA IdleDrainIsAState ==
    /\ IdleDrain \in DrainState /\ IdleDrain.env = NoRecord /\ IdleDrain.pc = "claim"
    /\ [IdleDrain EXCEPT !.pc = "done"] \in DrainState
    /\ [IdleDrain EXCEPT !.pc = "done"].env = NoRecord
    /\ [IdleDrain EXCEPT !.pc = "done"].pc = "done"
<1>1. 0 \in 0..MaxTime
  BY IngestBoundsAssumption
<1> QED BY <1>1 DEF IdleDrain, DrainState

LEMMA WriteWrites ==
    ASSUME NEW new, WriteOk(new) \/ WriteRaises(new), faults \in 0..MaxFaults
    PROVE  Writes(new) /\ faults' \in 0..MaxFaults
  BY IngestBoundsAssumption DEF WriteOk, WriteRaises, Fault, Writes

\* One record is written.
LEMMA OneWrite ==
    ASSUME IngestInv, NEW e \in Events, NEW rec \in MemoryIngestQueueRecord,
           Writes([queue EXCEPT ![e] = rec]), e \in recorded', recorded' = recorded,
           archive' = archive, rec.status = "processed" => e \in archive
    PROVE  /\ QueueTypeOK' /\ QueueIsRecorded' /\ FileIsOlder' /\ ProcessedIsArchived' /\ Grows
           /\ queue'[e] = rec /\ \A f \in Events \ {e} : queue'[f] = queue[f]
<1> USE DEF IngestInv, IngestTypeOK
<1>1. queue' = [queue EXCEPT ![e] = rec] /\ (disk' = queue' \/ disk' = disk)
  BY DEF Writes
<1>2. queue'[e] = rec /\ rec # NoRecord /\ \A f \in Events \ {e} : queue'[f] = queue[f]
  BY <1>1, NoRecordIsNone DEF QueueTypeOK
<1>3. QueueTypeOK'
  BY <1>1 DEF QueueTypeOK
<1>4. QueueIsRecorded'
  BY <1>2 DEF QueueIsRecorded, Queued
<1>5. Grows
  BY <1>1, <1>2 DEF Grows, Queued, FileIsOlder
<1>6. FileIsOlder'
  BY <1>1, <1>2 DEF FileIsOlder, Queued
<1>7. ProcessedIsArchived'
  BY <1>1, <1>2 DEF ProcessedIsArchived
<1> QED BY <1>2, <1>3, <1>4, <1>5, <1>6, <1>7

\* The other drains are as they were.
LEMMA OthersHold ==
    ASSUME DrainsHold, Grows, NEW d \in Drains, Holds(d)',
           \A x \in Drains \ {d} : drain'[x] = drain[x]
    PROVE  DrainsHold'
<1> SUFFICES ASSUME NEW x \in Drains, x # d PROVE Holds(x)'
  BY DEF DrainsHold
<1>1. Holds(x) /\ drain'[x] = drain[x]
  BY DEF DrainsHold
<1> QED BY <1>1 DEF Holds, At, Grows, Queued

LEMMA AllHold ==
    ASSUME DrainsHold, Grows, drain' = drain PROVE DrainsHold'
<1> SUFFICES ASSUME NEW x \in Drains PROVE Holds(x)'
  BY DEF DrainsHold
<1>1. Holds(x) /\ drain'[x] = drain[x]
  BY DEF DrainsHold
<1> QED BY <1>1 DEF Holds, At, Grows, Queued
(***************************************************************************)
(* The steps.                                                              *)
(***************************************************************************)
LEMMA RecordEventKeeps ==
    ASSUME IngestInv, NEW e \in Events, RecordEvent(e) PROVE IngestInv'
<1> USE DEF IngestInv, IngestTypeOK
<1>1. /\ recorded' = recorded \cup {e} /\ listening' = listening \cup {e}
      /\ UNCHANGED <<failures, queueVars, recovery, drain, hubVars, clock, faults, historyVars>>
  BY DEF RecordEvent
<1> USE DEF queueVars, hubVars, historyVars
<1>2. QueueTypeOK' /\ DrainTypeOK' /\ RecordingTypeOK' /\ HistoryTypeOK'
  BY <1>1 DEF QueueTypeOK, DrainTypeOK, RecordingTypeOK, HistoryTypeOK
<1>3. Grows /\ QueueIsRecorded' /\ FileIsOlder' /\ ProcessedIsArchived'
  BY <1>1 DEF Grows, QueueIsRecorded, FileIsOlder, ProcessedIsArchived, Queued
<1>4. DrainsHold'
  BY <1>1, <1>3, AllHold
<1> QED BY <1>2, <1>3, <1>4

LEMMA NextSeqIsANumber ==
    ASSUME QueueTypeOK PROVE NextQueueSeq \in Nat \ {0}
<1>1. IsFiniteSet({e \in Events : Queued(e)})
  BY EventsAssumption, FS_Subset
<1>2. Cardinality({e \in Events : Queued(e)}) \in Nat
  BY <1>1, FS_CardinalityType
<1> QED BY <1>2 DEF NextQueueSeq

\* The queue after enqueue_event.
LEMMA EnqueueWrites ==
    ASSUME IngestInv, NEW e \in Events, EnqueueEvent(e)
    PROVE  \/ UNCHANGED <<queueVars, faults>>
           \/ /\ ~Queued(e)
              /\ \E rec \in MemoryIngestQueueRecord :
                    /\ rec.status = "pending" /\ rec.attempts = 0 /\ rec.seq = NextQueueSeq
                    /\ \/ WriteOk([queue EXCEPT ![e] = rec])
                       \/ WriteRaises([queue EXCEPT ![e] = rec])
<1>1. PICK rec : rec = [seq |-> NextQueueSeq, status |-> "pending", attempts |-> 0, retry_at |-> 0]
  OBVIOUS
<1>2. /\ rec \in MemoryIngestQueueRecord /\ rec.status = "pending" /\ rec.attempts = 0
      /\ rec.seq = NextQueueSeq
  BY <1>1, NextSeqIsANumber DEF IngestInv, IngestTypeOK, MemoryIngestQueueRecord
<1>3. \/ UNCHANGED <<queueVars, faults>>
      \/ ~Queued(e) /\ WriteOk([queue EXCEPT ![e] = rec])
      \/ ~Queued(e) /\ WriteRaises([queue EXCEPT ![e] = rec])
  BY <1>1 DEF EnqueueEvent
<1> QED BY <1>2, <1>3

LEMMA EnqueueEventKeeps ==
    ASSUME IngestInv, NEW e \in Events, EnqueueEvent(e) PROVE IngestInv'
<1> USE DEF IngestInv, IngestTypeOK
<1>1. /\ e \in listening /\ listening' = listening \ {e}
      /\ failures' = failures \/ failures' = failures \cup {e}
      /\ UNCHANGED <<recorded, recovery, drain, hubVars, clock, historyVars>>
  BY DEF EnqueueEvent
<1>2. RecordingTypeOK' /\ DrainTypeOK'
  BY <1>1 DEF RecordingTypeOK, hubVars, DrainTypeOK
<1>3. e \in recorded /\ recorded' = recorded /\ archive' = archive
  BY <1>1 DEF RecordingTypeOK, hubVars
<1>4. faults \in 0..MaxFaults
  BY DEF HistoryTypeOK
<1>5. CASE UNCHANGED <<queueVars, faults>>
  <2>1. QueueTypeOK' /\ HistoryTypeOK'
    BY <1>1, <1>5 DEF QueueTypeOK, HistoryTypeOK, queueVars, historyVars
  <2>2. Grows /\ QueueIsRecorded' /\ FileIsOlder' /\ ProcessedIsArchived'
    BY <1>3, <1>5 DEF Grows, QueueIsRecorded, FileIsOlder, ProcessedIsArchived, Queued, queueVars
  <2>3. DrainsHold'
    BY <1>1, <2>2, AllHold
  <2> QED BY <1>2, <2>1, <2>2, <2>3
<1>6. ASSUME NEW rec \in MemoryIngestQueueRecord, rec.status = "pending",
             \/ WriteOk([queue EXCEPT ![e] = rec])
             \/ WriteRaises([queue EXCEPT ![e] = rec])
      PROVE  IngestInv'
  <2>1. Writes([queue EXCEPT ![e] = rec]) /\ faults' \in 0..MaxFaults
    BY <1>4, <1>6, WriteWrites
  <2>2. QueueTypeOK' /\ QueueIsRecorded' /\ FileIsOlder' /\ ProcessedIsArchived' /\ Grows
    BY <1>3, <1>6, <2>1, OneWrite
  <2>3. DrainsHold'
    BY <1>1, <2>2, AllHold
  <2>4. HistoryTypeOK'
    BY <1>1, <2>1 DEF HistoryTypeOK, historyVars
  <2> QED BY <1>2, <2>2, <2>3, <2>4
<1> QED BY <1>5, <1>6, EnqueueWrites

\* What claim_next does.
LEMMA ClaimWrites ==
    ASSUME IngestInv, NEW d \in Drains, NEW e \in Events, ClaimNext(d, e)
    PROVE  \E rec \in MemoryIngestQueueRecord :
              /\ Claimable(e) /\ queue[e] \in MemoryIngestQueueRecord /\ drain[d].pc = "claim"
              /\ rec.seq = queue[e].seq /\ rec.status = "processing"
              /\ rec.attempts = queue[e].attempts + 1
              /\ \/ /\ WriteOk([queue EXCEPT ![e] = rec])
                    /\ drain' = [drain EXCEPT ![d] = [pc |-> "archive", env |-> e,
                                                      attempts |-> rec.attempts, now |-> clock]]
                    /\ UNCHANGED abandoned
                 \/ /\ WriteRaises([queue EXCEPT ![e] = rec])
                    /\ DrainRaises(d) /\ UNCHANGED overlapped
                    /\ abandoned' = abandoned \cup {e}
<1>1. Claimable(e) /\ Queued(e) /\ drain[d].pc = "claim"
  BY DEF ClaimNext, Claimable
<1>2. PICK r \in MemoryIngestQueueRecord : r = queue[e]
  BY <1>1, QueuedRecord DEF IngestInv, IngestTypeOK
<1>3. PICK rec : rec = Claimed(r)
  OBVIOUS
<1>4. /\ rec \in MemoryIngestQueueRecord /\ rec.seq = r.seq
      /\ rec.status = "processing" /\ rec.attempts = r.attempts + 1
  BY <1>3, ClaimedIsARecord
<1>5. \/ /\ WriteOk([queue EXCEPT ![e] = rec])
         /\ drain' = [drain EXCEPT ![d] = [pc |-> "archive", env |-> e,
                                           attempts |-> rec.attempts, now |-> clock]]
         /\ UNCHANGED abandoned
      \/ /\ WriteRaises([queue EXCEPT ![e] = rec])
         /\ DrainRaises(d) /\ UNCHANGED overlapped
         /\ abandoned' = abandoned \cup {e}
  BY <1>2, <1>3 DEF ClaimNext
<1> QED BY <1>1, <1>2, <1>4, <1>5

\* Where a drain is left that has nothing in hand any more.
LEMMA DrainIsLeft ==
    ASSUME IngestInv, NEW d \in Drains, NextClaim(d) \/ DrainRaises(d)
    PROVE  /\ DrainTypeOK' /\ Holds(d)' /\ drain'[d].env = NoRecord
           /\ drain'[d].pc \in {"claim", "done"} /\ \A x \in Drains \ {d} : drain'[x] = drain[x]
<1>1. PICK v \in DrainState :
          /\ drain' = [drain EXCEPT ![d] = v] /\ v.env = NoRecord /\ v.pc \in {"claim", "done"}
  <2>1. CASE NextClaim(d)
    BY <2>1, IdleDrainIsAState DEF NextClaim
  <2>2. CASE DrainRaises(d) /\ d # Loop
    BY <2>2, IdleDrainIsAState DEF DrainRaises
  <2>3. CASE DrainRaises(d) /\ d = Loop
    <3>1. [IdleDrain EXCEPT !.pc = "claim"] = IdleDrain
      BY DEF IdleDrain
    <3> QED BY <2>3, <3>1, IdleDrainIsAState DEF DrainRaises
  <2> QED BY <2>1, <2>2, <2>3
<1>2. DrainTypeOK' /\ drain'[d] = v /\ \A x \in Drains \ {d} : drain'[x] = drain[x]
  BY <1>1, DrainMoves DEF IngestInv, IngestTypeOK
<1> QED BY <1>1, <1>2 DEF Holds, At

LEMMA ClaimNextKeeps ==
    ASSUME IngestInv, NEW d \in Drains, NEW e \in Events, ClaimNext(d, e) PROVE IngestInv'
<1> USE DEF IngestInv, IngestTypeOK
<1>1. PICK rec \in MemoryIngestQueueRecord :
          /\ Claimable(e) /\ rec.status = "processing"
          /\ \/ /\ WriteOk([queue EXCEPT ![e] = rec])
                /\ drain' = [drain EXCEPT ![d] = [pc |-> "archive", env |-> e,
                                                  attempts |-> rec.attempts, now |-> clock]]
                /\ UNCHANGED abandoned
             \/ /\ WriteRaises([queue EXCEPT ![e] = rec])
                /\ DrainRaises(d) /\ UNCHANGED overlapped
                /\ abandoned' = abandoned \cup {e}
  BY ClaimWrites
<1>2. UNCHANGED <<recorded, listening, failures, recovery, hubVars, clock, tries, stolen>>
  BY DEF ClaimNext
<1>3. faults \in 0..MaxFaults /\ clock \in 0..MaxTime
  BY DEF HistoryTypeOK
<1>4. Writes([queue EXCEPT ![e] = rec]) /\ faults' \in 0..MaxFaults
  BY <1>1, <1>3, WriteWrites
<1>5. e \in recorded /\ recorded' = recorded /\ archive' = archive
  BY <1>1, <1>2 DEF Claimable, QueueIsRecorded, hubVars
<1>6. /\ QueueTypeOK' /\ QueueIsRecorded' /\ FileIsOlder' /\ ProcessedIsArchived' /\ Grows
      /\ queue'[e] = rec
  BY <1>1, <1>4, <1>5, OneWrite
<1>7. RecordingTypeOK'
  BY <1>2 DEF RecordingTypeOK, hubVars
<1>8. HistoryTypeOK'
  <2>1. overlapped' \subseteq Events
    <3>1. \A x \in Drains : drain[x].env # NoRecord => drain[x].env \in Events
      BY DEF DrainTypeOK
    <3>2. {drain[x].env : x \in {y \in Drains \ {d} : Busy(y)}} \subseteq Events
      BY <3>1 DEF Busy
    <3> QED BY <3>2 DEF ClaimNext, HistoryTypeOK
  <2>2. abandoned' \subseteq Events
    BY <1>1 DEF HistoryTypeOK
  <2> QED BY <1>2, <1>4, <2>1, <2>2 DEF HistoryTypeOK
<1>9. CASE /\ WriteOk([queue EXCEPT ![e] = rec])
           /\ drain' = [drain EXCEPT ![d] = [pc |-> "archive", env |-> e,
                                             attempts |-> rec.attempts, now |-> clock]]
  <2>1. PICK v : v = [pc |-> "archive", env |-> e, attempts |-> rec.attempts, now |-> clock]
    OBVIOUS
  <2>2. v \in DrainState /\ v.pc = "archive" /\ v.env = e
    BY <1>3, <2>1 DEF DrainState, MemoryIngestQueueRecord
  <2>3. DrainTypeOK' /\ drain'[d] = v /\ \A x \in Drains \ {d} : drain'[x] = drain[x]
    BY <1>9, <2>1, <2>2, DrainMoves
  <2>4. disk'[e] = rec /\ rec # NoRecord
    BY <1>9, NoRecordIsNone DEF WriteOk, QueueTypeOK
  <2>5. Holds(d)'
    BY <1>6, <2>2, <2>3, <2>4 DEF Holds, At, Queued
  <2>6. DrainsHold'
    BY <1>6, <2>3, <2>5, OthersHold
  <2> QED BY <1>6, <1>7, <1>8, <2>3, <2>6
<1>10. CASE DrainRaises(d)
  <2>1. DrainTypeOK' /\ Holds(d)' /\ \A x \in Drains \ {d} : drain'[x] = drain[x]
    BY <1>10, DrainIsLeft
  <2>2. DrainsHold'
    BY <1>6, <2>1, OthersHold
  <2> QED BY <1>6, <1>7, <1>8, <2>1, <2>2
<1> QED BY <1>1, <1>9, <1>10
\* A step that leaves the queue alone.
LEMMA QuietStep ==
    ASSUME IngestInv, UNCHANGED <<recorded, queueVars>>, archive \subseteq archive'
    PROVE  /\ QueueTypeOK' /\ QueueIsRecorded' /\ FileIsOlder' /\ ProcessedIsArchived' /\ Grows
  BY DEF IngestInv, IngestTypeOK, QueueTypeOK, Grows, QueueIsRecorded, FileIsOlder,
         ProcessedIsArchived, Queued, queueVars

\* A drain moves on to another place with the same event in hand.
LEMMA DrainGoesOn ==
    ASSUME IngestInv, NEW d \in Drains,
           NEW p \in {"claim", "archive", "goal", "processed", "failed", "done"},
           drain' = [drain EXCEPT ![d].pc = p]
    PROVE  /\ DrainTypeOK' /\ drain'[d].pc = p /\ drain'[d].env = drain[d].env
           /\ drain'[d].attempts = drain[d].attempts
           /\ \A x \in Drains \ {d} : drain'[x] = drain[x]
<1>1. PICK u \in DrainState : u = drain[d]
  BY DEF IngestInv, IngestTypeOK, DrainTypeOK, DrainState
<1>2. PICK v : v = [u EXCEPT !.pc = p]
  OBVIOUS
<1>3. v \in DrainState /\ v.pc = p /\ v.env = u.env /\ v.attempts = u.attempts
  BY <1>2 DEF DrainState
<1>4. drain' = [drain EXCEPT ![d] = v]
  BY <1>1, <1>2
<1>5. DrainTypeOK' /\ drain'[d] = v /\ \A x \in Drains \ {d} : drain'[x] = drain[x]
  BY <1>3, <1>4, DrainMoves DEF IngestInv, IngestTypeOK
<1> QED BY <1>1, <1>3, <1>5

LEMMA EndDrainKeeps ==
    ASSUME IngestInv, NEW d \in Drains, EndDrain(d) PROVE IngestInv'
<1> USE DEF IngestInv, IngestTypeOK
<1>1. /\ drain[d].pc = "claim" /\ drain' = [drain EXCEPT ![d].pc = "done"]
      /\ UNCHANGED <<recorded, listening, failures, queueVars, recovery, hubVars, clock, faults,
                     historyVars>>
  BY DEF EndDrain
<1>2. QueueTypeOK' /\ QueueIsRecorded' /\ FileIsOlder' /\ ProcessedIsArchived' /\ Grows
  BY <1>1, QuietStep DEF hubVars
<1>3. RecordingTypeOK' /\ HistoryTypeOK'
  BY <1>1 DEF RecordingTypeOK, HistoryTypeOK, hubVars, historyVars
<1>4. /\ DrainTypeOK' /\ drain'[d].pc = "done" /\ drain'[d].env = drain[d].env
      /\ \A x \in Drains \ {d} : drain'[x] = drain[x]
  BY <1>1, DrainGoesOn
<1>5. drain[d].env = NoRecord
  BY <1>1 DEF DrainsHold, Holds, At
<1>6. Holds(d)'
  BY <1>4, <1>5 DEF Holds, At
<1>7. DrainsHold'
  BY <1>2, <1>4, <1>6, OthersHold
<1> QED BY <1>2, <1>3, <1>4, <1>7

LEMMA IngestArchiveKeeps ==
    ASSUME IngestInv, NEW d \in Drains, IngestArchive(d) PROVE IngestInv'
<1> USE DEF IngestInv, IngestTypeOK
<1> DEFINE e == drain[d].env
<1>1. /\ drain[d].pc = "archive" /\ tries' = [tries EXCEPT ![e] = @ + 1]
      /\ UNCHANGED <<recorded, listening, failures, queueVars, recovery, resident, clock,
                     faults, stolen, overlapped, abandoned>>
      /\ \/ /\ archive' = archive \cup {e}
            /\ drain' = [drain EXCEPT ![d].pc = IF e \in GoalEvents THEN "goal" ELSE "processed"]
         \/ drain' = [drain EXCEPT ![d].pc = "failed"] /\ archive' = archive
  BY DEF IngestArchive
<1>2. e \in Events /\ Queued(e) /\ disk[e] # NoRecord
  BY <1>1 DEF DrainsHold, Holds, At
<1>3. e \in recorded
  BY <1>2 DEF QueueIsRecorded
<1>4. archive \subseteq archive' /\ archive' \subseteq archive \cup {e}
  BY <1>1
<1> HIDE DEF e
<1>5. QueueTypeOK' /\ QueueIsRecorded' /\ FileIsOlder' /\ ProcessedIsArchived' /\ Grows
  BY <1>1, <1>4, QuietStep
<1>6. RecordingTypeOK'
  BY <1>1, <1>3, <1>4 DEF RecordingTypeOK
<1>7. tries' \in [Events -> Nat]
  BY <1>1, <1>2 DEF HistoryTypeOK
<1>8. HistoryTypeOK'
  BY <1>1, <1>7 DEF HistoryTypeOK
<1>9. PICK p \in {"goal", "processed", "failed"} :
          /\ drain' = [drain EXCEPT ![d].pc = p]
          /\ p = "goal" => e \in GoalEvents
          /\ p \in {"goal", "processed"} => e \in archive'
  BY <1>1
<1>10. /\ DrainTypeOK' /\ drain'[d].pc = p /\ drain'[d].env = e
       /\ \A x \in Drains \ {d} : drain'[x] = drain[x]
  BY <1>9, DrainGoesOn DEF e
<1>11. queue' = queue /\ disk' = disk
  BY <1>1 DEF queueVars
<1>12. Holds(d)'
  BY <1>2, <1>9, <1>10, <1>11 DEF Holds, At, Queued
<1>13. DrainsHold'
  BY <1>5, <1>10, <1>12, OthersHold
<1> QED BY <1>5, <1>6, <1>8, <1>10, <1>13

LEMMA IngestGoalKeeps ==
    ASSUME IngestInv, NEW d \in Drains, IngestGoal(d) PROVE IngestInv'
<1> USE DEF IngestInv, IngestTypeOK
<1>1. PICK p \in {"processed", "failed"} :
          /\ drain[d].pc = "goal" /\ drain' = [drain EXCEPT ![d].pc = p]
          /\ resident' = drain[d].env \/ resident' = resident
          /\ UNCHANGED <<recorded, listening, failures, queueVars, recovery, archive, clock,
                         faults, historyVars>>
  BY DEF IngestGoal
<1>2. /\ drain[d].env \in Events /\ Queued(drain[d].env) /\ disk[drain[d].env] # NoRecord
      /\ drain[d].env \in GoalEvents /\ drain[d].env \in archive
  BY <1>1 DEF DrainsHold, Holds, At
<1>3. QueueTypeOK' /\ QueueIsRecorded' /\ FileIsOlder' /\ ProcessedIsArchived' /\ Grows
  BY <1>1, QuietStep
<1>4. RecordingTypeOK' /\ HistoryTypeOK'
  BY <1>1, <1>2 DEF RecordingTypeOK, HistoryTypeOK, historyVars
<1>5. /\ DrainTypeOK' /\ drain'[d].pc = p /\ drain'[d].env = drain[d].env
      /\ \A x \in Drains \ {d} : drain'[x] = drain[x]
  BY <1>1, DrainGoesOn
<1>6. Holds(d)'
  BY <1>1, <1>2, <1>5 DEF Holds, At, Queued, queueVars
<1>7. DrainsHold'
  BY <1>3, <1>5, <1>6, OthersHold
<1> QED BY <1>3, <1>4, <1>5, <1>7
\* What the two marks do.
LEMMA MarkWrites ==
    ASSUME IngestInv, NEW d \in Drains, MarkProcessed(d) \/ MarkUnprocessed(d)
    PROVE  /\ At(d) /\ drain[d].pc # "archive" /\ queue[drain[d].env] \in MemoryIngestQueueRecord
           /\ UNCHANGED <<recorded, listening, failures, recovery, hubVars, clock, historyVars>>
           /\ \E rec \in MemoryIngestQueueRecord :
                 /\ rec.seq = queue[drain[d].env].seq
                 /\ rec.attempts = queue[drain[d].env].attempts
                 /\ rec.status \in {"processed", "failed", "retrying"}
                 /\ rec.status = "processed" => /\ drain[d].env \in archive
                                                /\ drain[d].pc = "processed"
                 /\ rec.status = "retrying" => drain[d].attempts < MaxAttempts
                 /\ \/ WriteOk([queue EXCEPT ![drain[d].env] = rec]) /\ NextClaim(d)
                    \/ WriteRaises([queue EXCEPT ![drain[d].env] = rec]) /\ DrainRaises(d)
<1> USE DEF IngestInv, IngestTypeOK
<1>1. At(d) /\ drain[d].pc \in {"processed", "failed"}
  BY DEF MarkProcessed, MarkUnprocessed, At
<1>2. drain[d].env \in Events /\ Queued(drain[d].env)
  BY <1>1 DEF DrainsHold, Holds
<1>3. PICK r \in MemoryIngestQueueRecord : r = queue[drain[d].env]
  BY <1>2, QueuedRecord
<1>4. UNCHANGED <<recorded, listening, failures, recovery, hubVars, clock, historyVars>>
  BY DEF MarkProcessed, MarkUnprocessed, Mark
<1>5. ASSUME NEW rec, Mark(d, rec)
      PROVE  \/ WriteOk([queue EXCEPT ![drain[d].env] = rec]) /\ NextClaim(d)
             \/ WriteRaises([queue EXCEPT ![drain[d].env] = rec]) /\ DrainRaises(d)
  BY <1>5 DEF Mark
<1>6. CASE MarkProcessed(d)
  <2>1. drain[d].env \in archive /\ drain[d].pc = "processed"
    BY <1>6 DEF MarkProcessed, DrainsHold, Holds
  <2>0. PICK t \in Int : t = 0
    OBVIOUS
  <2>2. PICK rec : rec = [r EXCEPT !.status = "processed", !.retry_at = t]
    OBVIOUS
  <2>3. /\ rec \in MemoryIngestQueueRecord /\ rec.seq = r.seq /\ rec.attempts = r.attempts
        /\ rec.status = "processed"
    BY <2>2 DEF MemoryIngestQueueRecord
  <2>4. Mark(d, rec)
    BY <1>3, <1>6, <2>0, <2>2 DEF MarkProcessed
  <2> QED BY <1>1, <1>3, <1>4, <1>5, <2>1, <2>3, <2>4
<1>7. CASE MarkUnprocessed(d) /\ drain[d].attempts >= MaxAttempts
  <2>1. PICK rec : rec = [r EXCEPT !.status = "failed"]
    OBVIOUS
  <2>2. /\ rec \in MemoryIngestQueueRecord /\ rec.seq = r.seq /\ rec.attempts = r.attempts
        /\ rec.status = "failed"
    BY <2>1 DEF MemoryIngestQueueRecord
  <2>3. Mark(d, rec)
    BY <1>3, <1>7, <2>1 DEF MarkUnprocessed
  <2> QED BY <1>1, <1>3, <1>4, <1>5, <2>2, <2>3
<1>8. CASE MarkUnprocessed(d) /\ ~(drain[d].attempts >= MaxAttempts)
  <2>1. drain[d].attempts \in Nat /\ drain[d].now \in 0..MaxTime
    BY DEF DrainTypeOK
  <2>2. PICK w \in Int : w = drain[d].now + Backoff * 2^(drain[d].attempts - 1)
    <3>1. PICK k \in Int : k = 2^(drain[d].attempts - 1)
      BY <2>1
    <3>2. Backoff \in Int /\ drain[d].now \in Int
      BY <2>1, IngestBoundsAssumption
    <3> QED BY <3>1, <3>2
  <2>3. RetryAt(d) \in Int
    BY <2>2, IngestBoundsAssumption DEF RetryAt, Capped
  <2>4. PICK rec : rec = [r EXCEPT !.status = "retrying", !.retry_at = RetryAt(d)]
    OBVIOUS
  <2>5. /\ rec \in MemoryIngestQueueRecord /\ rec.seq = r.seq /\ rec.attempts = r.attempts
        /\ rec.status = "retrying"
    BY <2>3, <2>4 DEF MemoryIngestQueueRecord
  <2>6. Mark(d, rec)
    BY <1>3, <1>8, <2>4 DEF MarkUnprocessed
  <2>7. drain[d].attempts < MaxAttempts
    BY <1>8, <2>1, IngestBoundsAssumption
  <2> QED BY <1>1, <1>3, <1>4, <1>5, <2>5, <2>6, <2>7
<1> QED BY <1>6, <1>7, <1>8

LEMMA MarkKeeps ==
    ASSUME IngestInv, NEW d \in Drains, MarkProcessed(d) \/ MarkUnprocessed(d) PROVE IngestInv'
<1> USE DEF IngestInv, IngestTypeOK
<1> DEFINE e == drain[d].env
<1>1. At(d) /\ UNCHANGED <<recorded, listening, failures, recovery, hubVars, clock, historyVars>>
  BY MarkWrites
<1>2. PICK rec \in MemoryIngestQueueRecord :
          /\ rec.status = "processed" => e \in archive
          /\ \/ WriteOk([queue EXCEPT ![e] = rec]) /\ NextClaim(d)
             \/ WriteRaises([queue EXCEPT ![e] = rec]) /\ DrainRaises(d)
  BY MarkWrites
<1>3. e \in Events /\ e \in recorded
  BY <1>1 DEF DrainsHold, Holds, QueueIsRecorded
<1>4. (NextClaim(d) \/ DrainRaises(d)) /\ recorded' = recorded /\ archive' = archive
  BY <1>1, <1>2 DEF hubVars
<1> HIDE DEF e
<1>5. Writes([queue EXCEPT ![e] = rec]) /\ faults' \in 0..MaxFaults
  BY <1>2, WriteWrites DEF HistoryTypeOK
<1>6. QueueTypeOK' /\ QueueIsRecorded' /\ FileIsOlder' /\ ProcessedIsArchived' /\ Grows
  BY <1>2, <1>3, <1>4, <1>5, OneWrite
<1>7. RecordingTypeOK' /\ HistoryTypeOK'
  BY <1>1, <1>5 DEF RecordingTypeOK, HistoryTypeOK, hubVars, historyVars
<1>8. DrainTypeOK' /\ Holds(d)' /\ \A x \in Drains \ {d} : drain'[x] = drain[x]
  BY <1>4, DrainIsLeft
<1>9. DrainsHold'
  BY <1>6, <1>8, OthersHold
<1> QED BY <1>6, <1>7, <1>8, <1>9

\* The queue after recover_inflight.
LEMMA RecoverWrites ==
    ASSUME IngestInv, RecoverInflight
    PROVE  \E new \in [Events -> MemoryIngestQueueRecord \cup {NoRecord}] :
              /\ WriteOk(new) \/ WriteRaises(new)
              /\ \A e \in Events :
                    IF HasStatus(e, "processing")
                    THEN /\ new[e] \in MemoryIngestQueueRecord /\ new[e].status = "pending"
                         /\ new[e].seq = queue[e].seq /\ new[e].attempts = queue[e].attempts
                    ELSE new[e] = queue[e]
              /\ (\E e \in Events : HasStatus(e, "processing")) \/ WriteOk(new)
<1> USE DEF IngestInv, IngestTypeOK
<1> DEFINE hit == {e \in Events : HasStatus(e, "processing")}
<1>1. PICK new : new = [e \in Events |-> IF e \in hit THEN [queue[e] EXCEPT !.status = "pending",
                                                                            !.retry_at = 0]
                                         ELSE queue[e]]
  OBVIOUS
<1>2. WriteOk(new) \/ (hit # {} /\ WriteRaises(new))
  BY <1>1 DEF RecoverInflight
<1>3. ASSUME NEW e \in Events, HasStatus(e, "processing")
      PROVE  /\ new[e] \in MemoryIngestQueueRecord /\ new[e].status = "pending"
             /\ new[e].seq = queue[e].seq /\ new[e].attempts = queue[e].attempts
  <2>1. PICK r \in MemoryIngestQueueRecord : r = queue[e]
    BY <1>3, QueuedRecord DEF HasStatus
  <2>0. PICK t \in Int : t = 0
    OBVIOUS
  <2>2. PICK q : q = [r EXCEPT !.status = "pending", !.retry_at = t]
    OBVIOUS
  <2>3. /\ q \in MemoryIngestQueueRecord /\ q.status = "pending" /\ q.seq = r.seq
        /\ q.attempts = r.attempts
    BY <2>2 DEF MemoryIngestQueueRecord
  <2>4. new[e] = q
    BY <1>1, <1>3, <2>0, <2>1, <2>2
  <2> QED BY <2>1, <2>3, <2>4
<1>4. ASSUME NEW e \in Events, ~HasStatus(e, "processing") PROVE new[e] = queue[e]
  BY <1>1, <1>4
<1>5. new \in [Events -> MemoryIngestQueueRecord \cup {NoRecord}]
  <2>1. \A e \in Events : new[e] \in MemoryIngestQueueRecord \cup {NoRecord}
    BY <1>3, <1>4 DEF QueueTypeOK
  <2>2. new = [e \in Events |-> new[e]]
    BY <1>1
  <2> QED BY <2>1, <2>2
<1> QED BY <1>2, <1>3, <1>4, <1>5

LEMMA RecoverInflightKeeps ==
    ASSUME IngestInv, RecoverInflight PROVE IngestInv'
<1> USE DEF IngestInv, IngestTypeOK
<1>1. PICK new \in [Events -> MemoryIngestQueueRecord \cup {NoRecord}] :
          /\ WriteOk(new) \/ WriteRaises(new)
          /\ \A e \in Events :
                IF HasStatus(e, "processing")
                THEN new[e] \in MemoryIngestQueueRecord /\ new[e].status = "pending"
                ELSE new[e] = queue[e]
  BY RecoverWrites
<1>2. UNCHANGED <<recorded, listening, failures, drain, hubVars, clock, tries, overlapped>>
  BY DEF RecoverInflight
<1>3. recovery' = "done" /\ stolen' \subseteq Events /\ abandoned' \subseteq Events
  BY DEF RecoverInflight, HistoryTypeOK
<1>4. queue' = new /\ (disk' = new \/ disk' = disk) /\ faults' \in 0..MaxFaults
  BY <1>1, WriteWrites DEF Writes, HistoryTypeOK
<1>5. \A e \in Events : Queued(e) <=> new[e] # NoRecord
  BY <1>1, NoRecordIsNone DEF HasStatus, Queued
<1>6. QueueTypeOK'
  BY <1>4 DEF QueueTypeOK
<1>7. QueueIsRecorded' /\ FileIsOlder'
  BY <1>2, <1>4, <1>5 DEF QueueIsRecorded, FileIsOlder, Queued
<1>8. Grows
  BY <1>2, <1>4, <1>5 DEF Grows, hubVars, FileIsOlder
<1>9. ProcessedIsArchived'
  <2>1. \A e \in Events : new[e] # NoRecord /\ new[e].status = "processed" => e \in archive
    BY <1>1 DEF ProcessedIsArchived
  <2> QED BY <1>2, <1>4, <2>1 DEF ProcessedIsArchived, hubVars
<1>10. RecordingTypeOK' /\ HistoryTypeOK' /\ DrainTypeOK'
  BY <1>2, <1>3, <1>4 DEF RecordingTypeOK, HistoryTypeOK, DrainTypeOK, hubVars
<1>11. DrainsHold'
  BY <1>2, <1>8, AllHold
<1> QED BY <1>6, <1>7, <1>9, <1>10, <1>11

LEMMA CrashKeeps ==
    ASSUME IngestInv, Crash PROVE IngestInv'
<1> USE DEF IngestInv, IngestTypeOK
<1>1. /\ queue' = disk /\ listening' = {} /\ recovery' = "todo" /\ abandoned' = {}
      /\ drain' = [d \in Drains |-> IdleDrain] /\ faults' = faults + 1 /\ faults < MaxFaults
      /\ UNCHANGED <<recorded, failures, disk, hubVars, clock, tries, stolen, overlapped>>
  BY DEF Crash, Fault
<1>2. QueueTypeOK' /\ RecordingTypeOK'
  BY <1>1 DEF QueueTypeOK, RecordingTypeOK, hubVars
<1>3. HistoryTypeOK'
  BY <1>1, IngestBoundsAssumption DEF HistoryTypeOK
<1>4. QueueIsRecorded' /\ FileIsOlder' /\ ProcessedIsArchived'
  BY <1>1 DEF QueueIsRecorded, FileIsOlder, ProcessedIsArchived, Queued, hubVars
<1>5. DrainTypeOK'
  BY <1>1, IdleDrainIsAState DEF DrainTypeOK, DrainState
<1>6. DrainsHold'
  BY <1>1, IdleDrainIsAState DEF DrainsHold, Holds, At
<1> QED BY <1>2, <1>3, <1>4, <1>5, <1>6

LEMMA ClockOrNothingKeeps ==
    ASSUME IngestInv, ClockTick \/ UNCHANGED ingestVars PROVE IngestInv'
<1> USE DEF IngestInv, IngestTypeOK, ingestVars
<1>1. UNCHANGED <<recorded, listening, failures, queueVars, recovery, drain, hubVars, faults,
                  historyVars>>
  BY DEF ClockTick
<1>2. clock' \in 0..MaxTime
  BY IngestBoundsAssumption DEF ClockTick, HistoryTypeOK
<1>3. QueueTypeOK' /\ QueueIsRecorded' /\ FileIsOlder' /\ ProcessedIsArchived' /\ Grows
  BY <1>1, QuietStep DEF hubVars
<1>4. RecordingTypeOK' /\ HistoryTypeOK' /\ DrainTypeOK'
  BY <1>1, <1>2 DEF RecordingTypeOK, HistoryTypeOK, DrainTypeOK, hubVars, historyVars
<1>5. DrainsHold'
  BY <1>1, <1>3, AllHold
<1> QED BY <1>3, <1>4, <1>5

LEMMA IngestInitInv == ASSUME IngestInit PROVE IngestInv
<1>1. 0 \in 0..MaxTime /\ 0 \in 0..MaxFaults
  BY IngestBoundsAssumption
<1>2. QueueTypeOK /\ RecordingTypeOK /\ HistoryTypeOK
  BY <1>1 DEF IngestInit, QueueTypeOK, RecordingTypeOK, HistoryTypeOK
<1>3. DrainTypeOK /\ DrainsHold
  BY IdleDrainIsAState DEF IngestInit, DrainTypeOK, DrainState, DrainsHold, Holds, At
<1>4. QueueIsRecorded /\ FileIsOlder /\ ProcessedIsArchived
  BY DEF IngestInit, QueueIsRecorded, FileIsOlder, ProcessedIsArchived, Queued
<1> QED BY <1>2, <1>3, <1>4 DEF IngestInv, IngestTypeOK

LEMMA IngestStepKeeps == ASSUME IngestInv, [IngestNext]_ingestVars PROVE IngestInv'
<1>1. ASSUME NEW d \in Drains, DrainStep(d) PROVE IngestInv'
  BY <1>1, ClaimNextKeeps, EndDrainKeeps, IngestArchiveKeeps, IngestGoalKeeps, MarkKeeps
     DEF DrainStep
<1> QED BY <1>1, RecordEventKeeps, EnqueueEventKeeps, RecoverInflightKeeps, CrashKeeps,
           ClockOrNothingKeeps DEF IngestNext

\* The queue, its file, the archive and the drains agree as IngestInv says, in
\* every reachable state.
THEOREM IngestInvariance == IngestSpec => []IngestInv
  BY IngestInitInv, IngestStepKeeps, PTL DEF IngestSpec

\* Every variable of the ingest has its type: the records of the queue and of its
\* file, the drains, and what the Session Service and the hub hold.
THEOREM IngestTypeCorrect == IngestSpec => []IngestTypeOK
<1>1. IngestInv => IngestTypeOK
  BY DEF IngestInv
<1> QED BY <1>1, IngestInvariance, PTL

\* mark_processed is only ever called for an event the hub has archived, and
\* neither another drain's mark, nor recover_inflight, nor the cached change of
\* a write that raised makes the queue claim more than that.
THEOREM ProcessedMeansArchived == IngestSpec => []ProcessedIsArchived
<1>1. IngestInv => ProcessedIsArchived
  BY DEF IngestInv
<1> QED BY <1>1, IngestInvariance, PTL
(***************************************************************************)
(* Whose the records in processing are.  A claim that raised and a crash   *)
(* are faults, so as long as there was none every such record has a drain. *)
(***************************************************************************)
Owned(e) ==
    \/ \E d \in Drains : drain[d].env = e
    \/ faults > 0 /\ (recovery = "todo" \/ e \in abandoned)

OwnedInv == \A e \in Events : HasStatus(e, "processing") => Owned(e)

\* The record of f and the drains at work on it are as they were.
LEMMA OwnedStays ==
    ASSUME OwnedInv, NEW f \in Events, HasStatus(f, "processing")',
           queue'[f] = queue[f], faults' >= faults, faults \in Nat, faults' \in Nat,
           recovery' = recovery, abandoned \subseteq abandoned',
           \A x \in Drains : drain[x].env = f => drain'[x].env = f
    PROVE  Owned(f)'
<1>1. HasStatus(f, "processing")
  BY DEF HasStatus, Queued
<1>2. Owned(f)
  BY <1>1 DEF OwnedInv
<1> QED BY <1>2 DEF Owned

LEMMA FaultsGrow ==
    ASSUME IngestInv, IngestInv', NEW new, WriteOk(new) \/ WriteRaises(new)
    PROVE  /\ faults \in Nat /\ faults' \in Nat /\ faults' >= faults
           /\ WriteRaises(new) => faults' = faults + 1
  BY DEF IngestInv, IngestTypeOK, HistoryTypeOK, WriteOk, WriteRaises, Fault

LEMMA DrainKeepsItsEvent ==
    ASSUME IngestInv, NEW d \in Drains, EndDrain(d) \/ IngestArchive(d) \/ IngestGoal(d)
    PROVE  \A x \in Drains : /\ drain'[x].env = drain[x].env
                             /\ drain'[x].attempts = drain[x].attempts
<1>1. PICK p \in {"goal", "processed", "failed", "done"} : drain' = [drain EXCEPT ![d].pc = p]
  BY DEF EndDrain, IngestArchive, IngestGoal
<1> QED BY <1>1, DrainGoesOn

LEMMA OwnedKept ==
    ASSUME IngestInv, IngestInv', OwnedInv, [IngestNext]_ingestVars PROVE OwnedInv'
<1> SUFFICES ASSUME NEW f \in Events, HasStatus(f, "processing")'
             PROVE  Owned(f)'
  BY DEF OwnedInv
<1>1. faults \in Nat /\ faults' \in Nat
  BY DEF IngestInv, IngestTypeOK, HistoryTypeOK
<1>2. DrainTypeOK /\ QueueTypeOK /\ DrainsHold
  BY DEF IngestInv, IngestTypeOK
<1>3. ASSUME NEW e \in Events, RecordEvent(e) PROVE Owned(f)'
  <2>1. UNCHANGED <<queue, drain, faults, recovery, abandoned>>
    BY <1>3 DEF RecordEvent, queueVars, historyVars
  <2> QED BY <1>1, <2>1, OwnedStays
<1>4. ASSUME NEW e \in Events, EnqueueEvent(e) PROVE Owned(f)'
  <2>1. UNCHANGED <<drain, recovery, abandoned>>
    BY <1>4 DEF EnqueueEvent, historyVars
  <2>2. CASE UNCHANGED <<queueVars, faults>>
    BY <1>1, <2>1, <2>2, OwnedStays DEF queueVars
  <2>3. ASSUME NEW rec \in MemoryIngestQueueRecord, rec.status = "pending",
               \/ WriteOk([queue EXCEPT ![e] = rec])
               \/ WriteRaises([queue EXCEPT ![e] = rec])
        PROVE  Owned(f)'
    <3>1. queue' = [queue EXCEPT ![e] = rec] /\ faults' >= faults
      BY <2>3, FaultsGrow DEF WriteOk, WriteRaises
    <3>2. queue'[f].status = "processing"
      BY DEF HasStatus
    <3>3. queue'[f] = queue[f]
      BY <1>2, <2>3, <3>1, <3>2 DEF QueueTypeOK
    <3> QED BY <1>1, <2>1, <3>1, <3>3, OwnedStays
  <2> QED BY <1>4, <2>2, <2>3, EnqueueWrites
<1>5. ASSUME NEW d \in Drains, NEW e \in Events, ClaimNext(d, e) PROVE Owned(f)'
  <2>1. PICK rec \in MemoryIngestQueueRecord :
          /\ drain[d].pc = "claim"
          /\ \/ /\ WriteOk([queue EXCEPT ![e] = rec])
                /\ drain' = [drain EXCEPT ![d] = [pc |-> "archive", env |-> e,
                                                  attempts |-> rec.attempts, now |-> clock]]
                /\ UNCHANGED abandoned
             \/ /\ WriteRaises([queue EXCEPT ![e] = rec])
                /\ DrainRaises(d) /\ UNCHANGED overlapped
                /\ abandoned' = abandoned \cup {e}
    BY <1>5, ClaimWrites
  <2>2. drain[d].env = NoRecord /\ recovery' = recovery
    BY <1>2, <1>5, <2>1 DEF DrainsHold, Holds, At, ClaimNext
  <2>3. /\ queue' = [queue EXCEPT ![e] = rec] /\ faults' >= faults
        /\ WriteRaises([queue EXCEPT ![e] = rec]) => faults' > 0
    <3>1. queue' = [queue EXCEPT ![e] = rec]
      BY <2>1 DEF WriteOk, WriteRaises
    <3>2. PICK new : new = [queue EXCEPT ![e] = rec]
      OBVIOUS
    <3>3. WriteOk(new) \/ WriteRaises(new)
      BY <2>1, <3>2
    <3>4. faults' >= faults
      BY <3>3, FaultsGrow
    <3>5. WriteRaises(new) => faults' = faults + 1
      BY DEF WriteRaises, Fault
    <3> QED BY <1>1, <3>1, <3>2, <3>4, <3>5
  <2>4. abandoned \subseteq abandoned' /\ \A x \in Drains \ {d} : drain'[x] = drain[x]
    BY <1>2, <2>1 DEF DrainTypeOK, DrainRaises
  <2>5. CASE f # e
    <3>1. queue'[f] = queue[f]
      BY <1>2, <2>3, <2>5 DEF QueueTypeOK
    <3>2. \A x \in Drains : drain[x].env = f => drain'[x].env = f
      BY <2>2, <2>4, NoRecordIsNone
    <3> QED BY <1>1, <2>2, <2>3, <2>4, <3>1, <3>2, OwnedStays
  <2>6. CASE f = e /\ WriteRaises([queue EXCEPT ![e] = rec]) /\ abandoned' = abandoned \cup {e}
    BY <2>3, <2>6 DEF Owned
  <2>7. CASE /\ f = e
             /\ drain' = [drain EXCEPT ![d] = [pc |-> "archive", env |-> e,
                                               attempts |-> rec.attempts, now |-> clock]]
    <3>1. drain'[d].env = f
      BY <1>2, <2>7 DEF DrainTypeOK
    <3> QED BY <3>1 DEF Owned
  <2> QED BY <2>1, <2>5, <2>6, <2>7
<1>6. ASSUME NEW d \in Drains, MarkProcessed(d) \/ MarkUnprocessed(d) PROVE Owned(f)'
  <2> DEFINE e == drain[d].env
  <2>1. PICK rec \in MemoryIngestQueueRecord :
          /\ rec.status \in {"processed", "failed", "retrying"}
          /\ \/ WriteOk([queue EXCEPT ![e] = rec]) /\ NextClaim(d)
             \/ WriteRaises([queue EXCEPT ![e] = rec]) /\ DrainRaises(d)
    BY <1>6, MarkWrites
  <2>2. UNCHANGED <<recovery, historyVars>>
    BY <1>6, MarkWrites
  <2>3. queue' = [queue EXCEPT ![e] = rec] /\ faults' >= faults
    BY <2>1, FaultsGrow DEF WriteOk, WriteRaises
  <2>4. \A x \in Drains \ {d} : drain'[x] = drain[x]
    BY <2>1, DrainIsLeft
  <2>5. queue'[f].status = "processing"
    BY DEF HasStatus
  <2> HIDE DEF e
  <2>6. f # e /\ queue'[f] = queue[f]
    BY <1>2, <2>1, <2>3, <2>5 DEF QueueTypeOK
  <2>7. \A x \in Drains : drain[x].env = f => drain'[x].env = f
    BY <2>4, <2>6 DEF e
  <2> QED BY <1>1, <2>2, <2>3, <2>6, <2>7, OwnedStays DEF historyVars
<1>7. ASSUME NEW d \in Drains, EndDrain(d) \/ IngestArchive(d) \/ IngestGoal(d)
      PROVE  Owned(f)'
  <2>1. UNCHANGED <<queue, faults, recovery, abandoned>>
    BY <1>7 DEF EndDrain, IngestArchive, IngestGoal, queueVars, historyVars
  <2>2. \A x \in Drains : drain'[x].env = drain[x].env
    BY <1>7, DrainKeepsItsEvent
  <2> QED BY <1>1, <2>1, <2>2, OwnedStays
<1>8. CASE RecoverInflight
  <2>1. PICK new \in [Events -> MemoryIngestQueueRecord \cup {NoRecord}] :
          /\ WriteOk(new) \/ WriteRaises(new)
          /\ IF HasStatus(f, "processing") THEN new[f].status = "pending"
                                           ELSE new[f] = queue[f]
    BY <1>8, RecoverWrites
  <2>2. queue' = new
    BY <2>1 DEF WriteOk, WriteRaises
  <2> QED BY <2>1, <2>2 DEF HasStatus, Queued
<1>9. CASE Crash
  BY <1>1, <1>9 DEF Crash, Fault, Owned
<1>10. CASE ClockTick \/ UNCHANGED ingestVars
  <2>1. UNCHANGED <<queue, drain, faults, recovery, abandoned>>
    BY <1>10 DEF ClockTick, ingestVars, queueVars, historyVars
  <2> QED BY <1>1, <2>1, OwnedStays
<1>11. ASSUME NEW d \in Drains, DrainStep(d) PROVE Owned(f)'
  BY <1>5, <1>6, <1>7, <1>11 DEF DrainStep
<1> QED BY <1>3, <1>4, <1>8, <1>9, <1>10, <1>11 DEF IngestNext

\* Every record in processing is some drain's, or there was a fault and its claim
\* raised or recover_inflight is still to come.
THEOREM OwnedInvariance == IngestSpec => []OwnedInv
<1>1. IngestInit => OwnedInv
  BY DEF IngestInit, OwnedInv, HasStatus, Queued
<1>2. IngestInv /\ IngestInv' /\ OwnedInv /\ [IngestNext]_ingestVars => OwnedInv'
  BY OwnedKept
<1> QED BY <1>1, <1>2, IngestInvariance, PTL DEF IngestSpec

\* process_next, the failures that end it, recover_inflight and the restarts leave
\* no record in processing that nobody will come back to before the next start,
\* unless the very claim of it raised.
THEOREM ProcessingHasAnOwner == IngestSpec => []ProcessingIsOwned
<1>1. OwnedInv => ProcessingIsOwned
  BY DEF OwnedInv, Owned, ProcessingIsOwned
<1> QED BY <1>1, OwnedInvariance, PTL
(***************************************************************************)
(* The account of attempts.  A record that waits to be claimed, and a      *)
(* drain at work that may still have its event retried, are each a         *)
(* permission for one more attempt; what is granted is MaxAttempts, one    *)
(* for every fault (a crash is granted when recover_inflight has run) and  *)
(* one for work recovered under a drain's feet.                            *)
(***************************************************************************)
Spent(rec) == IF rec.attempts >= MaxAttempts THEN rec.attempts ELSE MaxAttempts - 1
Waits(rec) == IF rec.status \in {"pending", "retrying"} THEN 1 ELSE 0

IsLive(d, e) == drain[d].env = e /\ drain[d].attempts < MaxAttempts
IsArchiving(d, e) == drain[d].env = e /\ drain[d].pc = "archive"
LiveCount(e) == Cardinality({d \in Drains : IsLive(d, e)})
ArchivingCount(e) == Cardinality({d \in Drains : IsArchiving(d, e)})

Granted(e) ==
    MaxAttempts + faults - (IF recovery = "todo" /\ faults > 0 THEN 1 ELSE 0)
                + (IF e \in stolen THEN 1 ELSE 0)

QueuePaid(e) ==
    Queued(e) => Spent(queue[e]) + Waits(queue[e]) + LiveCount(e) <= Granted(e)
FilePaid(e) == disk[e] # NoRecord => Spent(disk[e]) + Waits(disk[e]) <= Granted(e)
TriesCounted(e) ==
    /\ disk[e] = NoRecord => tries[e] = 0
    /\ disk[e] # NoRecord => /\ tries[e] + ArchivingCount(e) <= disk[e].attempts
                             /\ disk[e].attempts <= queue[e].attempts

Accounted(e) == QueuePaid(e) /\ FilePaid(e) /\ TriesCounted(e)

AttemptsInv ==
    /\ recovery = "todo" /\ faults = 0 => stolen = {}
    /\ \A e \in Events : Accounted(e)

LEMMA RecordNumbers ==
    ASSUME NEW r \in MemoryIngestQueueRecord
    PROVE  /\ r.attempts \in Nat /\ Spent(r) \in Nat /\ Spent(r) >= r.attempts
           /\ Waits(r) \in {0, 1} /\ Waits(r) \in Nat
           /\ r.status \in {"processing", "processed", "failed"} => Waits(r) = 0
           /\ r.status \in {"pending", "retrying"} => Waits(r) = 1
  BY IngestBoundsAssumption DEF MemoryIngestQueueRecord, Spent, Waits

\* With one attempt more, a permission is used up, but for a live drain.
LEMMA SpentOneMore ==
    ASSUME NEW r \in MemoryIngestQueueRecord, NEW q \in MemoryIngestQueueRecord
    PROVE  /\ q.attempts = r.attempts => Spent(q) = Spent(r)
           /\ q.attempts = r.attempts + 1
              => /\ Spent(q) <= Spent(r) + 1
                 /\ q.attempts < MaxAttempts => Spent(q) = Spent(r)
  BY IngestBoundsAssumption DEF MemoryIngestQueueRecord, Spent

\* A set of drains, with and without one of them.
LEMMA DrainCount ==
    ASSUME NEW S, S \subseteq Drains, NEW d
    PROVE  /\ Cardinality(S) \in Nat /\ Cardinality(S \ {d}) \in Nat
           /\ Cardinality(S) = Cardinality(S \ {d}) + (IF d \in S THEN 1 ELSE 0)
<1>1. IsFiniteSet(S)
  BY DrainsAssumption, FS_Subset
<1>2. IsFiniteSet(S \ {d})
  BY <1>1, FS_RemoveElement
<1>3. Cardinality(S) \in Nat /\ Cardinality(S \ {d}) \in Nat
  BY <1>1, <1>2, FS_CardinalityType
<1>4. Cardinality(S \ {d}) = IF d \in S THEN Cardinality(S) - 1 ELSE Cardinality(S)
  BY <1>1, FS_RemoveElement
<1> QED BY <1>3, <1>4

LEMMA CountsAreNumbers ==
    ASSUME NEW f
    PROVE  /\ LiveCount(f) \in Nat /\ ArchivingCount(f) \in Nat
           /\ LiveCount(f)' \in Nat /\ ArchivingCount(f)' \in Nat
<1>1. \A S \in SUBSET Drains : Cardinality(S) \in Nat
  BY DrainCount
<1> QED BY <1>1 DEF LiveCount, ArchivingCount

\* A step of one drain changes the counts by what it is and was itself.
LEMMA LiveAfter ==
    ASSUME NEW d \in Drains, NEW f, \A x \in Drains \ {d} : drain'[x] = drain[x]
    PROVE  LiveCount(f)' = LiveCount(f) - (IF IsLive(d, f) THEN 1 ELSE 0)
                                        + (IF IsLive(d, f)' THEN 1 ELSE 0)
<1>1. PICK S : S = {x \in Drains : IsLive(x, f)}
  OBVIOUS
<1>2. PICK T : T = {x \in Drains : IsLive(x, f)'}
  OBVIOUS
<1>3. S \ {d} = T \ {d}
  BY <1>1, <1>2 DEF IsLive
<1>4. /\ S \subseteq Drains /\ T \subseteq Drains
      /\ d \in S <=> IsLive(d, f)
      /\ d \in T <=> IsLive(d, f)'
  BY <1>1, <1>2
<1>5. LiveCount(f) = Cardinality(S) /\ LiveCount(f)' = Cardinality(T)
  BY <1>1, <1>2 DEF LiveCount
<1>6. PICK n \in Nat : n = Cardinality(S \ {d})
  BY <1>4, DrainCount
<1>7. Cardinality(S) = n + (IF d \in S THEN 1 ELSE 0)
  BY <1>4, <1>6, DrainCount
<1>8. Cardinality(T) = n + (IF d \in T THEN 1 ELSE 0)
  BY <1>3, <1>4, <1>6, DrainCount
<1> QED BY <1>4, <1>5, <1>7, <1>8

LEMMA ArchivingAfter ==
    ASSUME NEW d \in Drains, NEW f, \A x \in Drains \ {d} : drain'[x] = drain[x]
    PROVE  ArchivingCount(f)' = ArchivingCount(f) - (IF IsArchiving(d, f) THEN 1 ELSE 0)
                                                  + (IF IsArchiving(d, f)' THEN 1 ELSE 0)
<1>1. PICK S : S = {x \in Drains : IsArchiving(x, f)}
  OBVIOUS
<1>2. PICK T : T = {x \in Drains : IsArchiving(x, f)'}
  OBVIOUS
<1>3. S \ {d} = T \ {d}
  BY <1>1, <1>2 DEF IsArchiving
<1>4. /\ S \subseteq Drains /\ T \subseteq Drains
      /\ d \in S <=> IsArchiving(d, f)
      /\ d \in T <=> IsArchiving(d, f)'
  BY <1>1, <1>2
<1>5. ArchivingCount(f) = Cardinality(S) /\ ArchivingCount(f)' = Cardinality(T)
  BY <1>1, <1>2 DEF ArchivingCount
<1>6. PICK n \in Nat : n = Cardinality(S \ {d})
  BY <1>4, DrainCount
<1>7. Cardinality(S) = n + (IF d \in S THEN 1 ELSE 0)
  BY <1>4, <1>6, DrainCount
<1>8. Cardinality(T) = n + (IF d \in T THEN 1 ELSE 0)
  BY <1>3, <1>4, <1>6, DrainCount
<1> QED BY <1>4, <1>5, <1>7, <1>8

\* No drain has an event in hand that is not in the queue and its file.
LEMMA NobodyAtWork ==
    ASSUME IngestInv, NEW f \in Events, ~Queued(f) \/ disk[f] = NoRecord
    PROVE  LiveCount(f) = 0 /\ ArchivingCount(f) = 0
<1>1. \A d \in Drains : drain[d].env # f
  BY NoRecordIsNone DEF IngestInv, DrainsHold, Holds
<1>2. {d \in Drains : IsLive(d, f)} = {} /\ {d \in Drains : IsArchiving(d, f)} = {}
  BY <1>1 DEF IsLive, IsArchiving
<1> QED BY <1>2, FS_EmptySet DEF LiveCount, ArchivingCount

LEMMA GrantedIsANumber ==
    ASSUME IngestTypeOK, NEW f PROVE Granted(f) \in Int /\ Granted(f) >= MaxAttempts
  BY IngestBoundsAssumption DEF IngestTypeOK, HistoryTypeOK, Granted
LEMMA GrantedStaysANumber ==
    ASSUME IngestInv, IngestInv', NEW f PROVE Granted(f) \in Int /\ Granted(f)' \in Int
<1>1. MaxAttempts \in Int /\ faults \in Int /\ faults' \in Int
  BY IngestBoundsAssumption DEF IngestInv, IngestTypeOK, HistoryTypeOK
<1>2. PICK a \in Int : a = IF recovery = "todo" /\ faults > 0 THEN 1 ELSE 0
  OBVIOUS
<1>3. PICK b \in Int : b = IF f \in stolen THEN 1 ELSE 0
  OBVIOUS
<1>4. PICK c \in Int : c = IF recovery' = "todo" /\ faults' > 0 THEN 1 ELSE 0
  OBVIOUS
<1>5. PICK g \in Int : g = IF f \in stolen' THEN 1 ELSE 0
  OBVIOUS
<1> QED BY <1>1, <1>2, <1>3, <1>4, <1>5 DEF Granted

\* What is granted never shrinks.
LEMMA GrantedGrows ==
    ASSUME IngestInv, IngestInv', NEW f \in Events, [IngestNext]_ingestVars
    PROVE  Granted(f) <= Granted(f)'
<1> USE DEF historyVars, ingestVars, queueVars
<1>1. /\ faults \in Nat /\ faults' \in Nat /\ MaxAttempts \in Nat
      /\ recovery \in {"todo", "done"}
  BY IngestBoundsAssumption DEF IngestInv, IngestTypeOK, HistoryTypeOK
<1> DEFINE back(rec, n) == IF rec = "todo" /\ n > 0 THEN 1 ELSE 0
<1>2. PICK b \in Int : b = IF f \in stolen THEN 1 ELSE 0
  OBVIOUS
<1>3. PICK c \in Int : c = IF f \in stolen' THEN 1 ELSE 0
  OBVIOUS
<1>4. /\ Granted(f) = MaxAttempts + faults - back(recovery, faults) + b
      /\ Granted(f)' = MaxAttempts + faults' - back(recovery', faults') + c
  BY <1>2, <1>3 DEF Granted
<1>5. CASE recovery' = recovery /\ stolen' = stolen /\ faults' \in {faults, faults + 1}
  <2>1. b = c
    BY <1>5, <1>2, <1>3
  <2>2. back(recovery, faults) \in {0, 1} /\ back(recovery', faults') \in {0, 1}
    OBVIOUS
  <2>3. faults' = faults => back(recovery', faults') = back(recovery, faults)
    BY <1>5
  <2> HIDE DEF back
  <2>4. CASE faults' = faults
    <3>1. back(recovery', faults') = back(recovery, faults)
      BY <2>3, <2>4
    <3> QED BY <1>1, <1>4, <2>1, <2>2, <2>4, <3>1
  <2>5. CASE faults' = faults + 1
    BY <1>1, <1>4, <2>1, <2>2, <2>5
  <2> QED BY <1>5, <2>4, <2>5
<1>6. CASE Crash
  <2>1. recovery' = "todo" /\ faults' = faults + 1 /\ stolen' = stolen
    BY <1>6 DEF Crash, Fault
  <2>2. b = c
    BY <2>1, <1>2, <1>3
  <2> QED BY <1>1, <1>4, <2>1, <2>2
<1>7. CASE RecoverInflight
  <2>1. recovery' = "done" /\ recovery = "todo" /\ stolen \subseteq stolen'
    BY <1>7 DEF RecoverInflight
  <2>2. faults' = faults \/ faults' = faults + 1
    BY <1>7 DEF RecoverInflight, WriteOk, WriteRaises, Fault
  <2>3. b <= c
    BY <2>1, <1>2, <1>3
  <2>4. back(recovery', faults') = 0 /\ back(recovery, faults) \in {0, 1}
    BY <2>1
  <2> HIDE DEF back
  <2> QED BY <1>1, <1>4, <2>2, <2>3, <2>4
<1>8. ASSUME NEW e \in Events, RecordEvent(e) \/ EnqueueEvent(e)
      PROVE  recovery' = recovery /\ stolen' = stolen /\ faults' \in {faults, faults + 1}
  BY <1>8 DEF RecordEvent, EnqueueEvent, WriteOk, WriteRaises, Fault
<1>9. ASSUME NEW d \in Drains, DrainStep(d)
      PROVE  recovery' = recovery /\ stolen' = stolen /\ faults' \in {faults, faults + 1}
  BY <1>9 DEF DrainStep, ClaimNext, EndDrain, IngestArchive, IngestGoal, MarkProcessed,
              MarkUnprocessed, Mark, WriteOk, WriteRaises, Fault
<1>10. CASE ClockTick \/ UNCHANGED ingestVars
  BY <1>5, <1>10 DEF ClockTick
<1> QED BY <1>5, <1>6, <1>7, <1>8, <1>9, <1>10 DEF IngestNext

\* A record that stays as it is, and no drain more at work on it.
LEMMA QueuePaidStays ==
    ASSUME IngestInv, IngestInv', NEW f \in Events, QueuePaid(f), queue'[f] = queue[f],
           LiveCount(f)' <= LiveCount(f), Granted(f) <= Granted(f)'
    PROVE  QueuePaid(f)'
<1> SUFFICES ASSUME queue[f] # NoRecord
             PROVE  Spent(queue[f]) + Waits(queue[f]) + LiveCount(f)' <= Granted(f)'
  BY DEF QueuePaid, Queued, Spent, Waits
<1>1. PICK r \in MemoryIngestQueueRecord : r = queue[f]
  BY QueuedRecord DEF IngestInv, IngestTypeOK, Queued
<1>2. Spent(r) \in Nat /\ Waits(r) \in Nat
  BY RecordNumbers
<1>3. Spent(r) + Waits(r) + LiveCount(f) <= Granted(f)
  BY <1>1 DEF QueuePaid, Queued
<1>4. Granted(f) \in Int /\ Granted(f)' \in Int
  BY GrantedStaysANumber
<1> QED BY <1>1, <1>2, <1>3, <1>4, CountsAreNumbers

\* The file is as it was, or as the queue is now.
LEMMA FilePaidKept ==
    ASSUME IngestInv, IngestInv', NEW f \in Events, FilePaid(f), QueuePaid(f)',
           disk'[f] = queue'[f] \/ disk'[f] = disk[f], Granted(f) <= Granted(f)'
    PROVE  FilePaid(f)'
<1>1. Granted(f) \in Int /\ Granted(f)' \in Int
  BY GrantedStaysANumber
<1>2. SUFFICES ASSUME disk'[f] # NoRecord
               PROVE  Spent(disk'[f]) + Waits(disk'[f]) <= Granted(f)'
  BY DEF FilePaid, Spent, Waits
<1>3. PICK q \in MemoryIngestQueueRecord : q = disk'[f]
  BY <1>2 DEF IngestInv, IngestTypeOK, QueueTypeOK
<1>4. Spent(q) \in Nat /\ Waits(q) \in Nat
  BY RecordNumbers
<1>5. CASE disk'[f] = queue'[f]
  <2>1. Spent(q) + Waits(q) + LiveCount(f)' <= Granted(f)'
    BY <1>2, <1>3, <1>5 DEF QueuePaid, Queued, Spent, Waits
  <2> QED BY <1>1, <1>3, <1>4, <2>1, CountsAreNumbers
<1>6. CASE disk'[f] = disk[f]
  <2>1. Spent(q) + Waits(q) <= Granted(f)
    BY <1>2, <1>3, <1>6 DEF FilePaid
  <2> QED BY <1>1, <1>3, <1>4, <2>1
<1> QED BY <1>5, <1>6

LEMMA TriesCountedKept ==
    ASSUME IngestInv, IngestInv', NEW f \in Events, TriesCounted(f),
           disk'[f] = queue'[f] \/ disk'[f] = disk[f], Queued(f) => queue'[f] # NoRecord,
           Queued(f) => queue[f].attempts <= queue'[f].attempts,
           tries'[f] = tries[f], ArchivingCount(f)' <= ArchivingCount(f)
    PROVE  TriesCounted(f)'
<1> DEFINE n == tries[f] + ArchivingCount(f)'
<1>1. /\ tries[f] \in Nat /\ ArchivingCount(f) \in Nat /\ ArchivingCount(f)' \in Nat
      /\ n \in Nat
  BY CountsAreNumbers DEF IngestInv, IngestTypeOK, HistoryTypeOK
<1>2. CASE disk[f] = NoRecord
  <2>1. tries[f] = 0 /\ n = 0
    BY <1>1, <1>2, NobodyAtWork DEF TriesCounted
  <2>2. CASE disk'[f] = NoRecord
    BY <2>1, <2>2 DEF TriesCounted
  <2>3. CASE disk'[f] # NoRecord
    <3>1. PICK q \in MemoryIngestQueueRecord : q = disk'[f]
      BY <2>3 DEF IngestInv, IngestTypeOK, QueueTypeOK
    <3>2. q.attempts \in Nat /\ disk'[f] = queue'[f]
      BY <1>2, <2>3, <3>1, RecordNumbers
    <3> QED BY <2>1, <2>3, <3>1, <3>2 DEF TriesCounted
  <2> QED BY <2>2, <2>3
<1>3. CASE disk[f] # NoRecord
  <2>1. Queued(f) /\ queue'[f] # NoRecord
    BY <1>3 DEF IngestInv, FileIsOlder
  <2>2. PICK r \in MemoryIngestQueueRecord : r = queue[f]
    BY <2>1, QueuedRecord DEF IngestInv, IngestTypeOK
  <2>3. PICK q \in MemoryIngestQueueRecord : q = queue'[f]
    BY <2>1 DEF IngestInv, IngestTypeOK, QueueTypeOK
  <2>4. PICK s \in MemoryIngestQueueRecord : s = disk[f]
    BY <1>3 DEF IngestInv, IngestTypeOK, QueueTypeOK
  <2>5. r.attempts \in Nat /\ q.attempts \in Nat /\ s.attempts \in Nat
    BY RecordNumbers
  <2>6. /\ tries[f] + ArchivingCount(f) <= s.attempts /\ s.attempts <= r.attempts
        /\ r.attempts <= q.attempts
    BY <1>3, <2>1, <2>2, <2>3, <2>4 DEF TriesCounted
  <2>7. n <= s.attempts /\ n <= q.attempts /\ s.attempts <= q.attempts
    BY <1>1, <2>5, <2>6
  <2>8. disk'[f] = q \/ disk'[f] = s
    BY <2>3, <2>4
  <2> QED BY <1>3, <2>1, <2>3, <2>4, <2>5, <2>7, <2>8, NoRecordIsNone DEF TriesCounted
<1> QED BY <1>2, <1>3
\* An event whose record, if anything, only goes from the queue to the file.
LEMMA AccountStays ==
    ASSUME IngestInv, IngestInv', AttemptsInv, [IngestNext]_ingestVars, NEW f \in Events,
           queue'[f] = queue[f], disk'[f] = queue'[f] \/ disk'[f] = disk[f],
           tries'[f] = tries[f], LiveCount(f)' <= LiveCount(f),
           ArchivingCount(f)' <= ArchivingCount(f)
    PROVE  Accounted(f)'
<1>1. QueuePaid(f) /\ FilePaid(f) /\ TriesCounted(f)
  BY DEF AttemptsInv, Accounted
<1>2. Granted(f) <= Granted(f)'
  BY GrantedGrows
<1>3. QueuePaid(f)'
  BY <1>1, <1>2, QueuePaidStays
<1>4. FilePaid(f)'
  BY <1>1, <1>2, <1>3, FilePaidKept
<1>5. Queued(f) => queue'[f] # NoRecord /\ queue[f].attempts <= queue'[f].attempts
  <2> SUFFICES ASSUME Queued(f) PROVE queue'[f] # NoRecord /\ queue[f].attempts <= queue'[f].attempts
    OBVIOUS
  <2>1. queue[f].attempts \in Nat
    BY QueuedRecord DEF IngestInv, IngestTypeOK
  <2> QED BY <2>1 DEF Queued
<1>6. TriesCounted(f)'
  BY <1>1, <1>5, TriesCountedKept
<1> QED BY <1>3, <1>4, <1>6 DEF Accounted

\* No drain moves.
LEMMA DrainsStay ==
    ASSUME NEW f, \A x \in Drains : /\ drain'[x].env = drain[x].env
                                    /\ drain'[x].attempts = drain[x].attempts
    PROVE  LiveCount(f)' = LiveCount(f)
<1>1. {x \in Drains : IsLive(x, f)'} = {x \in Drains : IsLive(x, f)}
  BY DEF IsLive
<1> QED BY <1>1 DEF LiveCount

LEMMA CountsStay ==
    ASSUME NEW f, drain' = drain
    PROVE  /\ LiveCount(f)' = LiveCount(f) /\ ArchivingCount(f)' = ArchivingCount(f)
           /\ LiveCount(f)' <= LiveCount(f) /\ ArchivingCount(f)' <= ArchivingCount(f)
<1>1. LiveCount(f)' = LiveCount(f) /\ ArchivingCount(f)' = ArchivingCount(f)
  BY DEF LiveCount, ArchivingCount, IsLive, IsArchiving
<1> QED BY <1>1, CountsAreNumbers

LEMMA EnqueueAccounts ==
    ASSUME IngestInv, IngestInv', AttemptsInv, [IngestNext]_ingestVars,
           NEW e \in Events, EnqueueEvent(e), NEW f \in Events
    PROVE  Accounted(f)'
<1>1. tries' = tries /\ drain' = drain
  BY DEF EnqueueEvent, historyVars
<1>2. /\ LiveCount(f)' = LiveCount(f) /\ ArchivingCount(f)' = ArchivingCount(f)
      /\ LiveCount(f)' <= LiveCount(f) /\ ArchivingCount(f)' <= ArchivingCount(f)
  BY <1>1, CountsStay
<1>3. CASE UNCHANGED <<queueVars, faults>>
  BY <1>1, <1>2, <1>3, AccountStays DEF queueVars
<1>4. ASSUME NEW rec \in MemoryIngestQueueRecord, ~Queued(e),
             rec.status = "pending", rec.attempts = 0,
             \/ WriteOk([queue EXCEPT ![e] = rec])
             \/ WriteRaises([queue EXCEPT ![e] = rec])
      PROVE  Accounted(f)'
  <2>1. queue' = [queue EXCEPT ![e] = rec] /\ (disk' = queue' \/ disk' = disk)
    BY <1>4 DEF WriteOk, WriteRaises
  <2>2. CASE f # e
    <3>1. queue'[f] = queue[f]
      BY <2>1, <2>2 DEF IngestInv, IngestTypeOK, QueueTypeOK
    <3> QED BY <1>1, <1>2, <2>1, <3>1, AccountStays
  <2>3. CASE f = e
    <3>1. queue'[f] = rec /\ rec # NoRecord
      BY <2>1, <2>3, NoRecordIsNone DEF IngestInv, IngestTypeOK, QueueTypeOK
    <3>2. LiveCount(f)' = 0
      BY <1>2, <1>4, <2>3, NobodyAtWork
    <3>3. Spent(rec) = MaxAttempts - 1 /\ Waits(rec) = 1
      BY <1>4, IngestBoundsAssumption DEF Spent, Waits
    <3>4. Granted(f)' \in Int /\ Granted(f)' >= MaxAttempts
      <4>1. Granted(f) \in Int /\ Granted(f) >= MaxAttempts
        BY GrantedIsANumber DEF IngestInv
      <4> QED BY <4>1, GrantedGrows, GrantedStaysANumber, IngestBoundsAssumption
    <3>5. QueuePaid(f)'
      BY <3>1, <3>2, <3>3, <3>4, IngestBoundsAssumption DEF QueuePaid, Spent, Waits
    <3>6. FilePaid(f)'
      BY <2>1, <3>5, FilePaidKept, GrantedGrows DEF AttemptsInv, Accounted
    <3>7. TriesCounted(f)'
      BY <1>1, <1>2, <1>4, <2>1, <2>3, TriesCountedKept DEF AttemptsInv, Accounted
    <3> QED BY <3>5, <3>6, <3>7 DEF Accounted
  <2> QED BY <2>2, <2>3
<1> QED BY <1>3, <1>4, EnqueueWrites

LEMMA ClaimAccounts ==
    ASSUME IngestInv, IngestInv', AttemptsInv, [IngestNext]_ingestVars,
           NEW d \in Drains, NEW e \in Events, ClaimNext(d, e), NEW f \in Events
    PROVE  Accounted(f)'
<1>1. PICK rec \in MemoryIngestQueueRecord :
          /\ Claimable(e) /\ queue[e] \in MemoryIngestQueueRecord /\ drain[d].pc = "claim"
          /\ rec.status = "processing" /\ rec.attempts = queue[e].attempts + 1
          /\ \/ /\ WriteOk([queue EXCEPT ![e] = rec])
                /\ drain' = [drain EXCEPT ![d] = [pc |-> "archive", env |-> e,
                                                  attempts |-> rec.attempts, now |-> clock]]
             \/ WriteRaises([queue EXCEPT ![e] = rec]) /\ DrainRaises(d)
  BY ClaimWrites
<1>2. drain[d].env = NoRecord /\ tries' = tries
  BY <1>1 DEF IngestInv, DrainsHold, Holds, At, ClaimNext
<1>3. queue' = [queue EXCEPT ![e] = rec] /\ (disk' = queue' \/ disk' = disk)
  BY <1>1 DEF WriteOk, WriteRaises
<1>4. ~IsLive(d, f) /\ ~IsArchiving(d, f)
  BY <1>2, NoRecordIsNone DEF IsLive, IsArchiving
<1>5. \A x \in Drains \ {d} : drain'[x] = drain[x]
  BY <1>1 DEF DrainRaises, IngestInv, IngestTypeOK, DrainTypeOK
<1>6. /\ LiveCount(f) \in Nat /\ ArchivingCount(f) \in Nat
      /\ LiveCount(f)' \in Nat /\ ArchivingCount(f)' \in Nat
  BY CountsAreNumbers
<1>7. /\ LiveCount(f)' = LiveCount(f) + (IF IsLive(d, f)' THEN 1 ELSE 0)
      /\ ArchivingCount(f)' = ArchivingCount(f) + (IF IsArchiving(d, f)' THEN 1 ELSE 0)
  BY <1>4, <1>5, <1>6, LiveAfter, ArchivingAfter
<1>8. \/ /\ disk' = queue' /\ drain'[d].env = e /\ drain'[d].attempts = rec.attempts
         /\ drain'[d].pc = "archive"
      \/ disk' = disk /\ drain'[d].env = NoRecord
  <2>1. CASE /\ WriteOk([queue EXCEPT ![e] = rec])
             /\ drain' = [drain EXCEPT ![d] = [pc |-> "archive", env |-> e,
                                               attempts |-> rec.attempts, now |-> clock]]
    BY <2>1 DEF WriteOk, IngestInv, IngestTypeOK, DrainTypeOK
  <2>2. CASE WriteRaises([queue EXCEPT ![e] = rec]) /\ DrainRaises(d)
    BY <2>2, DrainIsLeft DEF WriteRaises
  <2> QED BY <1>1, <2>1, <2>2
<1>9. CASE f # e
  <2>1. ~(IsLive(d, f)') /\ ~(IsArchiving(d, f)')
    BY <1>8, <1>9, NoRecordIsNone DEF IsLive, IsArchiving
  <2>2. LiveCount(f)' <= LiveCount(f) /\ ArchivingCount(f)' <= ArchivingCount(f)
    BY <1>6, <1>7, <2>1
  <2>3. queue'[f] = queue[f]
    BY <1>3, <1>9 DEF IngestInv, IngestTypeOK, QueueTypeOK
  <2> QED BY <1>2, <1>3, <2>2, <2>3, AccountStays
<1>10. CASE f = e
  <2>1. PICK r \in MemoryIngestQueueRecord : r = queue[f]
    BY <1>1, <1>10
  <2>2. queue'[f] = rec /\ rec # NoRecord /\ Queued(f) /\ rec.attempts = r.attempts + 1
    BY <1>1, <1>3, <1>10, <2>1, NoRecordIsNone DEF IngestInv, IngestTypeOK, QueueTypeOK, Claimable
  <2>3. /\ r.attempts \in Nat /\ Spent(r) \in Nat /\ Waits(r) = 1
        /\ rec.attempts \in Nat /\ Spent(rec) \in Nat /\ Waits(rec) = 0
    BY <1>1, <1>10, <2>1, RecordNumbers DEF Claimable
  <2>4. Spent(rec) <= Spent(r) + 1 /\ (rec.attempts < MaxAttempts => Spent(rec) = Spent(r))
    BY <2>2, SpentOneMore
  <2>5. Spent(r) + 1 + LiveCount(f) <= Granted(f)
    BY <2>1, <2>2, <2>3 DEF AttemptsInv, Accounted, QueuePaid
  <2>6. Granted(f) <= Granted(f)' /\ Granted(f) \in Int /\ Granted(f)' \in Int
    BY GrantedGrows, GrantedStaysANumber
  <2>7. IsLive(d, f)' => rec.attempts < MaxAttempts
    BY <1>8, NoRecordIsNone DEF IsLive
  <2>8. Spent(rec) + LiveCount(f)' <= Spent(r) + 1 + LiveCount(f)
    BY <1>6, <1>7, <2>3, <2>4, <2>7
  <2>9. Spent(rec) + Waits(rec) + LiveCount(f)' <= Granted(f)'
    BY <1>6, <2>3, <2>5, <2>6, <2>8
  <2>10. QueuePaid(f)'
    BY <2>2, <2>9 DEF QueuePaid, Spent, Waits
  <2>11. FilePaid(f)'
    BY <1>3, <2>6, <2>10, FilePaidKept DEF AttemptsInv, Accounted
  <2>12. TriesCounted(f)'
    <3>1. CASE disk' = queue'
      <4>1. tries[f] + ArchivingCount(f) <= r.attempts
        <5>1. CASE disk[f] = NoRecord
          <6>1. tries[f] = 0 /\ ArchivingCount(f) = 0
            BY <5>1, NobodyAtWork DEF AttemptsInv, Accounted, TriesCounted
          <6> QED BY <2>3, <6>1
        <5>2. CASE disk[f] # NoRecord
          <6>1. PICK s \in MemoryIngestQueueRecord : s = disk[f]
            BY <5>2 DEF IngestInv, IngestTypeOK, QueueTypeOK
          <6>2. s.attempts \in Nat
            BY RecordNumbers
          <6>3. tries[f] + ArchivingCount(f) <= s.attempts /\ s.attempts <= r.attempts
            BY <2>1, <5>2, <6>1 DEF AttemptsInv, Accounted, TriesCounted
          <6>4. tries[f] \in Nat
            BY DEF IngestInv, IngestTypeOK, HistoryTypeOK
          <6> QED BY <1>6, <2>3, <6>2, <6>3, <6>4
        <5> QED BY <5>1, <5>2
      <4>2. tries[f] \in Nat
        BY DEF IngestInv, IngestTypeOK, HistoryTypeOK
      <4>3. tries'[f] + ArchivingCount(f)' <= rec.attempts
        BY <1>2, <1>6, <1>7, <2>2, <2>3, <4>1, <4>2
      <4>4. disk'[f] = rec
        BY <2>2, <3>1
      <4> QED BY <2>2, <2>3, <4>3, <4>4 DEF TriesCounted
    <3>2. CASE disk' = disk /\ drain'[d].env = NoRecord
      <4>1. ArchivingCount(f)' <= ArchivingCount(f)
        BY <1>6, <1>7, <3>2, NoRecordIsNone DEF IsArchiving
      <4>2. queue[f].attempts <= queue'[f].attempts
        BY <2>1, <2>2, <2>3
      <4>3. TriesCounted(f) /\ tries'[f] = tries[f] /\ queue'[f] # NoRecord /\ disk'[f] = disk[f]
        BY <1>2, <2>2, <3>2 DEF AttemptsInv, Accounted
      <4> QED BY <4>1, <4>2, <4>3, TriesCountedKept
    <3> QED BY <1>8, <3>1, <3>2
  <2> QED BY <2>10, <2>11, <2>12 DEF Accounted
<1> QED BY <1>9, <1>10
LEMMA MarkAccounts ==
    ASSUME IngestInv, IngestInv', AttemptsInv, [IngestNext]_ingestVars,
           NEW d \in Drains, MarkProcessed(d) \/ MarkUnprocessed(d), NEW f \in Events
    PROVE  Accounted(f)'
<1> DEFINE e == drain[d].env
<1>1. PICK rec \in MemoryIngestQueueRecord :
          /\ rec.attempts = queue[e].attempts
          /\ rec.status \in {"processed", "failed", "retrying"}
          /\ rec.status = "retrying" => drain[d].attempts < MaxAttempts
          /\ \/ WriteOk([queue EXCEPT ![e] = rec]) /\ NextClaim(d)
             \/ WriteRaises([queue EXCEPT ![e] = rec]) /\ DrainRaises(d)
  BY MarkWrites
<1>2. /\ At(d) /\ drain[d].pc # "archive" /\ queue[e] \in MemoryIngestQueueRecord
      /\ tries' = tries
  BY MarkWrites DEF historyVars
<1>3. queue' = [queue EXCEPT ![e] = rec] /\ (disk' = queue' \/ disk' = disk)
  BY <1>1 DEF WriteOk, WriteRaises
<1>4. drain'[d].env = NoRecord /\ \A x \in Drains \ {d} : drain'[x] = drain[x]
  BY <1>1, DrainIsLeft
<1>5. /\ LiveCount(f) \in Nat /\ ArchivingCount(f) \in Nat
      /\ LiveCount(f)' \in Nat /\ ArchivingCount(f)' \in Nat
  BY CountsAreNumbers
<1>6. ~(IsLive(d, f)') /\ ~(IsArchiving(d, f)')
  BY <1>4, NoRecordIsNone DEF IsLive, IsArchiving
<1>7. /\ LiveCount(f)' = LiveCount(f) - (IF IsLive(d, f) THEN 1 ELSE 0)
      /\ ArchivingCount(f)' = ArchivingCount(f) - (IF IsArchiving(d, f) THEN 1 ELSE 0)
  BY <1>4, <1>5, <1>6, LiveAfter, ArchivingAfter
<1>8. LiveCount(f)' <= LiveCount(f) /\ ArchivingCount(f)' <= ArchivingCount(f)
  BY <1>5, <1>7
<1>9. CASE f # e
  <2>1. queue'[f] = queue[f]
    BY <1>3, <1>9 DEF IngestInv, IngestTypeOK, QueueTypeOK
  <2> QED BY <1>2, <1>3, <1>8, <2>1, AccountStays
<1>10. CASE f = e
  <2>1. PICK r \in MemoryIngestQueueRecord : r = queue[f]
    BY <1>2, <1>10
  <2>2. queue'[f] = rec /\ rec # NoRecord /\ r # NoRecord /\ rec.attempts = r.attempts
    BY <1>1, <1>3, <1>10, <2>1, NoRecordIsNone DEF IngestInv, IngestTypeOK, QueueTypeOK
  <2>3. /\ r.attempts \in Nat /\ Spent(r) \in Nat /\ Waits(r) \in Nat
        /\ Spent(rec) = Spent(r) /\ Waits(rec) \in {0, 1}
    BY <2>2, RecordNumbers, SpentOneMore
  <2>4. Waits(rec) = 1 => IsLive(d, f)
    BY <1>1, <1>10 DEF Waits, IsLive
  <2>5. Spent(r) + Waits(r) + LiveCount(f) <= Granted(f)
    BY <2>1, <2>2 DEF AttemptsInv, Accounted, QueuePaid, Queued
  <2>6. Granted(f) <= Granted(f)' /\ Granted(f) \in Int /\ Granted(f)' \in Int
    BY GrantedGrows, GrantedStaysANumber
  <2>7. Waits(rec) + LiveCount(f)' <= LiveCount(f)
    BY <1>5, <1>7, <2>3, <2>4
  <2>8. Spent(rec) + Waits(rec) + LiveCount(f)' <= Granted(f)'
    BY <1>5, <2>3, <2>5, <2>6, <2>7
  <2>9. QueuePaid(f)'
    BY <2>2, <2>8 DEF QueuePaid, Spent, Waits
  <2>10. FilePaid(f)'
    BY <1>3, <2>6, <2>9, FilePaidKept DEF AttemptsInv, Accounted
  <2>11. queue[f].attempts <= queue'[f].attempts /\ queue'[f] # NoRecord
    BY <2>1, <2>2, <2>3
  <2>12. TriesCounted(f)'
    BY <1>2, <1>3, <1>8, <2>11, TriesCountedKept DEF AttemptsInv, Accounted
  <2> QED BY <2>9, <2>10, <2>12 DEF Accounted
<1> QED BY <1>9, <1>10

\* The call that is counted was claimed before.
LEMMA ArchiveAccounts ==
    ASSUME IngestInv, IngestInv', AttemptsInv, [IngestNext]_ingestVars,
           NEW d \in Drains, IngestArchive(d), NEW f \in Events
    PROVE  Accounted(f)'
<1> DEFINE e == drain[d].env
<1>1. /\ drain[d].pc = "archive" /\ tries' = [tries EXCEPT ![e] = @ + 1]
      /\ queue' = queue /\ disk' = disk
  BY DEF IngestArchive, queueVars
<1>2. PICK p \in {"goal", "processed", "failed"} : drain' = [drain EXCEPT ![d].pc = p]
  BY DEF IngestArchive
<1>3. /\ drain'[d].pc = p /\ drain'[d].env = e
      /\ \A x \in Drains \ {d} : drain'[x] = drain[x]
  BY <1>2, DrainGoesOn
<1>4. LiveCount(f)' = LiveCount(f)
  BY DrainKeepsItsEvent, DrainsStay
<1>5. /\ LiveCount(f) \in Nat /\ ArchivingCount(f) \in Nat
      /\ LiveCount(f)' \in Nat /\ ArchivingCount(f)' \in Nat
  BY CountsAreNumbers
<1>6. ~(IsArchiving(d, f)')
  BY <1>2, <1>3 DEF IsArchiving
<1>7. ArchivingCount(f)' = ArchivingCount(f) - (IF IsArchiving(d, f) THEN 1 ELSE 0)
  BY <1>3, <1>5, <1>6, ArchivingAfter
<1>8. LiveCount(f)' <= LiveCount(f) /\ ArchivingCount(f)' <= ArchivingCount(f)
  BY <1>4, <1>5, <1>7
<1>9. CASE f # e
  <2>1. tries'[f] = tries[f]
    BY <1>1, <1>9 DEF IngestInv, IngestTypeOK, HistoryTypeOK
  <2> QED BY <1>1, <1>8, <2>1, AccountStays
<1>10. CASE f = e
  <2>1. QueuePaid(f)'
    BY <1>1, <1>8, QueuePaidStays, GrantedGrows DEF AttemptsInv, Accounted
  <2>2. FilePaid(f)'
    BY <1>1, <2>1, FilePaidKept, GrantedGrows DEF AttemptsInv, Accounted
  <2>3. tries[f] \in Nat /\ tries'[f] = tries[f] + 1
    BY <1>1, <1>10 DEF IngestInv, IngestTypeOK, HistoryTypeOK
  <2>4. ArchivingCount(f)' = ArchivingCount(f) - 1
    BY <1>1, <1>5, <1>7, <1>10 DEF IsArchiving
  <2>5. disk[f] # NoRecord
    BY <1>1, <1>10 DEF IngestInv, DrainsHold, Holds, At
  <2>6. tries'[f] + ArchivingCount(f)' = tries[f] + ArchivingCount(f)
    BY <1>5, <2>3, <2>4
  <2>7. TriesCounted(f)'
    BY <1>1, <2>5, <2>6 DEF AttemptsInv, Accounted, TriesCounted
  <2> QED BY <2>1, <2>2, <2>7 DEF Accounted
<1> QED BY <1>9, <1>10

LEMMA GoalOrEndAccounts ==
    ASSUME IngestInv, IngestInv', AttemptsInv, [IngestNext]_ingestVars,
           NEW d \in Drains, EndDrain(d) \/ IngestGoal(d), NEW f \in Events
    PROVE  Accounted(f)'
<1>1. PICK p \in {"processed", "failed", "done"} :
          /\ drain' = [drain EXCEPT ![d].pc = p]
          /\ queue' = queue /\ disk' = disk /\ tries' = tries
  BY DEF EndDrain, IngestGoal, queueVars, historyVars
<1>2. LiveCount(f)' = LiveCount(f)
  BY DrainKeepsItsEvent, DrainsStay
<1>3. drain'[d].pc = p /\ \A x \in Drains \ {d} : drain'[x] = drain[x]
  BY <1>1, DrainGoesOn
<1>4. ~(IsArchiving(d, f)')
  BY <1>1, <1>3 DEF IsArchiving
<1>5. LiveCount(f)' <= LiveCount(f) /\ ArchivingCount(f)' <= ArchivingCount(f)
  BY <1>2, <1>3, <1>4, ArchivingAfter, CountsAreNumbers
<1> QED BY <1>1, <1>5, AccountStays

\* recover_inflight pays for the claim of a record either as the crash it makes
\* good or as the work it takes from under a drain's feet.
LEMMA RecoverAccounts ==
    ASSUME IngestInv, IngestInv', OwnedInv, AttemptsInv, [IngestNext]_ingestVars,
           RecoverInflight, NEW f \in Events
    PROVE  Accounted(f)'
<1>1. PICK new \in [Events -> MemoryIngestQueueRecord \cup {NoRecord}] :
          /\ WriteOk(new) \/ WriteRaises(new)
          /\ IF HasStatus(f, "processing")
             THEN /\ new[f] \in MemoryIngestQueueRecord /\ new[f].status = "pending"
                  /\ new[f].attempts = queue[f].attempts
             ELSE new[f] = queue[f]
  BY RecoverWrites
<1>2. queue' = new /\ (disk' = queue' \/ disk' = disk)
  BY <1>1 DEF WriteOk, WriteRaises
<1>3. /\ recovery = "todo" /\ recovery' = "done" /\ drain' = drain /\ tries' = tries
      /\ stolen' = stolen \cup {e \in {x \in Events : HasStatus(x, "processing")} :
                                   \E d \in Drains : drain[d].env = e}
  BY DEF RecoverInflight
<1>4. /\ LiveCount(f)' = LiveCount(f) /\ ArchivingCount(f)' = ArchivingCount(f)
      /\ LiveCount(f)' <= LiveCount(f) /\ ArchivingCount(f)' <= ArchivingCount(f)
  BY <1>3, CountsStay
<1>5. CASE ~HasStatus(f, "processing")
  BY <1>1, <1>2, <1>3, <1>4, <1>5, AccountStays
<1>6. CASE HasStatus(f, "processing")
  <2>1. PICK r \in MemoryIngestQueueRecord : r = queue[f]
    BY <1>6, QueuedRecord DEF HasStatus, IngestInv, IngestTypeOK
  <2>2. PICK q \in MemoryIngestQueueRecord :
            q = queue'[f] /\ q.status = "pending" /\ q.attempts = r.attempts
    BY <1>1, <1>2, <1>6, <2>1
  <2>3. r.status = "processing" /\ Queued(f) /\ q # NoRecord
    BY <1>6, <2>1, NoRecordIsNone DEF HasStatus
  <2>4. /\ r.attempts \in Nat /\ Spent(r) \in Nat /\ Spent(q) = Spent(r)
        /\ Waits(r) = 0 /\ Waits(q) = 1
    BY <2>2, <2>3, RecordNumbers, SpentOneMore
  <2>5. Spent(r) + LiveCount(f) <= Granted(f)
    BY <2>1, <2>3, <2>4, CountsAreNumbers DEF AttemptsInv, Accounted, QueuePaid
  <2>6. Granted(f) + 1 <= Granted(f)'
    <3>1. /\ faults \in Nat /\ faults' \in Nat /\ faults <= faults' /\ MaxAttempts \in Nat
      BY <1>1, FaultsGrow, IngestBoundsAssumption
    <3>2. PICK b \in Nat : b = IF f \in stolen THEN 1 ELSE 0
      OBVIOUS
    <3>3. PICK c \in Nat : c = IF f \in stolen' THEN 1 ELSE 0
      OBVIOUS
    <3>4. b <= c
      BY <1>3, <3>2, <3>3
    <3>5. PICK k \in Nat : k = MaxAttempts
      BY <3>1
    <3>6. PICK m \in Nat : m = faults
      BY <3>1
    <3>7. PICK n \in Nat : n = faults'
      BY <3>1
    <3>8. m <= n /\ Granted(f)' = k + n - 0 + c
      BY <1>3, <3>1, <3>3, <3>5, <3>6, <3>7 DEF Granted
    <3>9. CASE faults > 0
      <4>1. Granted(f) = k + m - 1 + b
        BY <1>3, <3>2, <3>5, <3>9, <3>6 DEF Granted
      <4> QED BY <3>4, <3>8, <4>1
    <3>10. CASE faults = 0
      <4>1. \E d \in Drains : drain[d].env = f
        BY <1>6, <3>10 DEF OwnedInv, Owned
      <4>2. b = 0 /\ c = 1
        BY <1>3, <1>6, <3>2, <3>3, <3>10, <4>1 DEF AttemptsInv
      <4>3. Granted(f) = k + 0 - 0 + b
        BY <3>2, <3>5, <3>10 DEF Granted
      <4> QED BY <3>8, <4>2, <4>3
    <3> QED BY <3>1, <3>9, <3>10
  <2>7. Granted(f) \in Int /\ Granted(f)' \in Int /\ LiveCount(f) \in Nat
    BY GrantedStaysANumber, CountsAreNumbers
  <2>8. Spent(q) + Waits(q) + LiveCount(f)' <= Granted(f)'
    BY <1>4, <2>4, <2>5, <2>6, <2>7
  <2>9. QueuePaid(f)'
    BY <2>2, <2>8 DEF QueuePaid, Spent, Waits
  <2>10. FilePaid(f)'
    BY <1>2, <2>9, FilePaidKept, GrantedGrows DEF AttemptsInv, Accounted
  <2>11. queue[f].attempts <= queue'[f].attempts /\ queue'[f] # NoRecord
    BY <2>1, <2>2, <2>3, <2>4
  <2>12. TriesCounted(f)'
    BY <1>2, <1>3, <1>4, <2>11, TriesCountedKept DEF AttemptsInv, Accounted
  <2> QED BY <2>9, <2>10, <2>12 DEF Accounted
<1> QED BY <1>5, <1>6

LEMMA CrashAccounts ==
    ASSUME IngestInv, IngestInv', AttemptsInv, [IngestNext]_ingestVars, Crash, NEW f \in Events
    PROVE  Accounted(f)'
<1>1. queue' = disk /\ disk' = disk /\ tries' = tries /\ drain' = [d \in Drains |-> IdleDrain]
  BY DEF Crash
<1>2. Granted(f) <= Granted(f)' /\ Granted(f) \in Int /\ Granted(f)' \in Int
  BY GrantedGrows, GrantedStaysANumber
<1>3. LiveCount(f)' = 0 /\ ArchivingCount(f)' = 0
  <2>1. \A d \in Drains : drain'[d].env # f
    BY <1>1, IdleDrainIsAState, NoRecordIsNone
  <2>2. /\ {d \in Drains : IsLive(d, f)'} = {}
        /\ {d \in Drains : IsArchiving(d, f)'} = {}
    BY <2>1 DEF IsLive, IsArchiving
  <2> QED BY <2>2, FS_EmptySet DEF LiveCount, ArchivingCount
<1>4. CASE disk[f] = NoRecord
  BY <1>1, <1>4 DEF Accounted, QueuePaid, FilePaid, TriesCounted, AttemptsInv, Queued
<1>5. CASE disk[f] # NoRecord
  <2>1. PICK s \in MemoryIngestQueueRecord : s = disk[f]
    BY <1>5 DEF IngestInv, IngestTypeOK, QueueTypeOK
  <2>2. s.attempts \in Nat /\ Spent(s) \in Nat /\ Waits(s) \in Nat
    BY RecordNumbers
  <2>3. /\ Spent(s) + Waits(s) <= Granted(f) /\ tries[f] + ArchivingCount(f) <= s.attempts
    BY <1>5, <2>1 DEF AttemptsInv, Accounted, FilePaid, TriesCounted
  <2>4. tries[f] \in Nat /\ ArchivingCount(f) \in Nat
    BY CountsAreNumbers DEF IngestInv, IngestTypeOK, HistoryTypeOK
  <2>5. Spent(s) + Waits(s) <= Granted(f)' /\ Spent(s) + Waits(s) + 0 <= Granted(f)'
    BY <1>2, <2>2, <2>3
  <2>6. QueuePaid(f)' /\ FilePaid(f)'
    BY <1>1, <1>3, <2>1, <2>5 DEF QueuePaid, FilePaid, Spent, Waits
  <2>7. tries[f] + 0 <= s.attempts
    BY <2>2, <2>3, <2>4
  <2>8. TriesCounted(f)'
    BY <1>1, <1>3, <1>5, <2>1, <2>2, <2>7 DEF TriesCounted
  <2> QED BY <2>6, <2>8 DEF Accounted
<1> QED BY <1>4, <1>5

LEMMA AttemptsKept ==
    ASSUME IngestInv, IngestInv', OwnedInv, AttemptsInv, [IngestNext]_ingestVars
    PROVE  AttemptsInv'
<1>1. recovery' = "todo" /\ faults' = 0 => stolen' = {}
  <2>1. faults \in Nat /\ faults' \in Nat
    BY DEF IngestInv, IngestTypeOK, HistoryTypeOK
  <2>2. CASE Crash
    BY <2>1, <2>2 DEF Crash, Fault
  <2>3. CASE RecoverInflight
    BY <2>3 DEF RecoverInflight
  <2>4. CASE recovery' = recovery /\ stolen' = stolen /\ faults' \in {faults, faults + 1}
    BY <2>1, <2>4 DEF AttemptsInv
  <2>5. ASSUME NEW d \in Drains, DrainStep(d)
        PROVE  recovery' = recovery /\ stolen' = stolen /\ faults' \in {faults, faults + 1}
    BY <2>5 DEF DrainStep, ClaimNext, EndDrain, IngestArchive, IngestGoal, MarkProcessed,
                MarkUnprocessed, Mark, WriteOk, WriteRaises, Fault, historyVars
  <2>6. ASSUME NEW e \in Events, RecordEvent(e) \/ EnqueueEvent(e)
        PROVE  recovery' = recovery /\ stolen' = stolen /\ faults' \in {faults, faults + 1}
    BY <2>6 DEF RecordEvent, EnqueueEvent, WriteOk, WriteRaises, Fault, historyVars
  <2>7. CASE ClockTick \/ UNCHANGED ingestVars
    BY <2>4, <2>7 DEF ClockTick, ingestVars, historyVars
  <2> QED BY <2>2, <2>3, <2>4, <2>5, <2>6, <2>7 DEF IngestNext
<1>2. ASSUME NEW f \in Events PROVE Accounted(f)'
  <2>1. ASSUME NEW d \in Drains, DrainStep(d) PROVE Accounted(f)'
    BY <2>1, ClaimAccounts, MarkAccounts, ArchiveAccounts, GoalOrEndAccounts DEF DrainStep
  <2>2. ASSUME UNCHANGED <<queueVars, drain, tries>> PROVE Accounted(f)'
    <3>1. drain' = drain /\ queue' = queue /\ disk' = disk /\ tries' = tries
      BY <2>2 DEF queueVars
    <3> QED BY <3>1, CountsStay, AccountStays
  <2>3. ASSUME NEW e \in Events, RecordEvent(e) PROVE Accounted(f)'
    BY <2>2, <2>3 DEF RecordEvent, historyVars
  <2>4. CASE ClockTick \/ UNCHANGED ingestVars
    BY <2>2, <2>4 DEF ClockTick, ingestVars, historyVars
  <2> QED BY <2>1, <2>3, <2>4, EnqueueAccounts, RecoverAccounts, CrashAccounts DEF IngestNext
<1> QED BY <1>1, <1>2 DEF AttemptsInv

LEMMA AttemptsInitInv == ASSUME IngestInit PROVE AttemptsInv
<1>1. \A e \in Events : queue[e] = NoRecord /\ disk[e] = NoRecord /\ tries[e] = 0
  BY DEF IngestInit
<1> QED BY <1>1 DEF IngestInit, AttemptsInv, Accounted, QueuePaid, FilePaid, TriesCounted, Queued

\* The attempts on record, in the queue and in its file, and the permissions for
\* more of them never exceed what MaxAttempts and the faults grant; and the calls
\* of the hub never exceed the attempts in the file.
THEOREM AttemptsInvariance == IngestSpec => []AttemptsInv
<1>1. IngestInit => AttemptsInv
  BY AttemptsInitInv
<1>2. /\ IngestInv /\ IngestInv' /\ OwnedInv /\ AttemptsInv /\ [IngestNext]_ingestVars
      => AttemptsInv'
  BY AttemptsKept
<1> QED BY <1>1, <1>2, IngestInvariance, OwnedInvariance, PTL DEF IngestSpec

\* The worker calls ingest_session_event for an event at most MaxAttempts times,
\* and once more for each crash or failed write of the queue and once for work
\* that recover_inflight took from under its feet: the cache that runs ahead of
\* the file, the startup drain beside the loop and the marks of records another
\* drain has claimed never add a call that none of these pays for.
THEOREM TriesAreBounded == IngestSpec => []TriesWithinBudget
<1>1. IngestInv /\ AttemptsInv => TriesWithinBudget
  <2> SUFFICES ASSUME IngestInv, AttemptsInv, NEW e \in Events
               PROVE  tries[e] <= MaxAttempts + faults + (IF e \in stolen THEN 1 ELSE 0)
    BY DEF TriesWithinBudget
  <2>1. PICK b \in Nat : b = IF e \in stolen THEN 1 ELSE 0
    OBVIOUS
  <2>2. tries[e] \in Nat /\ faults \in Nat /\ MaxAttempts \in Nat
    BY IngestBoundsAssumption DEF IngestInv, IngestTypeOK, HistoryTypeOK
  <2>3. Granted(e) <= MaxAttempts + faults + b /\ Granted(e) \in Int
    <3>1. PICK c \in Nat : c = IF recovery = "todo" /\ faults > 0 THEN 1 ELSE 0
      OBVIOUS
    <3>2. Granted(e) = MaxAttempts + faults - c + b
      BY <2>1, <3>1 DEF Granted
    <3> QED BY <2>1, <2>2, <3>1, <3>2
  <2>4. CASE disk[e] = NoRecord
    <3>1. tries[e] = 0
      BY <2>4 DEF AttemptsInv, Accounted, TriesCounted
    <3> QED BY <2>1, <2>2, <3>1
  <2>5. CASE disk[e] # NoRecord
    <3>1. PICK s \in MemoryIngestQueueRecord : s = disk[e]
      BY <2>5 DEF IngestInv, IngestTypeOK, QueueTypeOK
    <3>2. /\ s.attempts \in Nat /\ Spent(s) \in Nat /\ Waits(s) \in Nat /\ s.attempts <= Spent(s)
      BY RecordNumbers
    <3>3. Spent(s) + Waits(s) <= Granted(e) /\ tries[e] + ArchivingCount(e) <= s.attempts
      BY <2>5, <3>1 DEF AttemptsInv, Accounted, FilePaid, TriesCounted
    <3>4. ArchivingCount(e) \in Nat
      BY CountsAreNumbers
    <3> QED BY <2>1, <2>2, <2>3, <3>2, <3>3, <3>4
  <2> QED BY <2>4, <2>5
<1> QED BY <1>1, IngestInvariance, AttemptsInvariance, PTL
(***************************************************************************)
(* The resident goal.  The file is an earlier state of the queue, and both *)
(* were filled in the order of their numbers and claimed in that order the *)
(* first time.  So a drain that has the first attempt of an event in hand, *)
(* with no other drain at work, knows that nothing after it was tried yet. *)
(***************************************************************************)
InQueue(q) == {e \in Events : q[e] # NoRecord}

\* The records of q are numbered as they came, and tried first in that order.
InOrder(q) ==
    /\ \A e \in InQueue(q) : q[e].seq <= Cardinality(InQueue(q))
    /\ \A e \in InQueue(q) : q[e].attempts = 0 => q[e].status = "pending"
    /\ \A r, e \in InQueue(q) :
          q[r].attempts = 0 /\ q[r].seq < q[e].seq => q[e].attempts = 0

\* A record of the file is an earlier state of the one in the queue.
Aged(e) ==
    disk[e] # NoRecord
    => queue[e].seq = disk[e].seq /\ disk[e].attempts <= queue[e].attempts

\* The attempt of a drain is on record in the file.
Counted(d) == At(d) => disk[drain[d].env].attempts >= 1

Processed(e) == \E rec \in {queue[e], disk[e]} : rec # NoRecord /\ rec.status = "processed"
FirstGo(e) == disk[e].attempts <= 1 /\ e \notin overlapped
After(e, r) == Queued(e) /\ queue[r].seq < queue[e].seq

NothingAfter(r) ==
    \A e \in Events : After(e, r) => ~Processed(e) /\ \A d \in Drains : drain[d].env # e

Leads(d) ==
    drain[d].pc \in {"archive", "goal"} /\ FirstGo(drain[d].env) => NothingAfter(drain[d].env)

\* The goal of e is in the hub, or was when a drain left it there.
GoalDone(e) ==
    Processed(e) \/ \E d \in Drains : drain[d].env = e /\ drain[d].pc = "processed"

GoalIsLast(r) ==
    /\ disk[r] # NoRecord
    /\ FirstGo(r) => \A e \in GoalEvents : After(e, r) => ~GoalDone(e)

OrderInv ==
    /\ InOrder(queue) /\ InOrder(disk)
    /\ \A e \in Events : Aged(e)
    /\ \A d \in Drains : Counted(d) /\ Leads(d)
    /\ resident # NoRecord => GoalIsLast(resident)

LEMMA FileRecord ==
    ASSUME QueueTypeOK, NEW e \in Events, disk[e] # NoRecord
    PROVE  /\ disk[e] \in MemoryIngestQueueRecord /\ disk[e].attempts \in Nat
           /\ disk[e].seq \in Nat \ {0}
  BY DEF QueueTypeOK, MemoryIngestQueueRecord

\* What every step but a crash does to a record, to its number and its attempts.
Follows(e) ==
    Queued(e) => /\ queue'[e] # NoRecord /\ queue'[e].seq = queue[e].seq
                 /\ queue[e].attempts <= queue'[e].attempts

\* Nothing joins the queue, and a first attempt is made in the order of the queue.
LEMMA OrderKept ==
    ASSUME QueueTypeOK, QueueTypeOK', InOrder(queue),
           \A e \in Events : Follows(e) /\ (~Queued(e) => queue'[e] = NoRecord),
           \A e \in Events : Queued(e) /\ queue'[e].attempts = 0 => queue'[e].status = "pending",
           \A r, e \in Events : /\ Queued(r) /\ Queued(e) /\ queue'[r].attempts = 0
                                /\ queue[r].seq < queue[e].seq
                                => queue'[e].attempts = 0
    PROVE  InOrder(queue')
<1>1. InQueue(queue') = InQueue(queue)
  BY DEF InQueue, Queued, Follows
<1>2. \A e \in InQueue(queue) : e \in Events /\ Queued(e) /\ queue'[e].seq = queue[e].seq
  BY DEF InQueue, Queued, Follows
<1>3. \A e \in InQueue(queue') : queue'[e].seq <= Cardinality(InQueue(queue'))
  BY <1>1, <1>2 DEF InOrder
<1>4. \A e \in InQueue(queue') : queue'[e].attempts = 0 => queue'[e].status = "pending"
  BY <1>1, <1>2
<1>5. \A r, e \in InQueue(queue') :
         queue'[r].attempts = 0 /\ queue'[r].seq < queue'[e].seq => queue'[e].attempts = 0
  BY <1>1, <1>2
<1> QED BY <1>3, <1>4, <1>5 DEF InOrder

LEMMA OrderWritten ==
    ASSUME InOrder(queue'), InOrder(disk), disk' = disk \/ disk' = queue'
    PROVE  InOrder(disk')
<1>1. CASE disk' = disk
  BY <1>1
<1>2. CASE disk' = queue'
  BY <1>2
<1> QED BY <1>1, <1>2

\* The file after such a step.
LEMMA FileFollows ==
    ASSUME IngestInv, IngestInv', NEW e \in Events, Aged(e), Follows(e),
           disk' = disk \/ disk' = queue'
    PROVE  /\ Aged(e)'
           /\ disk[e] # NoRecord => /\ disk'[e] # NoRecord
                                    /\ disk[e].attempts <= disk'[e].attempts
<1>1. CASE disk[e] = NoRecord
  <2>1. CASE disk' = disk
    BY <1>1, <2>1 DEF Aged
  <2>2. CASE disk' = queue' /\ queue'[e] = NoRecord
    BY <1>1, <2>2 DEF Aged
  <2>3. CASE disk' = queue' /\ queue'[e] # NoRecord
    <3>1. queue'[e].attempts \in Nat
      BY <2>3 DEF IngestInv, IngestTypeOK, QueueTypeOK, MemoryIngestQueueRecord
    <3> QED BY <1>1, <2>3, <3>1 DEF Aged
  <2> QED BY <2>1, <2>2, <2>3
<1>2. CASE disk[e] # NoRecord
  <2>1. Queued(e) /\ disk[e].attempts \in Nat /\ queue[e].attempts \in Nat
    BY <1>2, FileRecord, QueuedRecord DEF IngestInv, IngestTypeOK, FileIsOlder
  <2>2. /\ queue'[e] # NoRecord /\ queue'[e].seq = queue[e].seq
        /\ queue[e].attempts <= queue'[e].attempts
    BY <2>1 DEF Follows
  <2>3. queue'[e].attempts \in Nat
    BY <2>2 DEF IngestInv, IngestTypeOK, QueueTypeOK, MemoryIngestQueueRecord
  <2>4. disk[e].attempts <= queue'[e].attempts
    <3>1. PICK a \in Nat, b \in Nat, c \in Nat :
              a = disk[e].attempts /\ b = queue[e].attempts /\ c = queue'[e].attempts
      BY <2>1, <2>3
    <3>2. a <= b /\ b <= c
      BY <1>2, <2>2, <3>1 DEF Aged
    <3> QED BY <3>1, <3>2
  <2>5. queue'[e].seq = disk[e].seq
    BY <1>2, <2>2 DEF Aged
  <2>6. CASE disk' = disk
    BY <1>2, <2>1, <2>4, <2>5, <2>6 DEF Aged
  <2>7. CASE disk' = queue'
    BY <1>2, <2>2, <2>3, <2>4, <2>7 DEF Aged
  <2> QED BY <2>6, <2>7
<1> QED BY <1>1, <1>2

\* A step but a crash, for all records.
Forward ==
    /\ \A e \in Events : Follows(e)
    /\ disk' = disk \/ disk' = queue'
    /\ overlapped \subseteq overlapped'
    /\ \A e \in Events : ~Queued(e) /\ queue'[e] # NoRecord => queue'[e].status = "pending"

\* Who has been tried more than once, or beside another drain, stays so.
LEMMA FirstGoWas ==
    ASSUME IngestInv, IngestInv', OrderInv, Forward, NEW r \in Events, disk[r] # NoRecord,
           FirstGo(r)'
    PROVE  FirstGo(r)
<1>1. disk'[r] # NoRecord /\ disk[r].attempts <= disk'[r].attempts
  BY FileFollows DEF Forward, OrderInv
<1>2. disk[r].attempts \in Nat /\ disk'[r].attempts \in Nat
  BY <1>1, FileRecord DEF IngestInv, IngestTypeOK, QueueTypeOK, MemoryIngestQueueRecord
<1>3. disk'[r].attempts <= 1 /\ r \notin overlapped
  BY DEF FirstGo, Forward
<1> QED BY <1>1, <1>2, <1>3 DEF FirstGo

\* What comes after r came after r before, or has just joined.
LEMMA AfterWas ==
    ASSUME Forward, NEW r \in Events, NEW e \in Events, Queued(r), After(e, r)'
    PROVE  After(e, r) \/ (~Queued(e) /\ queue'[e].status = "pending")
  BY DEF Forward, Follows, After, Queued

LEMMA ProcessedWas ==
    ASSUME IngestInv, Forward, NEW e \in Events, Processed(e)', ~Queued(e)
    PROVE  queue'[e] # NoRecord /\ queue'[e].status = "processed"
<1>1. disk[e] = NoRecord
  BY DEF IngestInv, FileIsOlder
<1> QED BY <1>1 DEF Forward, Processed
\* A record becomes processed only in the hands of a drain that is through.
Marks == \A e \in Events : Queued(e) /\ Processed(e)' => GoalDone(e)

\* The drains that have something in hand had it before the step.
HeldWas(d) ==
    At(d)' => /\ At(d) /\ drain'[d].env = drain[d].env
              /\ drain'[d].pc \in {"archive", "goal"} => drain[d].pc \in {"archive", "goal"}

\* An event that joins the queue is neither processed nor in any drain's hands.
LEMMA JoinsUntouched ==
    ASSUME IngestInv, Forward, NEW e \in Events, ~Queued(e), queue'[e] # NoRecord
    PROVE  ~(Processed(e)') /\ \A d \in Drains : drain[d].env # e
<1>1. disk[e] = NoRecord /\ queue'[e].status = "pending"
  BY DEF IngestInv, FileIsOlder, Forward
<1>2. ~(Processed(e)')
  BY <1>1 DEF Forward, Processed
<1>3. \A d \in Drains : drain[d].env # e
  BY NoRecordIsNone DEF IngestInv, DrainsHold, Holds
<1> QED BY <1>2, <1>3

LEMMA NothingAfterKept ==
    ASSUME IngestInv, IngestInv', OrderInv, Forward, Marks, NEW r \in Events, Queued(r),
           NothingAfter(r), \A d \in Drains : HeldWas(d)
    PROVE  NothingAfter(r)'
<1> SUFFICES ASSUME NEW e \in Events, After(e, r)'
             PROVE  ~(Processed(e)') /\ \A d \in Drains : drain'[d].env # e
  BY DEF NothingAfter
<1>1. ASSUME NEW d \in Drains, drain'[d].env = e PROVE drain[d].env = e
  <2>1. At(d)'
    BY <1>1, NoRecordIsNone DEF IngestInv, DrainsHold, Holds
  <2> QED BY <1>1, <2>1 DEF HeldWas
<1>2. CASE ~Queued(e)
  BY <1>1, <1>2, JoinsUntouched DEF After, Queued
<1>3. CASE Queued(e)
  <2>1. After(e, r)
    BY <1>3, AfterWas
  <2>2. ~Processed(e) /\ \A d \in Drains : drain[d].env # e
    BY <2>1 DEF NothingAfter
  <2>3. ~(Processed(e)')
    BY <1>3, <2>2 DEF Marks, GoalDone
  <2> QED BY <1>1, <2>2, <2>3
<1> QED BY <1>2, <1>3

LEMMA GoalLastKept ==
    ASSUME IngestInv, IngestInv', OrderInv, Forward, Marks, NEW r \in Events, GoalIsLast(r),
           \A e \in GoalEvents : \A d \in Drains :
              drain'[d].env = e /\ drain'[d].pc = "processed" => GoalDone(e)
    PROVE  GoalIsLast(r)'
<1>1. disk[r] # NoRecord /\ Queued(r)
  BY DEF GoalIsLast, IngestInv, FileIsOlder
<1>2. disk'[r] # NoRecord
  BY <1>1, FileFollows DEF Forward, OrderInv
<1>3. ASSUME FirstGo(r)', NEW e \in GoalEvents, After(e, r)' PROVE ~(GoalDone(e)')
  <2>1. e \in Events /\ FirstGo(r)
    BY <1>1, <1>3, FirstGoWas, EventsAssumption
  <2>2. CASE ~Queued(e)
    <3>1. queue'[e] # NoRecord /\ ~(Processed(e)') /\ \A d \in Drains : drain[d].env # e
      BY <1>3, <2>1, <2>2, JoinsUntouched DEF After, Queued
    <3>2. ~GoalDone(e)
      BY <2>1, <2>2, <3>1 DEF GoalDone, Processed, Queued, IngestInv, FileIsOlder
    <3> QED BY <3>1, <3>2 DEF GoalDone
  <2>3. CASE Queued(e)
    <3>1. After(e, r)
      BY <1>1, <1>3, <2>1, <2>3, AfterWas
    <3>2. ~GoalDone(e)
      BY <2>1, <3>1 DEF GoalIsLast
    <3> QED BY <2>1, <2>3, <3>2 DEF GoalDone, Marks
  <2> QED BY <2>2, <2>3
<1> QED BY <1>2, <1>3 DEF GoalIsLast

LEMMA CountedKept ==
    ASSUME IngestInv, IngestInv', OrderInv, Forward, NEW d \in Drains, HeldWas(d)
    PROVE  Counted(d)'
<1> SUFFICES ASSUME At(d)' PROVE disk'[drain'[d].env].attempts >= 1
  BY DEF Counted
<1>1. At(d) /\ drain'[d].env = drain[d].env
  BY DEF HeldWas
<1>2. PICK e \in Events : e = drain[d].env /\ disk[e] # NoRecord
  BY <1>1 DEF IngestInv, DrainsHold, Holds
<1>3. disk[e].attempts >= 1
  BY <1>1, <1>2 DEF OrderInv, Counted
<1>4. disk'[e] # NoRecord /\ disk[e].attempts <= disk'[e].attempts
  BY <1>2, FileFollows DEF OrderInv, Forward
<1>5. disk[e].attempts \in Nat /\ disk'[e].attempts \in Nat
  BY <1>2, <1>4, FileRecord DEF IngestInv, IngestTypeOK, QueueTypeOK, MemoryIngestQueueRecord
<1>6. disk'[e].attempts >= 1
  BY <1>3, <1>4, <1>5
<1> QED BY <1>1, <1>2, <1>6

LEMMA LeadsKept ==
    ASSUME IngestInv, IngestInv', OrderInv, Forward, Marks, NEW d \in Drains,
           \A x \in Drains : HeldWas(x)
    PROVE  Leads(d)'
<1> SUFFICES ASSUME drain'[d].pc \in {"archive", "goal"}, FirstGo(drain[d].env)'
             PROVE  NothingAfter(drain[d].env)'
  BY DEF Leads
<1>1. At(d)' /\ At(d) /\ drain'[d].env = drain[d].env /\ drain[d].pc \in {"archive", "goal"}
  BY DEF HeldWas, At
<1>2. PICK e \in Events : e = drain[d].env /\ disk[e] # NoRecord /\ Queued(e)
  BY <1>1 DEF IngestInv, DrainsHold, Holds
<1>3. FirstGo(e)'
  BY <1>1, <1>2 DEF FirstGo
<1>4. FirstGo(e)
  BY <1>2, <1>3, FirstGoWas
<1>5. NothingAfter(e)
  BY <1>1, <1>2, <1>4 DEF OrderInv, Leads
<1>6. NothingAfter(e)'
  BY <1>2, <1>5, NothingAfterKept
<1> QED BY <1>1, <1>2, <1>6 DEF NothingAfter, After

\* The records after a step but a crash.
LEMMA FilesKept ==
    ASSUME IngestInv, IngestInv', OrderInv, Forward, InOrder(queue')
    PROVE  InOrder(disk') /\ \A e \in Events : Aged(e)'
<1>1. InOrder(disk')
  BY OrderWritten DEF OrderInv, Forward
<1>2. \A e \in Events : Aged(e)'
  BY FileFollows DEF OrderInv, Forward
<1> QED BY <1>1, <1>2

\* A step that changes nothing in the queue.
LEMMA QuietIsForward ==
    ASSUME IngestInv, OrderInv, queue' = queue, disk' = disk, overlapped' = overlapped
    PROVE  Forward /\ Marks /\ InOrder(queue')
<1>1. Forward
  <2>1. \A e \in Events : Queued(e) => queue[e].attempts \in Nat
    BY QueuedRecord DEF IngestInv, IngestTypeOK
  <2>2. \A e \in Events : Follows(e)
    BY <2>1 DEF Follows, Queued
  <2> QED BY <2>2 DEF Forward, Queued
<1>2. Marks
  BY DEF Marks, Processed, GoalDone
<1> QED BY <1>1, <1>2 DEF OrderInv

LEMMA QuietOrder ==
    ASSUME IngestInv, IngestInv', OrderInv, queue' = queue, disk' = disk, drain' = drain,
           resident' = resident, overlapped' = overlapped
    PROVE  OrderInv'
<1>1. OrderInv' = OrderInv
  BY DEF OrderInv, InOrder, InQueue, Aged, Counted, At, Leads, FirstGo, NothingAfter, After,
         Processed, Queued, GoalIsLast, GoalDone
<1> QED BY <1>1

LEMMA EnqueueOrder ==
    ASSUME IngestInv, IngestInv', OrderInv, NEW e \in Events, EnqueueEvent(e)
    PROVE  OrderInv'
<1>1. drain' = drain /\ resident' = resident /\ overlapped' = overlapped
  BY DEF EnqueueEvent, hubVars, historyVars
<1>2. CASE UNCHANGED queueVars
  BY <1>1, <1>2, QuietOrder DEF queueVars
<1>3. CASE ~UNCHANGED queueVars
  <2>1. PICK rec \in MemoryIngestQueueRecord :
            /\ ~Queued(e) /\ rec.status = "pending" /\ rec.attempts = 0 /\ rec.seq = NextQueueSeq
            /\ WriteOk([queue EXCEPT ![e] = rec]) \/ WriteRaises([queue EXCEPT ![e] = rec])
    BY <1>3, EnqueueWrites
  <2>2. /\ queue' = [queue EXCEPT ![e] = rec] /\ (disk' = disk \/ disk' = queue')
    BY <2>1 DEF WriteOk, WriteRaises
  <2>3. /\ queue'[e] = rec /\ rec # NoRecord
        /\ \A f \in Events \ {e} : queue'[f] = queue[f]
    BY <2>2, NoRecordIsNone DEF IngestInv, IngestTypeOK, QueueTypeOK
  <2>4. Forward
    <3>1. \A f \in Events : Queued(f) => queue'[f] = queue[f] /\ queue[f].attempts \in Nat
      BY <2>1, <2>3, QueuedRecord DEF IngestInv, IngestTypeOK
    <3>2. \A f \in Events : Follows(f)
      BY <3>1 DEF Follows, Queued
    <3>3. \A f \in Events : ~Queued(f) /\ queue'[f] # NoRecord => queue'[f].status = "pending"
      BY <2>1, <2>3 DEF Queued
    <3> QED BY <1>1, <2>2, <3>2, <3>3 DEF Forward
  <2>5. Marks
    <3> SUFFICES ASSUME NEW f \in Events, Queued(f), Processed(f)' PROVE Processed(f)
      BY DEF Marks, GoalDone
    <3>1. queue'[f] = queue[f]
      BY <2>1, <2>3
    <3> QED BY <2>2, <3>1 DEF Processed
  <2>6. InOrder(queue')
    <3>1. /\ InQueue(queue') = InQueue(queue) \cup {e} /\ e \notin InQueue(queue)
          /\ InQueue(queue) = {f \in Events : Queued(f)}
      BY <2>1, <2>3 DEF InQueue, Queued
    <3>2. PICK n \in Nat : /\ n = Cardinality(InQueue(queue)) /\ rec.seq = 1 + n
                           /\ Cardinality(InQueue(queue')) = n + 1
      <4>1. IsFiniteSet(InQueue(queue))
        BY EventsAssumption, FS_Subset DEF InQueue
      <4>2. Cardinality(InQueue(queue)) \in Nat
        BY <4>1, FS_CardinalityType
      <4>3. Cardinality(InQueue(queue')) = Cardinality(InQueue(queue)) + 1
        BY <3>1, <4>1, FS_AddElement
      <4>4. rec.seq = 1 + Cardinality(InQueue(queue))
        BY <2>1, <3>1 DEF NextQueueSeq
      <4> QED BY <4>2, <4>3, <4>4
    <3>3. \A f \in InQueue(queue) :
             /\ f \in Events /\ f # e /\ queue'[f] = queue[f] /\ queue[f].seq \in Nat
             /\ queue[f].seq <= n
      BY <2>1, <2>3, <3>1, <3>2, QueuedRecord DEF OrderInv, InOrder, IngestInv, IngestTypeOK
    <3>4. \A f \in InQueue(queue') : queue'[f].seq <= Cardinality(InQueue(queue'))
      BY <2>3, <3>1, <3>2, <3>3
    <3>5. \A f \in InQueue(queue') : queue'[f].attempts = 0 => queue'[f].status = "pending"
      BY <2>1, <2>3, <3>1, <3>3 DEF OrderInv, InOrder
    <3>6. ASSUME NEW r \in InQueue(queue'), NEW f \in InQueue(queue'),
                 queue'[r].attempts = 0, queue'[r].seq < queue'[f].seq
          PROVE  queue'[f].attempts = 0
      <4>1. CASE f = e
        BY <2>1, <2>3, <4>1
      <4>2. CASE f # e
        <5>1. r # e
          BY <2>3, <3>1, <3>2, <3>3, <3>6, <4>2
        <5> QED BY <3>1, <3>3, <3>6, <4>2, <5>1 DEF OrderInv, InOrder
      <4> QED BY <4>1, <4>2
    <3> QED BY <3>4, <3>5, <3>6 DEF InOrder
  <2>7. \A d \in Drains : HeldWas(d)
    BY <1>1 DEF HeldWas, At
  <2>8. resident # NoRecord => GoalIsLast(resident)'
    <3> SUFFICES ASSUME resident # NoRecord PROVE GoalIsLast(resident)'
      OBVIOUS
    <3>1. resident \in Events /\ GoalIsLast(resident)
      BY EventsAssumption DEF IngestInv, IngestTypeOK, RecordingTypeOK, OrderInv
    <3>2. \A f \in GoalEvents : \A d \in Drains :
             drain'[d].env = f /\ drain'[d].pc = "processed" => GoalDone(f)
      BY <1>1 DEF GoalDone
    <3> QED BY <1>1, <2>4, <2>5, <3>1, <3>2, GoalLastKept
  <2> QED BY <1>1, <2>4, <2>5, <2>6, <2>7, <2>8, FilesKept, CountedKept, LeadsKept
         DEF OrderInv, GoalIsLast, FirstGo, After, GoalDone, Processed
<1> QED BY <1>2, <1>3

\* A drain takes the oldest record that is due, and every record that was never
\* tried is due: those before e were tried, and those after it were not.
LEMMA ClaimedInTurn ==
    ASSUME IngestInv, OrderInv, NEW d \in Drains, NEW e \in Events, ClaimNext(d, e),
           NEW r \in Events, Queued(r), queue[r].attempts = 0
    PROVE  queue[e].seq <= queue[r].seq
<1>1. queue[r].status = "pending"
  BY DEF OrderInv, InOrder, InQueue, Queued
<1>2. Claimable(r)
  BY <1>1 DEF Claimable
<1> QED BY <1>2 DEF ClaimNext

\* The queue after a claim.
LEMMA ClaimIsForward ==
    ASSUME IngestInv, IngestInv', OrderInv, NEW d \in Drains, NEW e \in Events, ClaimNext(d, e)
    PROVE  /\ Forward /\ InOrder(queue') /\ resident' = resident
           /\ \A f \in Events : Queued(f) /\ Processed(f)' => Processed(f)
           /\ queue'[e].attempts = queue[e].attempts + 1
           /\ disk' = queue' \/ DrainRaises(d)
<1>1. PICK rec \in MemoryIngestQueueRecord :
          /\ Claimable(e) /\ queue[e] \in MemoryIngestQueueRecord
          /\ rec.seq = queue[e].seq /\ rec.status = "processing"
          /\ rec.attempts = queue[e].attempts + 1
          /\ \/ WriteOk([queue EXCEPT ![e] = rec])
             \/ WriteRaises([queue EXCEPT ![e] = rec]) /\ DrainRaises(d)
  BY ClaimWrites
<1>2. /\ queue' = [queue EXCEPT ![e] = rec]
      /\ disk' = queue' \/ (disk' = disk /\ DrainRaises(d))
  BY <1>1 DEF WriteOk, WriteRaises
<1>3. /\ queue'[e] = rec /\ rec # NoRecord
      /\ \A f \in Events \ {e} : queue'[f] = queue[f]
  BY <1>2, NoRecordIsNone DEF IngestInv, IngestTypeOK, QueueTypeOK
<1>4. /\ queue[e].attempts \in Nat /\ rec.attempts \in Nat /\ rec.attempts # 0
      /\ queue[e].attempts <= rec.attempts /\ Queued(e)
  BY <1>1 DEF MemoryIngestQueueRecord, Claimable
<1>5. overlapped \subseteq overlapped'
  BY DEF ClaimNext
<1>6. \A f \in Events : Queued(f) => queue[f].attempts \in Nat /\ queue[f].seq \in Nat
  BY QueuedRecord DEF IngestInv, IngestTypeOK
<1>7. \A f \in Events : Follows(f) /\ (~Queued(f) => queue'[f] = NoRecord)
  BY <1>1, <1>3, <1>4, <1>6 DEF Follows, Queued
<1>8. Forward
  BY <1>2, <1>5, <1>7 DEF Forward
<1>9. \A f \in Events : Queued(f) /\ Processed(f)' => Processed(f)
  BY <1>1, <1>2, <1>3 DEF Processed
<1>10. \A f \in Events : Queued(f) /\ queue'[f].attempts = 0 => queue'[f].status = "pending"
  BY <1>3, <1>4 DEF OrderInv, InOrder, InQueue, Queued
<1>11. ASSUME NEW r \in Events, NEW f \in Events, Queued(r), Queued(f), queue'[r].attempts = 0,
              queue[r].seq < queue[f].seq
       PROVE  queue'[f].attempts = 0
  <2>1. r # e /\ queue[r].attempts = 0
    BY <1>3, <1>4, <1>11
  <2>2. queue[e].seq <= queue[r].seq
    BY <1>11, <2>1, ClaimedInTurn
  <2>3. f # e
    BY <1>4, <1>6, <1>11, <2>2
  <2>4. queue[f].attempts = 0
    BY <1>11, <2>1 DEF OrderInv, InOrder, InQueue, Queued
  <2> QED BY <1>3, <2>3, <2>4
<1>12. InOrder(queue')
  BY <1>7, <1>10, <1>11, OrderKept DEF OrderInv, IngestInv, IngestTypeOK
<1>13. resident' = resident
  BY DEF ClaimNext, hubVars
<1> QED BY <1>1, <1>2, <1>3, <1>8, <1>9, <1>12, <1>13

LEMMA RaisingLeavesOverlap ==
    ASSUME IngestInv, NEW d \in Drains, NextClaim(d) \/ DrainRaises(d)
    PROVE  /\ \A x \in Drains : HeldWas(x)
           /\ \A e \in GoalEvents : \A x \in Drains :
                 drain'[x].env = e /\ drain'[x].pc = "processed" => GoalDone(e)
<1>1. /\ drain'[d].pc \in {"claim", "done"}
      /\ \A x \in Drains \ {d} : drain'[x] = drain[x]
  BY DrainIsLeft
<1>2. \A x \in Drains : HeldWas(x)
  BY <1>1 DEF HeldWas, At
<1>3. \A e \in GoalEvents : \A x \in Drains :
         drain'[x].env = e /\ drain'[x].pc = "processed" => GoalDone(e)
  BY <1>1 DEF GoalDone
<1> QED BY <1>2, <1>3

LEMMA ClaimOrder ==
    ASSUME IngestInv, IngestInv', OrderInv, NEW d \in Drains, NEW e \in Events, ClaimNext(d, e)
    PROVE  OrderInv'
<1>1. /\ Forward /\ InOrder(queue') /\ resident' = resident
      /\ \A f \in Events : Queued(f) /\ Processed(f)' => Processed(f)
      /\ queue'[e].attempts = queue[e].attempts + 1
      /\ disk' = queue' \/ DrainRaises(d)
  BY ClaimIsForward
<1>2. Marks
  BY <1>1 DEF Marks, GoalDone
<1>3. InOrder(disk') /\ \A f \in Events : Aged(f)'
  BY <1>1, FilesKept
<1>4. Queued(e) /\ drain[d].pc = "claim"
  BY DEF ClaimNext, Claimable
<1>5. ASSUME \A f \in GoalEvents : \A x \in Drains :
                drain'[x].env = f /\ drain'[x].pc = "processed" => GoalDone(f),
             resident # NoRecord
      PROVE  GoalIsLast(resident)'
  <2>1. resident \in Events /\ GoalIsLast(resident)
    BY <1>5, EventsAssumption DEF IngestInv, IngestTypeOK, RecordingTypeOK, OrderInv
  <2>2. PICK r \in Events : r = resident /\ GoalIsLast(r)
    BY <2>1
  <2>3. GoalIsLast(r)'
    BY <1>1, <1>2, <1>5, <2>2, GoalLastKept
  <2> QED BY <1>1, <2>2, <2>3 DEF GoalIsLast, FirstGo, After, GoalDone
<1>6. CASE DrainRaises(d)
  <2>1. /\ \A x \in Drains : HeldWas(x)
        /\ \A f \in GoalEvents : \A x \in Drains :
              drain'[x].env = f /\ drain'[x].pc = "processed" => GoalDone(f)
    BY <1>6, RaisingLeavesOverlap
  <2>2. \A x \in Drains : Counted(x)' /\ Leads(x)'
    BY <1>1, <1>2, <2>1, CountedKept, LeadsKept
  <2> QED BY <1>1, <1>3, <1>5, <2>1, <2>2 DEF OrderInv
<1>7. CASE ~DrainRaises(d)
  <2>1. PICK v : /\ v.pc = "archive" /\ v.env = e /\ drain'[d] = v
                 /\ \A x \in Drains \ {d} : drain'[x] = drain[x]
    <3>1. PICK rec \in MemoryIngestQueueRecord :
              drain' = [drain EXCEPT ![d] = [pc |-> "archive", env |-> e,
                                             attempts |-> rec.attempts, now |-> clock]]
      BY <1>7, ClaimWrites
    <3> QED BY <3>1 DEF IngestInv, IngestTypeOK, DrainTypeOK
  <2>2. disk' = queue'
    BY <1>1, <1>7
  <2>3. /\ queue[e].attempts \in Nat /\ queue[e].seq \in Nat
        /\ \A f \in Events : Queued(f) => queue[f].seq \in Nat
    BY <1>4, QueuedRecord DEF IngestInv, IngestTypeOK
  <2>4. \A x \in Drains \ {d} : At(x) => drain[x].env \in overlapped'
    <3>1. ASSUME NEW x \in Drains, x # d, At(x) PROVE Busy(x)
      BY <3>1, NoRecordIsNone DEF IngestInv, DrainsHold, Holds, Busy
    <3>2. overlapped' = overlapped
              \cup (IF {drain[x].env : x \in {y \in Drains \ {d} : Busy(y)}} = {} THEN {}
                    ELSE {drain[x].env : x \in {y \in Drains \ {d} : Busy(y)}} \cup {e})
      <4>1. ~(DrainRaises(d))
        BY <1>7
      <4> QED BY <4>1 DEF ClaimNext
    <3> QED BY <3>1, <3>2
  <2>5. Leads(d)'
    <3> SUFFICES ASSUME FirstGo(e)' PROVE NothingAfter(e)'
      BY <2>1 DEF Leads, FirstGo, NothingAfter, After
    <3>1. queue[e].attempts = 0
      BY <1>1, <2>2, <2>3 DEF FirstGo
    <3> SUFFICES ASSUME NEW f \in Events, After(f, e)'
                 PROVE  ~(Processed(f)') /\ \A x \in Drains : drain'[x].env # f
      BY DEF NothingAfter
    <3>2. f # e
      BY <1>1, <1>4, <2>3 DEF After, Forward, Follows
    <3>3. CASE ~Queued(f)
      BY <1>1, <2>1, <3>2, <3>3, JoinsUntouched DEF After, Queued
    <3>4. CASE Queued(f)
      <4>1. After(f, e)
        BY <1>1, <1>4, <3>4, AfterWas
      <4>2. queue[f].attempts = 0
        BY <1>4, <3>1, <3>4, <4>1 DEF After, OrderInv, InOrder, InQueue, Queued
      <4>3. queue[f].status = "pending"
        BY <3>4, <4>2 DEF OrderInv, InOrder, InQueue, Queued
      <4>4. disk[f] # NoRecord => disk[f].attempts = 0 /\ disk[f].status = "pending"
        <5> SUFFICES ASSUME disk[f] # NoRecord
                     PROVE  disk[f].attempts = 0 /\ disk[f].status = "pending"
          OBVIOUS
        <5>1. disk[f].attempts = 0
          BY <4>2, FileRecord DEF OrderInv, Aged, IngestInv, IngestTypeOK
        <5> QED BY <5>1 DEF OrderInv, InOrder, InQueue
      <4>5. ~Processed(f)
        BY <4>3, <4>4 DEF Processed
      <4>6. \A x \in Drains : drain[x].env # f
        <5> SUFFICES ASSUME NEW x \in Drains, drain[x].env = f PROVE FALSE
          OBVIOUS
        <5>1. At(x) /\ disk[f] # NoRecord
          BY NoRecordIsNone DEF IngestInv, DrainsHold, Holds
        <5> QED BY <4>4, <5>1 DEF OrderInv, Counted
      <4> QED BY <1>1, <2>1, <3>2, <3>4, <4>5, <4>6
    <3> QED BY <3>3, <3>4
  <2>6. ASSUME NEW x \in Drains, x # d PROVE Leads(x)'
    <3>1. drain'[x] = drain[x]
      BY <2>1, <2>6
    <3>2. At(x) => drain[x].env \in overlapped'
      BY <2>4, <2>6
    <3> QED BY <3>1, <3>2 DEF Leads, FirstGo, At
  <2>7. Counted(d)'
    <3>1. queue'[e].attempts >= 1
      BY <1>1, <2>3
    <3> QED BY <2>1, <2>2, <3>1 DEF Counted
  <2>8. ASSUME NEW x \in Drains, x # d PROVE Counted(x)'
    <3>1. HeldWas(x)
      BY <2>1, <2>8 DEF HeldWas, At
    <3> QED BY <1>1, <3>1, CountedKept
  <2>9. \A f \in GoalEvents : \A x \in Drains :
           drain'[x].env = f /\ drain'[x].pc = "processed" => GoalDone(f)
    BY <2>1 DEF GoalDone
  <2> QED BY <1>1, <1>3, <1>5, <2>5, <2>6, <2>7, <2>8, <2>9 DEF OrderInv
<1> QED BY <1>6, <1>7

\* A step after which the drains hold what they held, and the resident goal is
\* still the same.
LEMMA HeldOrder ==
    ASSUME IngestInv, IngestInv', OrderInv, Forward, Marks, InOrder(queue'),
           resident' = resident, \A x \in Drains : HeldWas(x),
           \A e \in GoalEvents : \A x \in Drains :
              drain'[x].env = e /\ drain'[x].pc = "processed" => GoalDone(e)
    PROVE  OrderInv'
<1>1. InOrder(disk') /\ \A f \in Events : Aged(f)'
  BY FilesKept
<1>2. \A x \in Drains : Counted(x)' /\ Leads(x)'
  BY CountedKept, LeadsKept
<1>3. ASSUME resident # NoRecord PROVE GoalIsLast(resident)'
  <2>1. resident \in Events
    BY <1>3, EventsAssumption DEF IngestInv, IngestTypeOK, RecordingTypeOK
  <2>2. PICK r \in Events : r = resident /\ GoalIsLast(r)
    BY <1>3, <2>1 DEF OrderInv
  <2>3. GoalIsLast(r)'
    BY <2>2, GoalLastKept
  <2> QED BY <2>2, <2>3 DEF GoalIsLast, FirstGo, After, GoalDone
<1> QED BY <1>1, <1>2, <1>3 DEF OrderInv

\* A mark leaves number and attempts; it says processed for a drain that is through.
LEMMA MarkOrder ==
    ASSUME IngestInv, IngestInv', OrderInv, NEW d \in Drains,
           MarkProcessed(d) \/ MarkUnprocessed(d)
    PROVE  OrderInv'
<1>1. PICK e \in Events : e = drain[d].env /\ At(d) /\ Queued(e) /\ disk[e] # NoRecord
  BY MarkWrites DEF IngestInv, DrainsHold, Holds
<1>2. PICK rec \in MemoryIngestQueueRecord :
          /\ rec.seq = queue[e].seq /\ rec.attempts = queue[e].attempts
          /\ rec.status = "processed" => drain[d].pc = "processed"
          /\ \/ WriteOk([queue EXCEPT ![e] = rec]) /\ NextClaim(d)
             \/ WriteRaises([queue EXCEPT ![e] = rec]) /\ DrainRaises(d)
  BY <1>1, MarkWrites
<1>3. /\ queue' = [queue EXCEPT ![e] = rec] /\ (disk' = disk \/ disk' = queue')
      /\ NextClaim(d) \/ DrainRaises(d)
  BY <1>2 DEF WriteOk, WriteRaises
<1>4. /\ queue'[e] = rec /\ rec # NoRecord
      /\ \A f \in Events \ {e} : queue'[f] = queue[f]
  BY <1>3, NoRecordIsNone DEF IngestInv, IngestTypeOK, QueueTypeOK
<1>5. resident' = resident /\ overlapped' = overlapped
  BY MarkWrites DEF hubVars, historyVars
<1>6. \A f \in Events : Queued(f) => queue[f].attempts \in Nat
  BY QueuedRecord DEF IngestInv, IngestTypeOK
<1>7. \A f \in Events : Follows(f) /\ (~Queued(f) => queue'[f] = NoRecord)
  BY <1>1, <1>2, <1>4, <1>6 DEF Follows, Queued
<1>8. Forward
  BY <1>3, <1>5, <1>7 DEF Forward
<1>9. Marks
  <2> SUFFICES ASSUME NEW f \in Events, Processed(f)', ~Processed(f)
               PROVE  \E x \in Drains : drain[x].env = f /\ drain[x].pc = "processed"
    BY DEF Marks, GoalDone
  <2>1. queue'[f] # queue[f] /\ queue'[f] # NoRecord /\ queue'[f].status = "processed"
    BY <1>3 DEF Processed
  <2>2. f = e
    BY <1>4, <2>1
  <2> QED BY <1>1, <1>2, <1>4, <2>1, <2>2
<1>10. /\ \A x \in Drains : HeldWas(x)
       /\ \A f \in GoalEvents : \A x \in Drains :
             drain'[x].env = f /\ drain'[x].pc = "processed" => GoalDone(f)
  BY <1>3, RaisingLeavesOverlap
<1>11. queue'[e].attempts # 0
  <2>1. disk[e].attempts >= 1 /\ disk[e].attempts <= queue[e].attempts
    BY <1>1 DEF OrderInv, Counted, Aged
  <2>2. disk[e].attempts \in Nat /\ queue[e].attempts \in Nat
    BY <1>1, <1>6, FileRecord DEF IngestInv, IngestTypeOK
  <2>3. queue[e].attempts # 0
    BY <2>1, <2>2
  <2> QED BY <1>2, <1>4, <2>3
<1>12. \A f \in Events : Queued(f) => queue'[f].attempts = queue[f].attempts
  BY <1>2, <1>4
<1>13. \A f \in Events : Queued(f) /\ queue'[f].attempts = 0 => queue'[f].status = "pending"
  BY <1>4, <1>11 DEF OrderInv, InOrder, InQueue, Queued
<1>14. \A r, f \in Events : /\ Queued(r) /\ Queued(f) /\ queue'[r].attempts = 0
                            /\ queue[r].seq < queue[f].seq
                            => queue'[f].attempts = 0
  BY <1>12 DEF OrderInv, InOrder, InQueue, Queued
<1>15. InOrder(queue')
  BY <1>7, <1>13, <1>14, OrderKept DEF OrderInv, IngestInv, IngestTypeOK
<1> QED BY <1>5, <1>8, <1>9, <1>10, <1>15, HeldOrder

\* The archive entry of an event with a goal is not the end of it.
LEMMA ArchiveOrder ==
    ASSUME IngestInv, IngestInv', OrderInv, NEW d \in Drains, IngestArchive(d)
    PROVE  OrderInv'
<1>1. PICK p \in {"goal", "processed", "failed"} :
          /\ drain[d].pc = "archive" /\ drain' = [drain EXCEPT ![d].pc = p]
          /\ p = "processed" => drain[d].env \notin GoalEvents
  BY DEF IngestArchive
<1>2. queue' = queue /\ disk' = disk /\ overlapped' = overlapped /\ resident' = resident
  BY DEF IngestArchive, queueVars
<1>3. Forward /\ Marks /\ InOrder(queue')
  BY <1>2, QuietIsForward
<1>4. /\ drain'[d].pc = p /\ drain'[d].env = drain[d].env
      /\ \A x \in Drains \ {d} : drain'[x] = drain[x]
  BY <1>1, DrainGoesOn
<1>5. \A x \in Drains : HeldWas(x)
  BY <1>1, <1>4 DEF HeldWas, At
<1>6. \A e \in GoalEvents : \A x \in Drains :
         drain'[x].env = e /\ drain'[x].pc = "processed" => GoalDone(e)
  BY <1>1, <1>4 DEF GoalDone
<1> QED BY <1>2, <1>3, <1>5, <1>6, HeldOrder

LEMMA EndOrder ==
    ASSUME IngestInv, IngestInv', OrderInv, NEW d \in Drains, EndDrain(d)
    PROVE  OrderInv'
<1>1. /\ drain[d].pc = "claim" /\ drain' = [drain EXCEPT ![d].pc = "done"]
      /\ queue' = queue /\ disk' = disk /\ overlapped' = overlapped /\ resident' = resident
  BY DEF EndDrain, queueVars, hubVars, historyVars
<1>2. Forward /\ Marks /\ InOrder(queue')
  BY <1>1, QuietIsForward
<1>3. drain'[d].pc = "done" /\ \A x \in Drains \ {d} : drain'[x] = drain[x]
  BY <1>1, DrainGoesOn
<1>4. \A x \in Drains : HeldWas(x)
  BY <1>3 DEF HeldWas, At
<1>5. \A e \in GoalEvents : \A x \in Drains :
         drain'[x].env = e /\ drain'[x].pc = "processed" => GoalDone(e)
  BY <1>3 DEF GoalDone
<1> QED BY <1>1, <1>2, <1>4, <1>5, HeldOrder

\* The goal that is written: what comes after it was not tried yet, unless the
\* event was tried before or another drain is at work.
LEMMA GoalOrder ==
    ASSUME IngestInv, IngestInv', OrderInv, NEW d \in Drains, IngestGoal(d)
    PROVE  OrderInv'
<1>1. PICK p \in {"processed", "failed"} :
          /\ drain[d].pc = "goal" /\ drain' = [drain EXCEPT ![d].pc = p]
          /\ \/ p = "processed" /\ resident' = drain[d].env
             \/ p = "failed" /\ resident' = resident
  BY DEF IngestGoal
<1>2. queue' = queue /\ disk' = disk /\ overlapped' = overlapped
  BY DEF IngestGoal, queueVars, historyVars
<1>3. Forward /\ Marks /\ InOrder(queue')
  BY <1>2, QuietIsForward
<1>4. /\ drain'[d].pc = p /\ drain'[d].env = drain[d].env
      /\ \A x \in Drains \ {d} : drain'[x] = drain[x]
  BY <1>1, DrainGoesOn
<1>5. \A x \in Drains : HeldWas(x)
  BY <1>1, <1>4 DEF HeldWas, At
<1>6. CASE p = "failed"
  <2>1. \A e \in GoalEvents : \A x \in Drains :
           drain'[x].env = e /\ drain'[x].pc = "processed" => GoalDone(e)
    BY <1>4, <1>6 DEF GoalDone
  <2> QED BY <1>1, <1>3, <1>5, <1>6, <2>1, HeldOrder
<1>7. CASE p = "processed"
  <2>1. InOrder(disk') /\ \A f \in Events : Aged(f)'
    BY <1>3, FilesKept
  <2>2. \A x \in Drains : Counted(x)' /\ Leads(x)'
    BY <1>3, <1>5, CountedKept, LeadsKept
  <2>3. PICK r \in Events : r = drain[d].env /\ Queued(r) /\ disk[r] # NoRecord
    BY <1>1 DEF IngestInv, DrainsHold, Holds, At
  <2>4. queue[r].seq \in Nat
    BY <2>3, QueuedRecord DEF IngestInv, IngestTypeOK
  <2>5. ASSUME FirstGo(r), NEW e \in GoalEvents, After(e, r) PROVE ~(GoalDone(e)')
    <3>1. NothingAfter(r) /\ e \in Events
      BY <1>1, <2>3, <2>5, EventsAssumption DEF OrderInv, Leads
    <3>2. ~Processed(e) /\ \A x \in Drains : drain[x].env # e
      BY <2>5, <3>1 DEF NothingAfter
    <3>3. \A x \in Drains : drain'[x].env # e
      BY <1>4, <3>2
    <3> QED BY <1>2, <3>2, <3>3 DEF GoalDone, Processed
  <2>6. resident' = r
    BY <1>1, <1>7, <2>3
  <2>7. GoalIsLast(resident)'
    BY <1>2, <2>3, <2>5, <2>6 DEF GoalIsLast, FirstGo, After, Queued
  <2> QED BY <1>3, <2>1, <2>2, <2>7 DEF OrderInv
<1> QED BY <1>6, <1>7

LEMMA RecoverOrder ==
    ASSUME IngestInv, IngestInv', OrderInv, RecoverInflight PROVE OrderInv'
<1>1. PICK new \in [Events -> MemoryIngestQueueRecord \cup {NoRecord}] :
          /\ WriteOk(new) \/ WriteRaises(new)
          /\ \A e \in Events :
                IF HasStatus(e, "processing")
                THEN /\ new[e] \in MemoryIngestQueueRecord /\ new[e].status = "pending"
                     /\ new[e].seq = queue[e].seq /\ new[e].attempts = queue[e].attempts
                ELSE new[e] = queue[e]
  BY RecoverWrites
<1>2. queue' = new /\ (disk' = disk \/ disk' = queue')
  BY <1>1 DEF WriteOk, WriteRaises
<1>3. drain' = drain /\ resident' = resident /\ overlapped' = overlapped
  BY DEF RecoverInflight, hubVars
<1>4. \A e \in Events : Queued(e) => queue[e].attempts \in Nat
  BY QueuedRecord DEF IngestInv, IngestTypeOK
<1>5. \A e \in Events : Follows(e) /\ (~Queued(e) => queue'[e] = NoRecord)
  BY <1>1, <1>2, <1>4, NoRecordIsNone DEF Follows, Queued, HasStatus
<1>6. Forward
  BY <1>2, <1>3, <1>5 DEF Forward
<1>7. \A e \in Events : Queued(e) => queue'[e].attempts = queue[e].attempts
  BY <1>1, <1>2
<1>8. \A e \in Events : Queued(e) /\ queue'[e].attempts = 0 => queue'[e].status = "pending"
  BY <1>1, <1>2 DEF OrderInv, InOrder, InQueue, Queued
<1>9. \A r, e \in Events : /\ Queued(r) /\ Queued(e) /\ queue'[r].attempts = 0
                           /\ queue[r].seq < queue[e].seq
                           => queue'[e].attempts = 0
  BY <1>7 DEF OrderInv, InOrder, InQueue, Queued
<1>10. InOrder(queue')
  BY <1>5, <1>8, <1>9, OrderKept DEF OrderInv, IngestInv, IngestTypeOK
<1>11. Marks
  <2>1. \A e \in Events : queue'[e] = queue[e] \/ queue'[e].status = "pending"
    BY <1>1, <1>2
  <2> QED BY <1>2, <2>1 DEF Marks, Processed, GoalDone
<1>12. \A x \in Drains : HeldWas(x)
  BY <1>3 DEF HeldWas, At
<1>13. \A e \in GoalEvents : \A x \in Drains :
          drain'[x].env = e /\ drain'[x].pc = "processed" => GoalDone(e)
  BY <1>3 DEF GoalDone
<1> QED BY <1>3, <1>6, <1>10, <1>11, <1>12, <1>13, HeldOrder

\* What a crash brings back is older than what the goal was compared with.
LEMMA CrashOrder ==
    ASSUME IngestInv, IngestInv', OrderInv, Crash PROVE OrderInv'
<1>1. /\ queue' = disk /\ disk' = disk /\ resident' = resident /\ overlapped' = overlapped
      /\ drain' = [d \in Drains |-> IdleDrain]
  BY DEF Crash, hubVars
<1>2. \A d \in Drains : drain'[d].pc = "claim" /\ drain'[d].env = NoRecord
  BY <1>1, IdleDrainIsAState
<1>3. \A d \in Drains : Counted(d)' /\ Leads(d)'
  BY <1>2 DEF Counted, Leads, At
<1>4. InOrder(queue') /\ InOrder(disk')
  BY <1>1 DEF OrderInv
<1>5. \A e \in Events : Aged(e)'
  BY <1>1, FileRecord DEF Aged, IngestInv, IngestTypeOK
<1>6. ASSUME resident # NoRecord PROVE GoalIsLast(resident)'
  <2>1. PICK r \in Events : r = resident /\ GoalIsLast(r)
    BY <1>6, EventsAssumption DEF IngestInv, IngestTypeOK, RecordingTypeOK, OrderInv
  <2>2. disk[r] # NoRecord
    BY <2>1 DEF GoalIsLast
  <2>3. ASSUME FirstGo(r), NEW e \in GoalEvents, After(e, r)' PROVE ~(GoalDone(e)')
    <3>1. e \in Events /\ disk[e] # NoRecord /\ disk[r].seq < disk[e].seq
      BY <1>1, <2>3, EventsAssumption DEF After, Queued
    <3>2. /\ Queued(e) /\ queue[e].seq = disk[e].seq /\ queue[r].seq = disk[r].seq
      BY <2>2, <3>1 DEF OrderInv, Aged, IngestInv, FileIsOlder
    <3>3. ~GoalDone(e)
      BY <2>1, <2>3, <3>1, <3>2 DEF GoalIsLast, After
    <3> QED BY <1>1, <1>2, <3>3 DEF GoalDone, Processed
  <2> QED BY <1>1, <2>1, <2>2, <2>3 DEF GoalIsLast, FirstGo, After, GoalDone, Queued
<1> QED BY <1>1, <1>3, <1>4, <1>5, <1>6 DEF OrderInv

LEMMA OrderStep ==
    ASSUME IngestInv, IngestInv', OrderInv, [IngestNext]_ingestVars PROVE OrderInv'
<1>1. ASSUME UNCHANGED <<queueVars, drain, resident, overlapped>> PROVE OrderInv'
  BY <1>1, QuietOrder DEF queueVars
<1>2. ASSUME NEW e \in Events, RecordEvent(e) \/ EnqueueEvent(e) PROVE OrderInv'
  BY <1>1, <1>2, EnqueueOrder DEF RecordEvent, hubVars, historyVars
<1>3. ASSUME NEW d \in Drains, DrainStep(d) PROVE OrderInv'
  BY <1>3, ClaimOrder, EndOrder, ArchiveOrder, GoalOrder, MarkOrder DEF DrainStep
<1>4. CASE ClockTick \/ UNCHANGED ingestVars
  BY <1>1, <1>4 DEF ClockTick, ingestVars, hubVars, historyVars
<1> QED BY <1>2, <1>3, <1>4, RecoverOrder, CrashOrder DEF IngestNext

LEMMA OrderInitInv == ASSUME IngestInit PROVE OrderInv
<1>1. /\ \A e \in Events : queue[e] = NoRecord /\ disk[e] = NoRecord
      /\ \A d \in Drains : drain[d].pc = "claim" /\ resident = NoRecord
  BY IdleDrainIsAState DEF IngestInit
<1>2. InQueue(queue) = {} /\ InQueue(disk) = {}
  BY <1>1 DEF InQueue
<1>3. resident = NoRecord
  BY DEF IngestInit
<1> QED BY <1>1, <1>2, <1>3 DEF OrderInv, InOrder, Aged, Counted, Leads, At

\* The queue is numbered in the order its records came, and each is tried for the
\* first time in that order, in memory and in the file: claim_next takes the oldest
\* that is due, and a record that was never tried always is.  While the first
\* attempt of an event is in the hands of the only drain at work, nothing queued
\* after it has been tried, and once its goal is resident no later goal is done.
THEOREM OrderInvariance == IngestSpec => []OrderInv
<1>1. IngestInit => OrderInv
  BY OrderInitInv
<1>2. IngestInv /\ IngestInv' /\ OrderInv /\ [IngestNext]_ingestVars => OrderInv'
  BY OrderStep
<1> QED BY <1>1, <1>2, IngestInvariance, PTL DEF IngestSpec

\* The hub's resident goal is older than the last goal that counts as processed
\* only if the older event was tried again or was worked on beside another drain:
\* a crash that takes back the queue's last writes, a claim that is never written,
\* a mark that reaches the file late never put an older goal over a newer one.
THEOREM GoalLagsBehindRetries == IngestSpec => []GoalLagsOnlyBehindRetries
<1>1. IngestInv /\ OrderInv => GoalLagsOnlyBehindRetries
  <2> SUFFICES ASSUME IngestInv, OrderInv, NEW e \in GoalEvents, HasStatus(e, "processed"),
                      resident # NoRecord, ~(queue[resident].attempts > 1),
                      resident \notin overlapped
               PROVE  queue[resident].seq >= queue[e].seq
    BY DEF GoalLagsOnlyBehindRetries
  <2>1. PICK r \in Events : r = resident /\ GoalIsLast(r)
    BY EventsAssumption DEF IngestInv, IngestTypeOK, RecordingTypeOK, OrderInv
  <2>2. e \in Events /\ Queued(e) /\ Queued(r) /\ disk[r] # NoRecord
    BY <2>1, EventsAssumption DEF HasStatus, GoalIsLast, IngestInv, FileIsOlder
  <2>3. /\ queue[r].attempts \in Nat /\ queue[r].seq \in Nat /\ queue[e].seq \in Nat
        /\ disk[r].attempts \in Nat
    BY <2>2, QueuedRecord, FileRecord DEF IngestInv, IngestTypeOK
  <2>4. disk[r].attempts <= queue[r].attempts
    BY <2>2 DEF OrderInv, Aged
  <2>5. FirstGo(r)
    BY <2>1, <2>3, <2>4 DEF FirstGo
  <2>6. GoalDone(e)
    BY <2>2 DEF GoalDone, Processed, HasStatus, Queued
  <2>7. ~After(e, r)
    BY <2>1, <2>5, <2>6 DEF GoalIsLast
  <2> QED BY <2>1, <2>2, <2>3, <2>7 DEF After
<1> QED BY <1>1, IngestInvariance, OrderInvariance, PTL

=============================================================================
