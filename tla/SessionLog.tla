----------------------------- MODULE SessionLog -----------------------------
(***************************************************************************)
(* The store of the Session Service: one JSON file that holds events,      *)
(* lineage records and recovery transactions, each with an idempotency key *)
(* and a log sequence number, behind an object that caches the parsed      *)
(* file.  An append changes the cached object first and writes the file    *)
(* afterwards: when the write raises, the record stays in the cache, is    *)
(* seen by every later read, reaches the file with the next write that     *)
(* succeeds, and is gone after a restart.                                  *)
(*                                                                         *)
(* A record is [key, body, at]: the idempotency key, the compared content, *)
(* and occurred_at.  Of the log sequence numbers only what the readers ask *)
(* is kept: which record of a stream is the last.  The module that extends *)
(* this one says what its streams are.                                     *)
(***************************************************************************)
EXTENDS Naturals

VARIABLES
    cache,   \* the cached object: [entries, last]
    file     \* what a restart finds, of the same form

logVars == <<cache, file>>

LogInit ==
    /\ cache = [entries |-> {}, last |-> [s \in {} |-> s]]
    /\ file = cache

Known(k)       == \E r \in cache.entries : r.key = k

HasLast(s) == s \in DOMAIN cache.last
Last(s)    == cache.last[s]

\* Mutant: the key alone decides.
SameRecordByKey(r, once) == Known(r.key)

(***************************************************************************)
(* append_event, append_lineage and append_recovery_transaction compare    *)
(* everything but log_seq; record_event_once does not compare occurred_at. *)
(***************************************************************************)
SameRecord(r, once) ==
    \E q \in cache.entries : q.key = r.key /\ q.body = r.body /\ (once \/ q.at = r.at)

\* The ValueError "conflicting ... for idempotency key".
Conflicting(r, once) == Known(r.key) /\ ~SameRecord(r, once)

\* _assign_log_seq and the append to the cached list.
Appended(r, stream) ==
    [entries |-> cache.entries \cup {r},
     last    |-> [s \in DOMAIN cache.last \cup {stream} |->
                     IF s = stream THEN r ELSE cache.last[s]]]

\* A known record is returned as it is; a new one is appended and written.
Write(r, stream) ==
    IF Known(r.key)
    THEN UNCHANGED logVars
    ELSE cache' = Appended(r, stream) /\ file' = cache'

\* The write raises: the record is in the cached object only.
WriteRaises(r, stream) ==
    /\ ~Known(r.key)
    /\ cache' = Appended(r, stream)
    /\ UNCHANGED file

\* A new process reads the file.
Reload == cache' = file /\ UNCHANGED file

=============================================================================
