------------------------------ MODULE LedgerOps ------------------------------
(***************************************************************************)
(* The decision an ActionStore takes under its lock, as operators on the   *)
(* record list (enterprise-api/app/store.py).  A record carries the pair   *)
(* <<incident, action>>, the idempotency key the client sent, the fresh    *)
(* record id and the 1-based sequence number.  The correlation id, note    *)
(* and timestamp of a record are never read back and are left out.         *)
(*                                                                         *)
(* The two dictionaries _by_key and _by_pair are indexes rebuilt from, or  *)
(* extended together with, the list: they are the two lookups below.       *)
(***************************************************************************)
EXTENDS Naturals, Sequences

RecordsWithKey(records, key) ==
    {i \in DOMAIN records : records[i].key = key}

RecordsWithPair(records, pair) ==
    {i \in DOMAIN records : records[i].pair = pair}

KeySeen(records, key)   == RecordsWithKey(records, key) # {}
PairSeen(records, pair) == RecordsWithPair(records, pair) # {}

RecordOfKey(records, key) ==
    records[CHOOSE i \in DOMAIN records : records[i].key = key]

RecordOfPair(records, pair) ==
    records[CHOOSE i \in DOMAIN records : records[i].pair = pair]

\* Mutant of NewRecord: numbered from 0.
NewRecordFromZero(records, pair, key, id) ==
    [id |-> id, pair |-> pair, key |-> key, sequence |-> Len(records)]

NewRecord(records, pair, key, id) ==
    [id |-> id, pair |-> pair, key |-> key, sequence |-> Len(records) + 1]

\* Mutant of IsFresh: the pair is not looked up.
IsFreshByKey(records, pair, key) == ~KeySeen(records, key)

\* The key is unknown and no other key has already applied the pair: the only
\* case in which commit() creates a record.
IsFresh(records, pair, key) ==
    ~KeySeen(records, key) /\ ~PairSeen(records, pair)

\* What commit() answers when it creates nothing: the original record of the
\* key, or one of the two conflicts, carrying the record it collided with.
SettledAnswer(records, pair, key) ==
    IF KeySeen(records, key)
    THEN LET existing == RecordOfKey(records, key) IN
         [kind |-> IF existing.pair = pair THEN "replayed"
                                           ELSE "key_binding_conflict",
          record |-> existing]
    ELSE [kind |-> "already_applied", record |-> RecordOfPair(records, pair)]

\* The load-time checks on a file: one record per key and per pair.
UniqueKeys(records) ==
    \A i, j \in DOMAIN records : records[i].key = records[j].key => i = j

UniquePairs(records) ==
    \A i, j \in DOMAIN records : records[i].pair = records[j].pair => i = j

Dense(records) == \A i \in DOMAIN records : records[i].sequence = i

WellFormed(records) ==
    UniqueKeys(records) /\ UniquePairs(records) /\ Dense(records)

RecordsIn(records) == {records[i] : i \in DOMAIN records}
==============================================================================
