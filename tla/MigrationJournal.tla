-------------------------- MODULE MigrationJournal --------------------------
(***************************************************************************)
(* The authenticated A/B journal of src/session/migration.c: two storage   *)
(* slots, a load that picks the valid record of the larger generation, a   *)
(* first-provisioning operation and a commit that writes the other slot    *)
(* and reads it back.                                                      *)
(*                                                                         *)
(* The calls run on one thread.  What interferes with them is the storage: *)
(* a write may be cut by a power failure, may be reported as failed after  *)
(* it took effect, or may be reported as done when it tore; and, when      *)
(* ReadFaults holds, a read may fail transiently (a negative status of the *)
(* read_record callback).                                                  *)
(***************************************************************************)
EXTENDS Naturals

CONSTANTS GenMax,      \* UINT32_MAX: the largest generation
          Epochs,      \* the epochs a caller may ask for
          Keys,        \* (active_key_slot, key_id) pairs, as one value
          ReadFaults,  \* may read_record return a negative status?
          Empty,       \* an erased slot: C0PQ_JOURNAL_READ_EMPTY
          Torn,        \* bytes that decode_record rejects
          Fault,       \* what a caller gets from a failed read
          NoRecord     \* "nothing returned yet"

\* LEGACY_PSK, PSK_PLUS_PQ, PQ_REQUIRED_WITH_PSK_AUTH.
PolicyStates == 0..2

Slots == {0, 1}

\* A record that decode_record accepts: magic, ranges and tag are right and
\* the generation is not zero.
Records == [generation : 1..GenMax, state : PolicyStates,
            epoch : Epochs, key : Keys]

\* What a caller passes in; state 3 stands for any out-of-range argument.
Requests == [state : 0..3, epoch : Epochs, key : Keys]

ASSUME ConstantsAssumption ==
    /\ GenMax \in Nat \ {0}
    /\ Epochs \subseteq Nat
    /\ ReadFaults \in BOOLEAN
    /\ {Empty, Torn, Fault, NoRecord} \cap Records = {}
    /\ NoRecord \notin Requests
    /\ Empty # Torn /\ Empty # Fault /\ Torn # Fault

VARIABLES slots,   \* the content of the two storage slots
          pc,      \* where the running initialize or commit stands
          target,  \* the slot it writes
          raw,     \* the record it writes
          result,  \* what the last call returned
          view     \* the record last returned to, or acknowledged to, a caller

vars == <<slots, pc, target, raw, result, view>>

-----------------------------------------------------------------------------

\* The record a request becomes: encode_record sees its fields and generation.
encode_record(v, generation) ==
    [generation |-> generation, state |-> v.state,
     epoch |-> v.epoch, key |-> v.key]

\* decode_record succeeds.
Decodes(content) == content \in Records

\* What read_record may return for slot s.
read_record(s) == {slots[s]} \cup (IF ReadFaults THEN {Fault} ELSE {})

\* Every pair of read results that one call may see.
Reads == {seen \in [Slots -> {slots[0], slots[1], Fault}] :
            \A s \in Slots : seen[s] \in read_record(s)}

Loadable(seen) == \E s \in Slots : Decodes(seen[s])

\* The slot that load selects: slot 1 only if it is valid and slot 0 is not
\* or has the smaller generation.
SelectedSlot(seen) ==
    IF /\ Decodes(seen[1])
       /\ ~Decodes(seen[0]) \/ seen[1].generation > seen[0].generation
    THEN 1 ELSE 0

Selected(seen) == seen[SelectedSlot(seen)]

\* Faulty variant of TargetSlot: the selected slot is rewritten in place.
TargetSlotInPlace(seen) == SelectedSlot(seen)

\* The slot a commit overwrites: the other one.
TargetSlot(seen) == 1 - SelectedSlot(seen)

\* The status of a load that finds no valid record.
LoadError(seen) ==
    IF \E s \in Slots : seen[s] = Fault THEN "ERR_IO" ELSE "ERR_STATE"

\* Faulty variant of transition_allowed: only the ranges are checked.
transition_allowed_unordered(current, next) ==
    current \in PolicyStates /\ next \in PolicyStates

transition_allowed(current, next) ==
    /\ current \in PolicyStates
    /\ next \in PolicyStates
    /\ next >= current

-----------------------------------------------------------------------------

Init == /\ slots = [s \in Slots |-> Empty]
        /\ pc = "idle"
        /\ target = 0
        /\ raw = NoRecord
        /\ result = "none"
        /\ view = NoRecord

\* A call ends with status r: its locals are wiped.
Return(r) == /\ pc' = "idle"
             /\ result' = r
             /\ target' = 0
             /\ raw' = NoRecord

\* c0pq_migration_load.
migration_load ==
    /\ pc = "idle"
    /\ \E seen \in Reads :
         IF Loadable(seen)
         THEN Return("OK") /\ view' = Selected(seen)
         ELSE Return(LoadError(seen)) /\ UNCHANGED view
    /\ UNCHANGED slots

\* An initialize or commit with an argument out of range.
RejectArgument(v) ==
    /\ pc = "idle"
    /\ v.state \notin PolicyStates
    /\ Return("ERR_ARGUMENT")
    /\ UNCHANGED <<slots, view>>

\* c0pq_migration_initialize up to the write: both slots must read as erased.
migration_initialize(v) ==
    /\ pc = "idle"
    /\ v.state \in PolicyStates
    /\ \E seen \in Reads :
         \/ /\ \A s \in Slots : seen[s] = Empty
            /\ pc' = "write"
            /\ target' = 0
            /\ raw' = encode_record(v, 1)
            /\ result' = "none"
         \/ /\ \E s \in Slots : seen[s] \notin {Empty, Fault}
            /\ Return("ERR_STATE")
         \/ /\ \A s \in Slots : seen[s] \in {Empty, Fault}
            /\ \E s \in Slots : seen[s] = Fault
            /\ Return("ERR_IO")
    /\ UNCHANGED <<slots, view>>

\* Faulty variant of CommitAllowed: the generation limit is missing.
CommitAllowedUnlimited(v, current) ==
    /\ transition_allowed(current.state, v.state)
    /\ v.epoch >= current.epoch

\* The checks of commit against the record it loaded.
CommitAllowed(v, current) ==
    /\ transition_allowed(current.state, v.state)
    /\ v.epoch >= current.epoch
    /\ current.generation # GenMax

\* c0pq_migration_commit up to the write: load, check, build the successor
\* record for the other slot.
migration_commit(v) ==
    /\ pc = "idle"
    /\ v.state \in PolicyStates
    /\ \E seen \in Reads :
         \/ /\ ~Loadable(seen)
            /\ Return(LoadError(seen))
         \/ /\ Loadable(seen)
            /\ ~CommitAllowed(v, Selected(seen))
            /\ Return("ERR_STATE")
         \/ /\ Loadable(seen)
            /\ CommitAllowed(v, Selected(seen))
            /\ pc' = "write"
            /\ target' = TargetSlot(seen)
            /\ raw' = encode_record(v, Selected(seen).generation + 1)
            /\ result' = "none"
    /\ UNCHANGED <<slots, view>>

\* What a write of the raw record may leave in its slot: the old content,
\* an erased page, torn bytes, or the record.
WriteOutcomes == {slots[target], Empty, Torn, raw}

\* The write_record callback returns.  Its status is only a report: 0 with
\* any outcome leads to the read-back, non-zero ends the call.
write_record ==
    /\ pc = "write"
    /\ \E content \in WriteOutcomes :
         slots' = [slots EXCEPT ![target] = content]
    /\ \/ pc' = "verify" /\ UNCHANGED <<target, raw, result>>
       \/ Return("ERR_IO")
    /\ UNCHANGED view

\* Faulty variant of verify_record: the status of the write is trusted.
verify_record_trusting ==
    /\ pc = "verify"
    /\ Return("OK")
    /\ view' = raw
    /\ UNCHANGED slots

\* The read-back: the bytes must be there, equal and decodable.
verify_record ==
    /\ pc = "verify"
    /\ \E seen \in read_record(target) :
         IF seen = raw
         THEN Return("OK") /\ view' = raw
         ELSE Return("ERR_IO") /\ UNCHANGED view
    /\ UNCHANGED slots

\* Power fails while an operation runs; a write under way may have left any
\* of its outcomes.  The next call is the first after the reboot.
Crash ==
    /\ pc # "idle"
    /\ \/ pc = "write" /\ \E content \in WriteOutcomes :
                            slots' = [slots EXCEPT ![target] = content]
       \/ pc = "verify" /\ UNCHANGED slots
    /\ Return("none")
    /\ UNCHANGED view

Next == \/ migration_load
        \/ \E v \in Requests : \/ RejectArgument(v)
                               \/ migration_initialize(v)
                               \/ migration_commit(v)
        \/ write_record
        \/ verify_record
        \/ Crash

Spec == Init /\ [][Next]_vars

-----------------------------------------------------------------------------

\* Type invariant of the journal's storage, call state and history.
TypeOK ==
    /\ slots \in [Slots -> Records \cup {Empty, Torn}]
    /\ pc \in {"idle", "write", "verify"}
    /\ target \in Slots
    /\ raw \in Records \cup {NoRecord}
    /\ pc # "idle" => raw \in Records
    /\ result \in {"none", "OK", "ERR_IO", "ERR_STATE", "ERR_ARGUMENT"}
    /\ view \in Records \cup {NoRecord}

\* b is a or a later record than a, no weaker in state and epoch.
NoEarlier(b, a) ==
    \/ b = a
    \/ /\ b.generation > a.generation
       /\ b.state >= a.state
       /\ b.epoch >= a.epoch

\* Once a record was returned by load or acknowledged by initialize or
\* commit, the storage still holds it or a later one, whatever power
\* failures and failed writes came in between (migration.c load and commit).
DurableView ==
    view # NoRecord => Loadable(slots) /\ NoEarlier(Selected(slots), view)

\* The record in the slot that load does not select is strictly older and no
\* stronger: overwriting it can lose nothing.
OrderedSlots ==
    \A s \in Slots :
        Decodes(slots[s]) /\ s # SelectedSlot(slots) =>
            /\ slots[s].generation < Selected(slots).generation
            /\ NoEarlier(Selected(slots), slots[s])

\* A record being written is the direct successor of the one in the other
\* slot, or the first record of a journal whose other slot is erased; before
\* the write, its slot is not the one load selects.
PendingSucceeds ==
    pc # "idle" =>
      LET other == slots[1 - target] IN
      IF Decodes(other)
      THEN /\ raw.generation = other.generation + 1
           /\ NoEarlier(raw, other)
           /\ pc = "write" => target = TargetSlot(slots)
      ELSE /\ raw.generation = 1
           /\ pc = "write" => ~Loadable(slots)
           /\ Decodes(slots[target]) => slots[target] = raw

\* The inductive invariant behind DurableView and OneWayPolicy: a commit may
\* be interrupted anywhere because it only ever overwrites the older record
\* (migration.c, target_slot = current_slot ^ 1).
JournalInv == TypeOK /\ OrderedSlots /\ PendingSucceeds /\ DurableView

\* What callers are told never goes back: neither a load nor an
\* acknowledgement returns a record with a lower policy state or epoch than
\* one returned before ("One-way policy states", docs/MIGRATION.md).
OneWayPolicy ==
    [][view # NoRecord => NoEarlier(view', view)]_view

\* No commit is acknowledged with a lower policy state than the record its
\* caller saw last ("The state helper rejects return to a lower state",
\* docs/MIGRATION.md).  Fails when reads may fail: see the README.
NoDowngradeCommit ==
    [][pc = "verify" /\ result' = "OK" /\ view # NoRecord
         => view'.state >= view.state]_vars

\* A provisioned journal stays loadable through every torn, failed or
\* interrupted commit, and also when reads fail transiently: the slot that
\* load selected is never the slot that commit writes.
NeverBricked ==
    [][Loadable(slots) => Loadable(slots')]_slots

\* The journal implements the one-way register: the register's value is what
\* a fault-free load would select.
Register == INSTANCE PolicyRegister WITH
    Unprovisioned <- NoRecord,
    policy <- IF Loadable(slots)
              THEN [state |-> Selected(slots).state,
                    epoch |-> Selected(slots).epoch,
                    key   |-> Selected(slots).key]
              ELSE NoRecord

ImplementsRegister == Register!Spec
=============================================================================
