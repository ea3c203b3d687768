----------------------- MODULE MigrationJournalProofs -----------------------
(***************************************************************************)
(* Proofs about the migration journal for every generation width, every    *)
(* set of epochs and keys.                                                 *)
(***************************************************************************)
EXTENDS MigrationJournal, TLAPS

-----------------------------------------------------------------------------
(* Facts about the helpers. *)

\* Two slots are read; each is what the storage holds or a fault.
LEMMA ReadsType ==
    ASSUME NEW seen \in Reads
    PROVE  /\ seen[0] = slots[0] \/ seen[0] = Fault
           /\ seen[1] = slots[1] \/ seen[1] = Fault
BY DEF Reads, read_record, Slots

\* Without read faults a call sees the storage.
LEMMA ReadsExact ==
    ASSUME ~ReadFaults, TypeOK, NEW seen \in Reads
    PROVE  seen = slots
BY DEF Reads, read_record, Slots, TypeOK

\* load selects a slot that decodes, if there is one.
LEMMA SelectedDecodes ==
    ASSUME NEW seen, Loadable(seen)
    PROVE  /\ SelectedSlot(seen) \in Slots
           /\ Selected(seen) \in Records
BY DEF Loadable, Selected, SelectedSlot, Decodes, Slots

\* What a commit that passes its checks builds is a record.
LEMMA EncodeType ==
    ASSUME NEW v \in Requests, v.state \in PolicyStates,
           NEW g \in 1..GenMax
    PROVE  encode_record(v, g) \in Records
BY DEF encode_record, Records, Requests

-----------------------------------------------------------------------------
(* Type correctness, with or without read faults. *)

\* The journal's type invariant holds in every reachable state
\* (migration.c, all operations).
THEOREM TypeCorrect == Spec => []TypeOK
<1>1. Init => TypeOK
  BY DEF Init, TypeOK, Slots
<1>2. TypeOK /\ [Next]_vars => TypeOK'
  <2> SUFFICES ASSUME TypeOK, [Next]_vars PROVE TypeOK'
    OBVIOUS
  <2>1. CASE migration_load
    <3>1. PICK seen \in Reads :
            IF Loadable(seen)
            THEN Return("OK") /\ view' = Selected(seen)
            ELSE Return(LoadError(seen)) /\ UNCHANGED view
      BY <2>1 DEF migration_load
    <3>2. view' \in Records \cup {NoRecord}
      BY <3>1, SelectedDecodes DEF TypeOK
    <3> QED
      BY <2>1, <3>1, <3>2 DEF migration_load, Return, LoadError, TypeOK, Slots
  <2>2. ASSUME NEW v \in Requests, RejectArgument(v) PROVE TypeOK'
    BY <2>2 DEF RejectArgument, Return, TypeOK, Slots
  <2>3. ASSUME NEW v \in Requests, migration_initialize(v) PROVE TypeOK'
    <3>1. encode_record(v, 1) \in Records
      BY <2>3, EncodeType, ConstantsAssumption DEF migration_initialize
    <3> QED
      BY <2>3, <3>1 DEF migration_initialize, Return, TypeOK, Slots
  <2>4. ASSUME NEW v \in Requests, migration_commit(v) PROVE TypeOK'
    <3>1. PICK seen \in Reads :
            \/ Return(LoadError(seen))
            \/ Return("ERR_STATE")
            \/ /\ Loadable(seen)
               /\ CommitAllowed(v, Selected(seen))
               /\ pc' = "write"
               /\ target' = TargetSlot(seen)
               /\ raw' = encode_record(v, Selected(seen).generation + 1)
               /\ result' = "none"
      BY <2>4 DEF migration_commit
    <3>2. CASE Return(LoadError(seen)) \/ Return("ERR_STATE")
      BY <2>4, <3>2 DEF migration_commit, Return, LoadError, TypeOK, Slots
    <3>3. CASE /\ Loadable(seen)
               /\ CommitAllowed(v, Selected(seen))
               /\ pc' = "write"
               /\ target' = TargetSlot(seen)
               /\ raw' = encode_record(v, Selected(seen).generation + 1)
               /\ result' = "none"
      <4>1. Selected(seen).generation + 1 \in 1..GenMax
        BY <3>3, SelectedDecodes, ConstantsAssumption
           DEF Records, CommitAllowed
      <4>2. raw' \in Records
        BY <2>4, <3>3, <4>1, EncodeType DEF migration_commit
      <4>3. target' \in Slots
        BY <3>3 DEF TargetSlot, SelectedSlot, Slots
      <4> QED
        BY <2>4, <3>3, <4>2, <4>3 DEF migration_commit, TypeOK
    <3> QED
      BY <3>1, <3>2, <3>3
  <2>5. CASE write_record
    BY <2>5 DEF write_record, WriteOutcomes, Return, TypeOK, Slots
  <2>6. CASE verify_record
    BY <2>6 DEF verify_record, Return, TypeOK, Slots
  <2>7. CASE Crash
    BY <2>7 DEF Crash, WriteOutcomes, Return, TypeOK, Slots
  <2>8. CASE UNCHANGED vars
    BY <2>8 DEF vars, TypeOK
  <2> QED
    BY <2>1, <2>2, <2>3, <2>4, <2>5, <2>6, <2>7, <2>8 DEF Next
<1> QED
  BY <1>1, <1>2, PTL DEF Spec

-----------------------------------------------------------------------------
(* A journal that can be loaded stays loadable, read faults included. *)

\* The slot a write about to happen leaves alone holds a record, unless the
\* journal holds none.
SafeOther == pc = "write" /\ Loadable(slots) => Decodes(slots[1 - target])

\* A commit never selects as its target the only slot that decodes.
LEMMA SafeOtherInv == Spec => [](TypeOK /\ SafeOther)
<1>1. Init => SafeOther
  BY DEF Init, SafeOther
<1>2. TypeOK /\ TypeOK' /\ SafeOther /\ [Next]_vars => SafeOther'
  <2> SUFFICES ASSUME TypeOK, TypeOK', SafeOther, [Next]_vars
               PROVE  SafeOther'
    OBVIOUS
  <2>1. CASE migration_load
    BY <2>1 DEF migration_load, Return, SafeOther
  <2>2. ASSUME NEW v \in Requests, RejectArgument(v) PROVE SafeOther'
    BY <2>2 DEF RejectArgument, Return, SafeOther
  <2>3. ASSUME NEW v \in Requests, migration_initialize(v) PROVE SafeOther'
    <3>1. PICK seen \in Reads :
            \/ \A s \in Slots : seen[s] = Empty
            \/ pc' = "idle"
      BY <2>3 DEF migration_initialize, Return
    <3>2. CASE \A s \in Slots : seen[s] = Empty
      <4>1. slots' = slots /\ slots[0] = Empty /\ slots[1] = Empty
        BY <2>3, <3>2, ReadsType, ConstantsAssumption
           DEF migration_initialize, Slots
      <4>2. Empty \notin Records
        BY ConstantsAssumption
      <4> QED
        BY <4>1, <4>2 DEF SafeOther, Loadable, Decodes, Slots
    <3> QED
      BY <3>1, <3>2 DEF SafeOther
  <2>4. ASSUME NEW v \in Requests, migration_commit(v) PROVE SafeOther'
    <3>1. PICK seen \in Reads :
            \/ pc' = "idle"
            \/ Loadable(seen) /\ target' = TargetSlot(seen)
      BY <2>4 DEF migration_commit, Return
    <3>2. CASE Loadable(seen) /\ target' = TargetSlot(seen)
      <4>1. SelectedSlot(seen) \in Slots /\ Selected(seen) \in Records
        BY <3>2, SelectedDecodes
      <4>2. 1 - target' = SelectedSlot(seen)
        BY <3>2, <4>1 DEF TargetSlot, Slots
      <4>3. Selected(seen) = slots[SelectedSlot(seen)]
        BY <4>1, ReadsType, ConstantsAssumption DEF Selected, Slots
      <4>4. slots' = slots
        BY <2>4 DEF migration_commit
      <4> QED
        BY <4>1, <4>2, <4>3, <4>4 DEF SafeOther, Decodes
    <3> QED
      BY <3>1, <3>2 DEF SafeOther
  <2>5. CASE write_record
    BY <2>5 DEF write_record, Return, SafeOther
  <2>6. CASE verify_record
    BY <2>6 DEF verify_record, Return, SafeOther
  <2>7. CASE Crash
    BY <2>7 DEF Crash, Return, SafeOther
  <2>8. CASE UNCHANGED vars
    BY <2>8 DEF vars, SafeOther, Loadable, Decodes
  <2> QED
    BY <2>1, <2>2, <2>3, <2>4, <2>5, <2>6, <2>7, <2>8 DEF Next
<1> QED
  BY <1>1, <1>2, TypeCorrect, PTL DEF Spec

\* A provisioned journal stays loadable through torn, failed, misreported and
\* interrupted writes, also when reads fail transiently (migration.c, commit
\* writes current_slot ^ 1).
THEOREM JournalNeverBricked == Spec => NeverBricked
<1>1. TypeOK /\ SafeOther /\ [Next]_vars
        => [Loadable(slots) => Loadable(slots')]_slots
  <2> SUFFICES ASSUME TypeOK, SafeOther, [Next]_vars,
                      Loadable(slots), slots' # slots
               PROVE  Loadable(slots')
    OBVIOUS
  <2>1. /\ pc = "write"
        /\ \E content \in WriteOutcomes :
             slots' = [slots EXCEPT ![target] = content]
    BY DEF Next, vars, migration_load, RejectArgument, migration_initialize,
           migration_commit, write_record, verify_record, Crash
  <2>2. slots'[1 - target] = slots[1 - target] /\ 1 - target \in Slots
    BY <2>1 DEF TypeOK, Slots
  <2> QED
    BY <2>1, <2>2 DEF SafeOther, Loadable, Decodes
<1> QED
  BY <1>1, SafeOtherInv, PTL DEF Spec, NeverBricked

-----------------------------------------------------------------------------
(* Durability and one-way policy, when reads do not fail. *)

\* The order on records is transitive.
LEMMA NoEarlierTrans ==
    ASSUME NEW a \in Records, NEW b \in Records, NEW c \in Records,
           NoEarlier(c, b), NoEarlier(b, a)
    PROVE  NoEarlier(c, a)
<1>1. GenMax \in Nat /\ \A e \in Epochs : e \in Nat
  BY ConstantsAssumption
<1>2. \A r \in Records : /\ r.generation \in Nat
                         /\ r.state \in Nat
                         /\ r.epoch \in Nat
  BY <1>1 DEF Records, PolicyStates
<1> QED
  BY <1>2 DEF NoEarlier

\* Writing any outcome of a pending write keeps the slots ordered and makes
\* the selected record the same one or the pending one.
LEMMA WriteKeepsOrder ==
    ASSUME JournalInv, pc = "write",
           NEW content \in WriteOutcomes,
           slots' = [slots EXCEPT ![target] = content]
    PROVE  /\ OrderedSlots'
           /\ Loadable(slots) =>
                /\ Loadable(slots')
                /\ Selected(slots') \in {Selected(slots), raw}
                /\ NoEarlier(Selected(slots'), Selected(slots))
           /\ ~Loadable(slots) /\ Loadable(slots') => Selected(slots') = raw
           /\ content = raw => Loadable(slots') /\ Selected(slots') = raw
           /\ LET other == slots'[1 - target] IN
              IF Decodes(other)
              THEN /\ raw.generation = other.generation + 1
                   /\ NoEarlier(raw, other)
              ELSE /\ raw.generation = 1
                   /\ Decodes(slots'[target]) => slots'[target] = raw
<1> DEFINE o == 1 - target
<1>1. /\ target \in {0, 1} /\ o \in {0, 1} /\ o # target
      /\ slots'[o] = slots[o] /\ slots'[target] = content
      /\ slots \in [Slots -> Records \cup {Empty, Torn}]
      /\ raw \in Records
  BY DEF JournalInv, TypeOK, Slots
<1>2. Empty \notin Records /\ Torn \notin Records
  BY ConstantsAssumption
<1>3. \A r \in Records : r.generation \in Nat
  BY ConstantsAssumption DEF Records
<1>4. CASE Decodes(slots[o])
  <2>1. /\ raw.generation = slots[o].generation + 1
        /\ NoEarlier(raw, slots[o])
        /\ SelectedSlot(slots) = o
    BY <1>1, <1>4 DEF JournalInv, PendingSucceeds, TargetSlot, SelectedSlot
  <2>2. Decodes(slots[target]) =>
          /\ slots[target].generation < slots[o].generation
          /\ NoEarlier(slots[o], slots[target])
    BY <1>1, <2>1 DEF JournalInv, OrderedSlots, Selected, Slots
  <2>3. CASE content = raw
    <3>1. SelectedSlot(slots') = target
      BY <1>1, <1>3, <1>4, <2>1, <2>3 DEF SelectedSlot, Decodes
    <3> QED
      BY <1>1, <1>3, <1>4, <2>1, <2>3, <3>1
         DEF OrderedSlots, Selected, Loadable, Decodes, Slots, NoEarlier
  <2>4. CASE content # raw
    <3>1. SelectedSlot(slots') = o
      BY <1>1, <1>2, <1>3, <1>4, <2>2, <2>4
         DEF SelectedSlot, Decodes, WriteOutcomes
    <3>2. slots'[target] = slots[target] \/ ~Decodes(slots'[target])
      BY <1>1, <1>2, <2>4 DEF WriteOutcomes, Decodes
    <3> QED
      BY <1>1, <1>4, <2>1, <2>2, <2>4, <3>1, <3>2
         DEF OrderedSlots, Selected, Loadable, Slots, NoEarlier
  <2> QED
    BY <2>3, <2>4
<1>5. CASE ~Decodes(slots[o])
  <2>1. raw.generation = 1 /\ ~Loadable(slots)
    BY <1>1, <1>5 DEF JournalInv, PendingSucceeds
  <2>2. ~Decodes(slots[target])
    BY <1>1, <2>1 DEF Loadable, Slots
  <2>3. Decodes(slots'[target]) => content = raw
    BY <1>1, <1>2, <2>2 DEF WriteOutcomes, Decodes
  <2>4. Loadable(slots') => SelectedSlot(slots') = target /\ content = raw
    BY <1>1, <1>5, <2>3 DEF Loadable, SelectedSlot, Slots
  <2>5. OrderedSlots'
    BY <1>1, <1>5, <2>4 DEF OrderedSlots, Loadable, Slots
  <2>6. content = raw => Loadable(slots')
    BY <1>1 DEF Loadable, Decodes, Slots
  <2> QED
    BY <1>1, <1>5, <2>1, <2>3, <2>4, <2>5, <2>6 DEF Selected
<1> QED
  BY <1>4, <1>5

\* The journal's inductive invariant.
LEMMA JournalInvariant ==
    ASSUME ~ReadFaults
    PROVE  Spec => []JournalInv
<1>1. Init => JournalInv
  <2> SUFFICES ASSUME Init PROVE JournalInv
    OBVIOUS
  <2>1. TypeOK
    BY DEF Init, TypeOK, Slots
  <2>2. OrderedSlots
    BY ConstantsAssumption DEF Init, OrderedSlots, Decodes, Slots
  <2> QED
    BY <2>1, <2>2 DEF Init, JournalInv, PendingSucceeds, DurableView
<1>2. JournalInv /\ TypeOK' /\ [Next]_vars => JournalInv'
  <2> SUFFICES ASSUME JournalInv, TypeOK', [Next]_vars PROVE JournalInv'
    OBVIOUS
  <2>a. TypeOK
    BY DEF JournalInv
  <2>b. ASSUME slots' = slots PROVE OrderedSlots'
    BY <2>b DEF JournalInv, OrderedSlots, Selected, SelectedSlot, Decodes
  <2>c. ASSUME slots' = slots, view' = view PROVE DurableView'
    BY <2>c DEF JournalInv, DurableView, Selected, SelectedSlot, Loadable,
                Decodes
  <2>d. ASSUME pc' = "idle" PROVE PendingSucceeds'
    BY <2>d DEF PendingSucceeds
  <2>1. CASE migration_load
    <3>1. slots' = slots /\ pc' = "idle"
      BY <2>1 DEF migration_load, Return
    <3>2. view' = view \/ (Loadable(slots) /\ view' = Selected(slots))
      BY <2>1, <2>a, ReadsExact DEF migration_load
    <3>3. DurableView'
      BY <3>1, <3>2, <2>c DEF DurableView, NoEarlier
    <3> QED
      BY <3>1, <3>3, <2>b, <2>d DEF JournalInv
  <2>2. ASSUME NEW v \in Requests, RejectArgument(v) PROVE JournalInv'
    BY <2>2, <2>b, <2>c, <2>d DEF RejectArgument, Return, JournalInv
  <2>3. ASSUME NEW v \in Requests, migration_initialize(v) PROVE JournalInv'
    <3>1. slots' = slots /\ view' = view
      BY <2>3 DEF migration_initialize
    <3>2. CASE pc' = "idle"
      BY <3>1, <3>2, <2>b, <2>c, <2>d DEF JournalInv
    <3>3. CASE pc' # "idle"
      <4>1. /\ \A s \in Slots : slots[s] = Empty
            /\ target' = 0 /\ raw' = encode_record(v, 1)
        BY <2>3, <2>a, <3>3, ReadsExact DEF migration_initialize, Return
      <4>2. ~Loadable(slots) /\ ~Decodes(slots[0]) /\ ~Decodes(slots[1])
        BY <4>1, ConstantsAssumption DEF Loadable, Decodes, Slots
      <4>3. raw'.generation = 1
        BY <4>1 DEF encode_record
      <4>4. PendingSucceeds'
        BY <3>1, <4>1, <4>2, <4>3 DEF PendingSucceeds, Decodes, Loadable
      <4> QED
        BY <3>1, <4>4, <2>b, <2>c DEF JournalInv
    <3> QED
      BY <3>2, <3>3
  <2>4. ASSUME NEW v \in Requests, migration_commit(v) PROVE JournalInv'
    <3>1. slots' = slots /\ view' = view
      BY <2>4 DEF migration_commit
    <3>2. CASE pc' = "idle"
      BY <3>1, <3>2, <2>b, <2>c, <2>d DEF JournalInv
    <3>3. CASE pc' # "idle"
      <4>1. /\ Loadable(slots)
            /\ CommitAllowed(v, Selected(slots))
            /\ target' = TargetSlot(slots)
            /\ raw' = encode_record(v, Selected(slots).generation + 1)
        BY <2>4, <2>a, <3>3, ReadsExact DEF migration_commit, Return
      <4>2. SelectedSlot(slots) \in Slots /\ Selected(slots) \in Records
        BY <4>1, SelectedDecodes
      <4>3. 1 - target' = SelectedSlot(slots)
        BY <4>1, <4>2 DEF TargetSlot, Slots
      <4>4. slots'[1 - target'] = Selected(slots)
        BY <3>1, <4>3 DEF Selected
      <4>5. raw'.generation = Selected(slots).generation + 1
        BY <4>1 DEF encode_record
      <4>6. NoEarlier(raw', Selected(slots))
        BY <4>1, <4>2, <4>5, ConstantsAssumption
           DEF NoEarlier, encode_record, CommitAllowed, transition_allowed,
               Records
      <4>7. PendingSucceeds'
        BY <3>1, <4>1, <4>2, <4>4, <4>5, <4>6
           DEF PendingSucceeds, Decodes, TargetSlot, SelectedSlot
      <4> QED
        BY <3>1, <4>7, <2>b, <2>c DEF JournalInv
    <3> QED
      BY <3>2, <3>3
  <2>5. ASSUME pc = "write", view' = view,
               \E content \in WriteOutcomes :
                 slots' = [slots EXCEPT ![target] = content],
               \/ pc' = "idle"
               \/ pc' = "verify" /\ target' = target /\ raw' = raw
        PROVE JournalInv'
    <3>1. PICK content \in WriteOutcomes :
            slots' = [slots EXCEPT ![target] = content]
      BY <2>5
    <3>2. OrderedSlots'
      BY <2>5, <3>1, WriteKeepsOrder
    <3>3. DurableView'
      <4>1. CASE view = NoRecord
        BY <2>5, <4>1 DEF DurableView
      <4>2. CASE view # NoRecord
        <5>1. /\ Loadable(slots) /\ NoEarlier(Selected(slots), view)
              /\ view \in Records
          BY <2>a, <4>2 DEF JournalInv, DurableView, TypeOK
        <5>2. Loadable(slots') /\ NoEarlier(Selected(slots'), Selected(slots))
          BY <2>5, <3>1, <5>1, WriteKeepsOrder
        <5>3. Selected(slots) \in Records /\ Selected(slots') \in Records
          BY <5>1, <5>2, SelectedDecodes
        <5>4. NoEarlier(Selected(slots'), view)
          BY <5>1, <5>2, <5>3, NoEarlierTrans
        <5> QED
          BY <2>5, <5>2, <5>4 DEF DurableView
      <4> QED
        BY <4>1, <4>2
    <3>4. PendingSucceeds'
      BY <2>5, <2>d, <3>1, WriteKeepsOrder DEF PendingSucceeds
    <3> QED
      BY <3>2, <3>3, <3>4 DEF JournalInv
  <2>6. CASE write_record
    BY <2>6, <2>5 DEF write_record, Return
  <2>7. CASE verify_record
    <3>1. slots' = slots /\ pc' = "idle"
      BY <2>7 DEF verify_record, Return
    <3>2. view' = view \/ (view' = raw /\ slots[target] = raw)
      BY <2>7 DEF verify_record, read_record
    <3>3. ASSUME slots[target] = raw
          PROVE  Loadable(slots) /\ Selected(slots) = raw
      <4>1. /\ target \in Slots /\ raw \in Records /\ Decodes(raw)
            /\ slots \in [Slots -> Records \cup {Empty, Torn}]
        BY <2>7, <2>a DEF verify_record, TypeOK, Decodes
      <4>2. Decodes(slots[1 - target]) =>
              slots[target].generation = slots[1 - target].generation + 1
        BY <2>7, <3>3 DEF verify_record, JournalInv, PendingSucceeds
      <4>3. Decodes(slots[1 - target]) => slots[1 - target].generation \in Nat
        BY ConstantsAssumption DEF Decodes, Records
      <4>4. SelectedSlot(slots) = target
        BY <3>3, <4>1, <4>2, <4>3 DEF SelectedSlot, Slots
      <4> QED
        BY <3>3, <4>1, <4>4 DEF Loadable, Selected
    <3>4. DurableView'
      BY <3>1, <3>2, <3>3, <2>c DEF DurableView, NoEarlier
    <3> QED
      BY <3>1, <3>4, <2>b, <2>d DEF JournalInv
  <2>8. CASE Crash
    <3>1. CASE pc = "write"
      BY <2>8, <3>1, <2>5 DEF Crash, Return
    <3>2. CASE pc = "verify"
      BY <2>8, <3>2, <2>b, <2>c, <2>d DEF Crash, Return, JournalInv
    <3> QED
      BY <2>8, <3>1, <3>2 DEF Crash
  <2>9. CASE UNCHANGED vars
    <3>1. PendingSucceeds'
      BY <2>9 DEF vars, JournalInv, PendingSucceeds, Loadable, Decodes,
                  TargetSlot, SelectedSlot
    <3> QED
      BY <2>9, <3>1, <2>b, <2>c DEF vars, JournalInv
  <2> QED
    BY <2>1, <2>2, <2>3, <2>4, <2>6, <2>7, <2>8, <2>9 DEF Next
<1> QED
  BY <1>1, <1>2, TypeCorrect, PTL DEF Spec

\* A record that load returned, or that initialize or commit acknowledged, is
\* never lost: the storage keeps it or a later, no weaker one (migration.c).
THEOREM JournalDurable ==
    ASSUME ~ReadFaults
    PROVE  Spec => []DurableView
BY JournalInvariant, PTL DEF JournalInv

\* Callers never see the policy state or the epoch go back (migration.c).
THEOREM JournalOneWay ==
    ASSUME ~ReadFaults
    PROVE  Spec => OneWayPolicy
<1>1. JournalInv /\ JournalInv' /\ [Next]_vars
        => [view # NoRecord => NoEarlier(view', view)]_view
  <2> SUFFICES ASSUME JournalInv, JournalInv', [Next]_vars,
                      view # NoRecord, view' # view
               PROVE  NoEarlier(view', view)
    OBVIOUS
  <2>1. TypeOK /\ NoEarlier(Selected(slots), view) /\ view \in Records
    BY DEF JournalInv, DurableView, TypeOK
  <2>2. CASE migration_load
    BY <2>1, <2>2, ReadsExact DEF migration_load
  <2>3. CASE verify_record
    <3>1. slots[target] = raw /\ view' = raw
      BY <2>3 DEF verify_record, read_record
    <3>2. /\ target \in Slots /\ raw \in Records
          /\ slots \in [Slots -> Records \cup {Empty, Torn}]
      BY <2>1, <2>3 DEF verify_record, TypeOK
    <3>3. Decodes(slots[1 - target]) =>
            /\ raw.generation = slots[1 - target].generation + 1
            /\ slots[1 - target].generation \in Nat
      BY <2>3, ConstantsAssumption
         DEF verify_record, JournalInv, PendingSucceeds, Decodes, Records
    <3>4. SelectedSlot(slots) = target
      BY <3>1, <3>2, <3>3 DEF SelectedSlot, Slots, Decodes
    <3> QED
      BY <2>1, <3>1, <3>4 DEF Selected
  <2> QED
    BY <2>2, <2>3 DEF Next, vars, RejectArgument, migration_initialize,
       migration_commit, write_record, Crash
<1> QED
  BY <1>1, JournalInvariant, PTL DEF Spec, OneWayPolicy

-----------------------------------------------------------------------------
(* Refinement. *)

\* The register's value in terms of the journal.
Policy(content) ==
    IF Loadable(content)
    THEN [state |-> Selected(content).state,
          epoch |-> Selected(content).epoch,
          key   |-> Selected(content).key]
    ELSE NoRecord

\* The A/B journal with torn and interrupted writes implements the atomic
\* one-way register (migration.c against docs/MIGRATION.md).
THEOREM JournalImplementsRegister ==
    ASSUME ~ReadFaults
    PROVE  Spec => ImplementsRegister
<1>0. NoRecord \notin Register!Policies
  <2>1. Register!Policies \subseteq Requests
    BY DEF Register!Policies, Requests, PolicyStates
  <2> QED
    BY <2>1, ConstantsAssumption
<1>1. Init => Register!Init
  BY ConstantsAssumption
     DEF Init, Register!Init, Loadable, Decodes, Slots
<1>2. JournalInv /\ JournalInv' /\ [Next]_vars
        => [Register!Next]_(Policy(slots))
  <2> SUFFICES ASSUME JournalInv, JournalInv', [Next]_vars,
                      Policy(slots') # Policy(slots)
               PROVE  Register!Next
    BY DEF Policy
  <2>1. slots' # slots
    BY DEF Policy
  <2>2. /\ pc = "write"
        /\ \E content \in WriteOutcomes :
             slots' = [slots EXCEPT ![target] = content]
    BY <2>1 DEF Next, vars, migration_load, RejectArgument,
       migration_initialize, migration_commit, write_record, verify_record,
       Crash
  <2>3. Loadable(slots) =>
          Loadable(slots') /\ NoEarlier(Selected(slots'), Selected(slots))
    BY <2>2, WriteKeepsOrder
  <2>4. Loadable(slots')
    BY <2>3 DEF Policy
  <2>5. Selected(slots') \in Records
    BY <2>4, SelectedDecodes
  <2>6. Policy(slots') \in Register!Policies
    BY <2>4, <2>5 DEF Policy, Register!Policies, Records
  <2>7. CASE ~Loadable(slots)
    BY <2>4, <2>6, <2>7 DEF Register!Next, Register!Provision, Policy
  <2>8. CASE Loadable(slots)
    <3>1. Selected(slots) \in Records
      BY <2>8, SelectedDecodes
    <3>2. Policy(slots) \in Register!Policies
      BY <2>8, <3>1 DEF Policy, Register!Policies, Records
    <3>3. /\ Policy(slots').state >= Policy(slots).state
          /\ Policy(slots').epoch >= Policy(slots).epoch
      BY <2>3, <2>4, <2>5, <2>8, <3>1, ConstantsAssumption
         DEF Policy, NoEarlier, Records, PolicyStates
    <3> QED
      BY <1>0, <2>4, <2>6, <2>8, <3>2, <3>3
         DEF Register!Next, Register!Advance, Policy
  <2> QED
    BY <2>7, <2>8
<1> QED
  BY <1>1, <1>2, JournalInvariant, PTL
     DEF Spec, ImplementsRegister, Register!Spec, Policy
=============================================================================
