------------------------------ MODULE NanoLink ------------------------------
(***************************************************************************)
(* The live session of NanoPQ: the firmware's loop (send_sensor,           *)
(* receive_command, send_status of main.c), the host's run_live_demo       *)
(* (nanopq_peer.c) and, under both, npq_seal and npq_open of protocol.c.   *)
(*                                                                         *)
(* The serial line may lose, delay, repeat, reflect and damage frames:     *)
(* line holds every frame ever sent by either end, either end may be       *)
(* handed any of them, or garbage, or nothing until its read times out.    *)
(* A record opens exactly under the chain position and direction it was    *)
(* sealed with.                                                            *)
(***************************************************************************)
EXTENDS Naturals, FiniteSets

CONSTANTS SeqMax,   \* UINT32_MAX, reduced
          BadKey    \* the key of no record: a damaged frame

ASSUME SeqMaxAssumption == SeqMax \in Nat \ {0}

VARIABLES
    dpc,         \* which call the firmware's loop makes next
    device,      \* npq_live_session: sequence numbers and chain positions
    led,         \* PORTB5
    acted,       \* history: led_set calls made for commands
    hpc,         \* how far run_live_demo is
    host,        \* the host's session
    command,     \* the command frame the host keeps for its replay
    wanted,      \* options->led
    tamper_demo, \* options->tamper_demo
    line

deviceVars == <<dpc, device, led, acted>>
hostVars   == <<hpc, host, command, wanted, tamper_demo>>
vars       == <<dpc, device, led, acted, hpc, host, command, wanted,
                tamper_demo, line>>

Sensor            == [kind |-> "SENSOR", accepted |-> 0, led |-> 0]
Status(accept, l) == [kind |-> "STATUS", accepted |-> accept, led |-> l]
Command(l)        == [kind |-> "COMMAND", accepted |-> 0, led |-> l]

\* An empty command_frame.
NoCommand == [from |-> "host", seq |-> 0, key |-> BadKey, body |-> Command(0)]

-----------------------------------------------------------------------------
(* protocol.c: one session end is its two sequence numbers and two chains. *)

\* npq_derive_session: both chains at their start, both sequences 0.
npq_derive_session == [send |-> 0, recv |-> 0, sendChain |-> 0, recvChain |-> 0]

npq_close == [send |-> 0, recv |-> 0, sendChain |-> 0, recvChain |-> 0]

\* ratchet_material: the message key at a chain position, and the next one.
NextChain(chain) == chain + 1

MessageKey(from, chain) == [from |-> from, chain |-> chain]

\* Faulty variant of MaySeal: no limit on the sequence number.
MaySealUnlimited(s) == s.send >= 0

\* npq_seal refuses the last sequence number.
MaySeal(s) == s.send # SeqMax

\* The frame npq_seal makes of a plaintext, and the session after it.
Sealed(from, s, body) ==
    [from |-> from, seq |-> s.send, key |-> MessageKey(from, s.sendChain),
     body |-> body]

\* Faulty variant of AfterSeal: a seal is not recorded.
AfterSealUncommitted(s) == [s EXCEPT !.send = @]

AfterSeal(s) == [s EXCEPT !.send = @ + 1, !.sendChain = NextChain(@)]

\* Faulty variant of Opens: the tag is not checked.
OpensUnauthenticated(s, from, f) == f.seq = s.recv /\ from \in {"device", "host"}

\* npq_open: the next sequence number and a tag under the other end's chain.
\* Nothing in the frame but the tag says which end it comes from.
Opens(s, from, f) ==
    /\ f.seq = s.recv
    /\ f.key = MessageKey(from, s.recvChain)

\* Faulty variant of AfterOpen: a successful open is not recorded.
AfterOpenUncommitted(s) == [s EXCEPT !.recv = @]

\* The session after a successful npq_open; a failed one changes nothing.
AfterOpen(s) == [s EXCEPT !.recv = (@ + 1) % (SeqMax + 1),
                          !.recvChain = NextChain(@)]

-----------------------------------------------------------------------------
(* The firmware's loop. *)

\* Seal and send, or, at the limit, neither.
DeviceSends(s, body) ==
    IF MaySeal(s)
    THEN device' = AfterSeal(s) /\ line' = line \cup {Sealed("device", s, body)}
    ELSE device' = s /\ UNCHANGED line

send_sensor ==
    /\ dpc = "send_sensor"
    /\ DeviceSends(device, Sensor)
    /\ dpc' = "receive_command"
    /\ UNCHANGED <<led, acted, hostVars>>

\* receive_command with a record that opens: a command sets the LED and the
\* status says so, anything else is refused (this host seals only commands).
RecordOpened ==
    /\ dpc = "receive_command"
    /\ \E f \in line :
         /\ Opens(device, "host", f)
         /\ LET accepted == IF f.body.kind = "COMMAND" THEN 1 ELSE 0 IN
            /\ led' = IF accepted = 1 THEN f.body.led ELSE led
            /\ acted' = acted + accepted
            /\ DeviceSends(AfterOpen(device), Status(accepted, led'))
    /\ dpc' = "send_sensor"
    /\ UNCHANGED hostVars

\* receive_command with anything that npq_open refuses: garbage, a damaged,
\* repeated or reflected frame.
FrameRejected ==
    /\ dpc = "receive_command"
    /\ DeviceSends(device, Status(0, led))
    /\ dpc' = "send_sensor"
    /\ UNCHANGED <<led, acted, hostVars>>

\* uart_read_frame fails: no frame, or not a whole one.  No status is sent.
CommandTimeout ==
    /\ dpc = "receive_command"
    /\ dpc' = "send_sensor"
    /\ UNCHANGED <<device, led, acted, hostVars, line>>

-----------------------------------------------------------------------------
(* The host's run_live_demo. *)

\* What the host waits for at each point, and where it goes from there.
Waits == [first_sensor  |-> "SENSOR", tampered |-> "REJECTED",
          second_sensor |-> "SENSOR", commanded |-> "ACCEPTED",
          third_sensor  |-> "SENSOR", replayed |-> "REJECTED"]

Following ==
    [first_sensor  |-> IF tamper_demo THEN "tampered" ELSE "commanded",
     tampered      |-> "second_sensor",
     second_sensor |-> "commanded",
     commanded     |-> IF tamper_demo THEN "third_sensor" ELSE "pass",
     third_sensor  |-> "replayed",
     replayed      |-> "pass"]

\* Faulty variant of Satisfies: any status will do.
SatisfiesAnyStatus(body, wait) ==
    \/ wait = "SENSOR" /\ body.kind = "SENSOR"
    \/ wait # "SENSOR" /\ body.kind = "STATUS"

\* receive_sensor and require_status: the kind of payload and its flag.
Satisfies(body, wait) ==
    \/ wait = "SENSOR"   /\ body.kind = "SENSOR"
    \/ wait = "REJECTED" /\ body.kind = "STATUS" /\ body.accepted = 0
    \/ wait = "ACCEPTED" /\ body.kind = "STATUS" /\ body.accepted = 1

\* The first sensor record: the command is sealed, and it or a damaged copy
\* is sent.
HostSealsCommand ==
    /\ hpc = "first_sensor"
    /\ \E f \in line :
         /\ Opens(host, "device", f)
         /\ Satisfies(f.body, Waits[hpc])
         /\ LET s == AfterOpen(host) IN
            /\ MaySeal(s)
            /\ host' = AfterSeal(s)
            /\ command' = Sealed("host", s, Command(wanted))
    /\ line' = line \cup {IF tamper_demo THEN [command' EXCEPT !.key = BadKey]
                                         ELSE command'}
    /\ hpc' = Following[hpc]
    /\ UNCHANGED <<deviceVars, wanted, tamper_demo>>

\* A later record that is what the demo waits for.  After the second and the
\* third sensor record the kept command frame is written again; after the
\* last one the process ends and npq_close wipes the session.
HostAdvances ==
    /\ hpc \in DOMAIN Waits \ {"first_sensor"}
    /\ \E f \in line :
         /\ Opens(host, "device", f)
         /\ Satisfies(f.body, Waits[hpc])
    /\ line' = IF Waits[hpc] = "SENSOR" THEN line \cup {command} ELSE line
    /\ hpc' = Following[hpc]
    /\ IF hpc' = "pass" THEN host' = npq_close /\ command' = NoCommand
                         ELSE host' = AfterOpen(host) /\ UNCHANGED command
    /\ UNCHANGED <<deviceVars, wanted, tamper_demo>>

\* Anything else - another record, a frame that does not open, a timeout, a
\* write error - ends the demo; npq_close wipes the session.
HostFails ==
    /\ hpc \in DOMAIN Waits
    /\ hpc' = "fail"
    /\ host' = npq_close
    /\ command' = NoCommand
    /\ UNCHANGED <<deviceVars, wanted, tamper_demo, line>>

-----------------------------------------------------------------------------

Init ==
    /\ dpc = "send_sensor"
    /\ device = npq_derive_session
    /\ led = 0 /\ acted = 0
    /\ hpc = "first_sensor"
    /\ host = npq_derive_session
    /\ command = NoCommand
    /\ wanted \in {0, 1}
    /\ tamper_demo \in BOOLEAN
    /\ line = {}

Next ==
    \/ send_sensor \/ RecordOpened \/ FrameRejected \/ CommandTimeout
    \/ HostSealsCommand \/ HostAdvances \/ HostFails

Spec == Init /\ [][Next]_vars

-----------------------------------------------------------------------------
(* Properties. *)

Ends == [send : 0..SeqMax, recv : 0..SeqMax, sendChain : 0..SeqMax,
         recvChain : 0..(SeqMax + 1)]
MessageKeys == [from : {"device", "host"}, chain : 0..SeqMax]
Keys == MessageKeys \cup {BadKey}
Bodies == [kind : {"SENSOR", "STATUS", "COMMAND"}, accepted : {0, 1},
           led : {0, 1}]
Frames == [from : {"device", "host"}, seq : 0..SeqMax, key : Keys,
           body : Bodies]

ASSUME BadKeyAssumption == BadKey \notin MessageKeys

\* The two sessions, the script's position and the frames keep their types;
\* sequence numbers keep their width.
TypeOK ==
    /\ dpc \in {"send_sensor", "receive_command"}
    /\ device \in Ends /\ host \in Ends
    /\ led \in {0, 1} /\ acted \in Nat
    /\ hpc \in DOMAIN Waits \cup {"pass", "fail"}
    /\ command \in Frames
    /\ wanted \in {0, 1} /\ tamper_demo \in BOOLEAN
    /\ line \subseteq Frames

\* The command moves the LED at most once, however often its frame and its
\* damaged copy are written, repeated or reflected ("change for the valid
\* command, and remain unchanged for the replay", docs/PHYSICAL-NANO.md).
CommandActsOnce ==
    /\ acted <= 1
    /\ led = IF acted = 1 THEN wanted ELSE 0

\* When the demo reports PASS the device has acted on the command, and in
\* the tamper demo it refused one frame before it and one after it, in the
\* order of the records the device sealed.
PassIsTruthful ==
    hpc = "pass" =>
      \E ok \in line :
        /\ ok.body = Status(1, wanted) /\ led = wanted
        /\ tamper_demo =>
             \E before, after \in line :
               /\ before.body.kind = "STATUS" /\ before.body.accepted = 0
               /\ after.body.kind = "STATUS" /\ after.body.accepted = 0
               /\ before.seq < ok.seq /\ ok.seq < after.seq

\* No (direction, message key, sequence number) ever seals two plaintexts.
NonceNeverReused ==
    \A f, g \in line :
        f.key # BadKey /\ f.key = g.key /\ f.seq = g.seq => f = g

\* Neither end has accepted more than the other has sealed, and a frame that
\* was refused has moved no chain: chains and counters move together ("a
\* failed Ascon tag does not advance the receive chain",
\* docs/THREAT-MODEL.md).
NeitherEndAhead ==
    /\ host.recv <= device.send
    /\ hpc \in DOMAIN Waits => device.recv <= host.send
    /\ \A s \in {device, host} : s.sendChain = s.send /\ s.recvChain = s.recv
=============================================================================
