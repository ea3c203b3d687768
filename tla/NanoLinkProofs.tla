--------------------------- MODULE NanoLinkProofs ---------------------------
(***************************************************************************)
(* Proofs about the live session of NanoPQ, from the verified manifest to  *)
(* the end of the host's demo: npq_seal and npq_open of protocol.c under   *)
(* the firmware's loop (main.c) and run_live_demo (nanopq_peer.c), for     *)
(* every width of the sequence numbers, both commands, with and without    *)
(* the tamper demo, on a line that may lose, repeat, reflect and damage    *)
(* frames.  About what the verifiers before it read (lms.c, slhdsa.c).     *)
(* And about the hash and the cipher of that session, sha256.c and         *)
(* ascon_aead128.c: they compute what the standards define.                *)
(***************************************************************************)
EXTENDS NanoDevice, CoreProofs

-----------------------------------------------------------------------------
(* The inductive invariant. *)

\* What the device puts on the line.
DeviceFrame(f) ==
    /\ f.from = "device"
    /\ f.seq < device.send
    /\ f.key = MessageKey("device", f.seq)
    /\ f.body.kind \in {"SENSOR", "STATUS"}
    /\ f.body.accepted = 1 => acted = 1 /\ f.body = Status(1, wanted)

\* What the host puts on the line: its one command, or the damaged copy.
HostFrame(f) ==
    /\ f.from = "host"
    /\ f.seq = 0
    /\ f.key \in {BadKey, MessageKey("host", 0)}
    /\ f.body = Command(wanted)
    /\ hpc # "first_sensor"

LineFrames ==
    /\ \A f \in line : DeviceFrame(f) \/ HostFrame(f)
    /\ \A f, g \in line : f.from = "device" /\ g.from = "device" /\ f.seq = g.seq
                             => f = g

\* Chains and counters move together; the device has opened what it acted on.
SessionEnds ==
    /\ device.sendChain = device.send /\ device.recvChain = device.recv
    /\ host.sendChain = host.send /\ host.recvChain = host.recv
    /\ device.recv = acted
    /\ host.recv <= device.send

\* How far the host is in its script, and what it keeps.
HostEnd ==
    /\ hpc = "first_sensor" => host.send = 0 /\ host.recv = 0 /\ acted = 0
    /\ hpc \in DOMAIN Waits \ {"first_sensor"} =>
         /\ host.send = 1
         /\ command = [from |-> "host", seq |-> 0, key |-> MessageKey("host", 0),
                       body |-> Command(wanted)]
    /\ hpc \in {"tampered", "second_sensor", "third_sensor", "replayed"} => tamper_demo

Refused(f) == f.body.kind = "STATUS" /\ f.body.accepted = 0

\* What the host has seen of its script.
Script ==
    /\ tamper_demo /\ hpc \in {"second_sensor", "commanded"} =>
         \E before \in line : Refused(before) /\ before.seq < host.recv
    /\ hpc \in {"third_sensor", "replayed"} =>
         \E before, ok \in line :
            /\ Refused(before) /\ before.seq < ok.seq
            /\ ok.body = Status(1, wanted) /\ ok.seq < host.recv

LinkInv == /\ TypeOK /\ LineFrames /\ SessionEnds /\ HostEnd /\ Script
           /\ CommandActsOnce /\ PassIsTruthful

\* Nothing of the session exists before the verifier has accepted.
Fresh == vpc # "live" => Init

-----------------------------------------------------------------------------
(* Facts about seal, open and the frames. *)

\* The parts of the type invariant that the proofs use.
LEMMA LinkTypes ==
    ASSUME TypeOK
    PROVE  /\ SeqMax \in Nat /\ SeqMax >= 1
           /\ device \in Ends /\ host \in Ends
           /\ device.send \in 0..SeqMax /\ device.recv \in 0..SeqMax
           /\ host.send \in 0..SeqMax /\ host.recv \in 0..SeqMax
           /\ line \subseteq Frames /\ \A f \in line : f.seq \in 0..SeqMax
           /\ wanted \in {0, 1} /\ acted \in Nat
BY SeqMaxAssumption DEF TypeOK, Ends, Frames

\* A message key says its direction, and is no damaged key.
LEMMA LinkKeys ==
    ASSUME NEW c \in 0..SeqMax, NEW from \in {"device", "host"}
    PROVE  /\ MessageKey(from, c) \in MessageKeys /\ MessageKey(from, c) # BadKey
           /\ MessageKey(from, c).from = from /\ MessageKey(from, c).chain = c
BY BadKeyAssumption DEF MessageKey, MessageKeys

\* The payloads are payloads.
LEMMA LinkBodies ==
    ASSUME NEW a \in {0, 1}, NEW l \in {0, 1}
    PROVE  /\ Sensor \in Bodies /\ Sensor.kind = "SENSOR" /\ Sensor.accepted = 0
           /\ Status(a, l) \in Bodies /\ Status(a, l).kind = "STATUS"
           /\ Status(a, l).accepted = a /\ Status(a, l).led = l
           /\ Command(l) \in Bodies /\ Command(l).kind = "COMMAND"
           /\ Command(l).accepted = 0 /\ Command(l).led = l
BY DEF Sensor, Status, Command, Bodies

\* What npq_seal does to a session end below the limit.
LEMMA AfterSealFacts ==
    ASSUME NEW s \in Ends, MaySeal(s), s.sendChain = s.send
    PROVE  /\ AfterSeal(s) \in Ends /\ AfterSeal(s).send = s.send + 1
           /\ AfterSeal(s).sendChain = s.send + 1
           /\ AfterSeal(s).recv = s.recv /\ AfterSeal(s).recvChain = s.recvChain
<1>1. s.send + 1 \in 0..SeqMax
  BY SeqMaxAssumption DEF MaySeal, Ends
<1> QED
  BY <1>1 DEF AfterSeal, NextChain, Ends

\* Below the last value ++ adds one.
LEMMA NoWrap ==
    ASSUME NEW n \in Nat, NEW m \in Nat, n < m PROVE (n + 1) % (m + 1) = n + 1
OBVIOUS

\* What npq_open does to a session end that has not reached the limit.
LEMMA AfterOpenFacts ==
    ASSUME NEW s \in Ends, s.recv < SeqMax, s.recvChain = s.recv
    PROVE  /\ AfterOpen(s) \in Ends /\ AfterOpen(s).recv = s.recv + 1
           /\ AfterOpen(s).recvChain = s.recv + 1
           /\ AfterOpen(s).send = s.send /\ AfterOpen(s).sendChain = s.sendChain
<1>1. s.recv \in Nat /\ SeqMax \in Nat
  BY SeqMaxAssumption DEF Ends
<1>2. (s.recv + 1) % (SeqMax + 1) = s.recv + 1
  BY <1>1, NoWrap
<1>3. AfterOpen(s) = [s EXCEPT !.recv = s.recv + 1, !.recvChain = s.recv + 1]
  BY <1>2 DEF AfterOpen, NextChain
<1>4. s.recv + 1 \in 0..SeqMax /\ s.recv + 1 \in 0..(SeqMax + 1)
  BY <1>1
<1> QED
  BY <1>3, <1>4 DEF Ends

\* A sealed frame is a frame, and its fields are what was sealed.
LEMMA SealedFacts ==
    ASSUME NEW from \in {"device", "host"}, NEW s \in Ends, s.sendChain = s.send,
           NEW body \in Bodies
    PROVE  /\ Sealed(from, s, body) \in Frames
           /\ Sealed(from, s, body).from = from
           /\ Sealed(from, s, body).seq = s.send
           /\ Sealed(from, s, body).key = MessageKey(from, s.send)
           /\ Sealed(from, s, body).body = body
<1>1. MessageKey(from, s.send) \in Keys /\ s.send \in 0..SeqMax
  BY LinkKeys DEF Keys, Ends
<1> QED
  BY <1>1 DEF Sealed, Frames

\* The device opens the command, and only when it has opened nothing before:
\* a reflected, a damaged and a repeated frame do not open.
LEMMA OnlyTheCommandOpens ==
    ASSUME LinkInv, NEW f \in line, Opens(device, "host", f)
    PROVE  acted = 0 /\ f.body = Command(wanted) /\ hpc # "first_sensor"
<1>1. TypeOK /\ SessionEnds /\ (DeviceFrame(f) \/ HostFrame(f))
  BY DEF LinkInv, LineFrames
<1>2. f.seq = device.recv /\ f.key = MessageKey("host", device.recv)
  BY <1>1 DEF Opens, SessionEnds
<1>3. f.key.from = "host" /\ f.seq \in 0..SeqMax
  BY <1>1, <1>2, LinkKeys, LinkTypes
<1>4. ~DeviceFrame(f)
  BY <1>3, LinkKeys DEF DeviceFrame
<1> QED
  BY <1>1, <1>2, <1>4 DEF HostFrame, SessionEnds

\* The host opens only what the device sealed, in order.
LEMMA OnlyDeviceRecordsOpen ==
    ASSUME LinkInv, NEW f \in line, Opens(host, "device", f)
    PROVE  /\ DeviceFrame(f) /\ f.seq = host.recv /\ host.recv < device.send
           /\ host.recv < SeqMax /\ host.recv \in Nat
<1>1. TypeOK /\ SessionEnds /\ (DeviceFrame(f) \/ HostFrame(f))
  BY DEF LinkInv, LineFrames
<1>2. f.seq = host.recv /\ f.key = MessageKey("device", host.recv)
  BY <1>1 DEF Opens, SessionEnds
<1>3. f.key.from = "device" /\ f.key # BadKey
  BY <1>1, <1>2, LinkKeys, LinkTypes
<1>4. ~HostFrame(f)
  <2>1. 0 \in 0..SeqMax
    BY SeqMaxAssumption
  <2>2. MessageKey("host", 0).from = "host"
    BY <2>1, LinkKeys
  <2> QED
    BY <1>3, <2>2 DEF HostFrame
<1>5. f.seq < device.send
  BY <1>1, <1>4 DEF DeviceFrame
<1> QED
  BY <1>1, <1>2, <1>4, <1>5, LinkTypes

-----------------------------------------------------------------------------
(* The device's steps. *)

\* Sending a sensor record or a truthful status keeps the invariant, whether
\* or not the limit suppresses the record.
LEMMA DeviceSendsKeeps ==
    ASSUME LinkInv, UNCHANGED hostVars, dpc' \in {"send_sensor", "receive_command"},
           NEW s \in Ends, s.send = device.send, s.sendChain = device.sendChain,
           s.recvChain = s.recv, s.recv = acted',
           acted' \in 0..1, acted = 1 => acted' = 1,
           hpc = "first_sensor" => acted' = 0,
           led' = IF acted' = 1 THEN wanted ELSE 0,
           NEW body \in Bodies, body.kind \in {"SENSOR", "STATUS"},
           body.accepted = 1 => acted' = 1 /\ body = Status(1, wanted),
           DeviceSends(s, body)
    PROVE  LinkInv'
<1> DEFINE f == Sealed("device", s, body)
<1>1. TypeOK /\ LineFrames /\ SessionEnds /\ HostEnd /\ Script /\ CommandActsOnce
      /\ PassIsTruthful
  BY DEF LinkInv
<1>2. UNCHANGED <<hpc, host, command, wanted, tamper_demo>>
  BY DEF hostVars
<1>3. s.sendChain = s.send /\ device.send \in Nat
  BY <1>1, LinkTypes DEF SessionEnds
<1>4. /\ f \in Frames /\ f.from = "device" /\ f.seq = device.send /\ f.body = body
      /\ f.key = MessageKey("device", f.seq)
  BY <1>3, SealedFacts
<1>5. /\ device' \in Ends /\ device'.sendChain = device'.send
      /\ device'.recv = acted' /\ device'.recvChain = device'.recv
      /\ \/ line' = line \cup {f} /\ device'.send = device.send + 1
         \/ line' = line /\ device'.send = device.send
  <2>1. CASE MaySeal(s)
    BY <1>3, <2>1, AfterSealFacts DEF DeviceSends
  <2>2. CASE ~MaySeal(s)
    BY <1>3, <2>2 DEF DeviceSends
  <2> QED
    BY <2>1, <2>2
<1> HIDE DEF f
<1>6. TypeOK'
  BY <1>1, <1>2, <1>4, <1>5 DEF TypeOK
<1>7. SessionEnds' /\ HostEnd'
  BY <1>1, <1>2, <1>3, <1>5, LinkTypes DEF SessionEnds, HostEnd
<1>8. LineFrames'
  <2>1. \A g \in line : DeviceFrame(g) \/ HostFrame(g)
    BY <1>1 DEF LineFrames
  <2>2. \A g \in line : g.seq \in Nat
    BY <1>1, LinkTypes
  <2>3. ASSUME NEW g \in line PROVE (DeviceFrame(g) \/ HostFrame(g))'
    BY <1>2, <1>3, <1>5, <2>1, <2>2 DEF DeviceFrame, HostFrame
  <2>4. line' = line \cup {f} /\ device'.send = device.send + 1 => DeviceFrame(f)'
    BY <1>2, <1>3, <1>4 DEF DeviceFrame
  <2>5. \A g \in line : g.from = "device" => g.seq # f.seq
    BY <1>3, <1>4, <2>1, <2>2 DEF DeviceFrame, HostFrame
  <2>6. (\A g \in line : DeviceFrame(g) \/ HostFrame(g))'
    BY <1>5, <2>3, <2>4
  <2>7. (\A g, h \in line : g.from = "device" /\ h.from = "device" /\ g.seq = h.seq
                               => g = h)'
    BY <1>1, <1>5, <2>5 DEF LineFrames
  <2> QED
    BY <2>6, <2>7 DEF LineFrames
<1>9. line \subseteq line' /\ CommandActsOnce'
  BY <1>2, <1>5 DEF CommandActsOnce
<1>10. Script'
  BY <1>1, <1>2, <1>9 DEF Script
<1>11. PassIsTruthful'
  <2> SUFFICES ASSUME hpc = "pass" PROVE PassIsTruthful'
    BY <1>2 DEF PassIsTruthful
  <2>1. PICK ok \in line :
          /\ ok.body = Status(1, wanted)
          /\ tamper_demo =>
               \E before, after \in line :
                 /\ before.body.kind = "STATUS" /\ before.body.accepted = 0
                 /\ after.body.kind = "STATUS" /\ after.body.accepted = 0
                 /\ before.seq < ok.seq /\ ok.seq < after.seq
    BY <1>1 DEF PassIsTruthful
  <2>2. acted = 1
    <3>1. ok.body.accepted = 1
      BY <1>1, <2>1, LinkBodies, LinkTypes
    <3>2. ~HostFrame(ok)
      BY <1>1, <3>1, LinkBodies, LinkTypes DEF HostFrame
    <3> QED
      BY <1>1, <3>1, <3>2 DEF LineFrames, DeviceFrame
  <2> QED
    BY <1>2, <1>9, <2>1, <2>2 DEF PassIsTruthful
<1> QED
  BY <1>6, <1>7, <1>8, <1>9, <1>10, <1>11 DEF LinkInv

\* Every step of the firmware's loop keeps the invariant.
LEMMA DeviceKeeps ==
    ASSUME LinkInv, send_sensor \/ RecordOpened \/ FrameRejected \/ CommandTimeout
    PROVE  LinkInv'
<1>1. TypeOK /\ SessionEnds /\ CommandActsOnce /\ HostEnd
  BY DEF LinkInv
<1>2. /\ acted \in 0..1 /\ led = (IF acted = 1 THEN wanted ELSE 0) /\ led \in {0, 1}
      /\ device \in Ends /\ device.recv = acted /\ device.recvChain = device.recv
      /\ wanted \in {0, 1} /\ (hpc = "first_sensor" => acted = 0)
  BY <1>1, LinkTypes DEF CommandActsOnce, SessionEnds, HostEnd
<1>3. CASE send_sensor
  BY <1>2, <1>3, LinkBodies, DeviceSendsKeeps DEF send_sensor
<1>4. CASE FrameRejected
  BY <1>2, <1>4, LinkBodies, DeviceSendsKeeps DEF FrameRejected
<1>5. CASE RecordOpened
  <2>1. PICK f \in line :
          /\ Opens(device, "host", f)
          /\ LET accepted == IF f.body.kind = "COMMAND" THEN 1 ELSE 0 IN
             /\ led' = IF accepted = 1 THEN f.body.led ELSE led
             /\ acted' = acted + accepted
             /\ DeviceSends(AfterOpen(device), Status(accepted, led'))
    BY <1>5 DEF RecordOpened
  <2>2. acted = 0 /\ f.body = Command(wanted) /\ hpc # "first_sensor"
    BY <2>1, OnlyTheCommandOpens
  <2>3. f.body.kind = "COMMAND" /\ f.body.led = wanted
    BY <1>2, <2>2, LinkBodies
  <2>4. led' = wanted /\ acted' = 1 /\ DeviceSends(AfterOpen(device), Status(1, wanted))
    BY <2>1, <2>2, <2>3
  <2>5. /\ AfterOpen(device) \in Ends /\ AfterOpen(device).recv = 1
        /\ AfterOpen(device).recvChain = 1 /\ AfterOpen(device).send = device.send
        /\ AfterOpen(device).sendChain = device.sendChain
    BY <1>2, <2>2, AfterOpenFacts, SeqMaxAssumption
  <2>6. Status(1, wanted) \in Bodies /\ Status(1, wanted).kind = "STATUS"
    BY <1>2, LinkBodies
  <2>7. UNCHANGED hostVars /\ dpc' = "send_sensor"
    BY <1>5 DEF RecordOpened
  <2> QED
    BY <2>2, <2>4, <2>5, <2>6, <2>7, DeviceSendsKeeps
<1>6. CASE CommandTimeout
  <2>1. /\ UNCHANGED <<device, led, acted, hpc, host, command, wanted, tamper_demo, line>>
        /\ dpc' = "send_sensor"
    BY <1>6 DEF CommandTimeout, hostVars
  <2> QED
    BY <2>1 DEF LinkInv, TypeOK, LineFrames, DeviceFrame, HostFrame, SessionEnds,
                HostEnd, Script, CommandActsOnce, PassIsTruthful
<1> QED
  BY <1>3, <1>4, <1>5, <1>6

-----------------------------------------------------------------------------
(* The host's steps. *)

\* Where the script goes from each point.
LEMMA ScriptFacts ==
    /\ DOMAIN Waits = {"first_sensor", "tampered", "second_sensor", "commanded",
                       "third_sensor", "replayed"}
    /\ Waits["first_sensor"] = "SENSOR" /\ Waits["tampered"] = "REJECTED"
    /\ Waits["second_sensor"] = "SENSOR" /\ Waits["commanded"] = "ACCEPTED"
    /\ Waits["third_sensor"] = "SENSOR" /\ Waits["replayed"] = "REJECTED"
    /\ Following["first_sensor"] = IF tamper_demo THEN "tampered" ELSE "commanded"
    /\ Following["tampered"] = "second_sensor"
    /\ Following["second_sensor"] = "commanded"
    /\ Following["commanded"] = IF tamper_demo THEN "third_sensor" ELSE "pass"
    /\ Following["third_sensor"] = "replayed" /\ Following["replayed"] = "pass"
BY DEF Waits, Following

\* Writing the command or its damaged copy keeps what the line says.
LEMMA HostLineKeeps ==
    ASSUME LinkInv, UNCHANGED <<device, acted, wanted>>, hpc' # "first_sensor",
           NEW X \in SUBSET Frames, line' = line \cup X,
           \A x \in X : /\ x.from = "host" /\ x.seq = 0 /\ x.body = Command(wanted)
                        /\ x.key \in {BadKey, MessageKey("host", 0)}
    PROVE  LineFrames' /\ line' \subseteq Frames /\ line \subseteq line'
<1>1. TypeOK /\ LineFrames
  BY DEF LinkInv
<1>2. ASSUME NEW g \in line PROVE (DeviceFrame(g) \/ HostFrame(g))'
  BY <1>1 DEF LineFrames, DeviceFrame, HostFrame
<1>3. ASSUME NEW x \in X PROVE HostFrame(x)' /\ x.from # "device"
  BY DEF HostFrame
<1> QED
  BY <1>1, <1>2, <1>3, LinkTypes DEF LineFrames

\* The command as it is sealed, and the empty one.
LEMMA CommandFacts ==
    ASSUME NEW l \in {0, 1}
    PROVE  /\ NoCommand \in Frames
           /\ [from |-> "host", seq |-> 0, key |-> MessageKey("host", 0),
               body |-> Command(l)] \in Frames
<1>1. 0 \in 0..SeqMax /\ MessageKey("host", 0) \in Keys /\ BadKey \in Keys
  BY SeqMaxAssumption, LinkKeys DEF Keys
<1>2. Command(l) \in Bodies /\ Command(0) \in Bodies
  BY LinkBodies
<1> QED
  BY <1>1, <1>2 DEF NoCommand, Frames

\* A closed session.
LEMMA ClosedFacts ==
    /\ npq_close \in Ends /\ npq_close.send = 0 /\ npq_close.recv = 0
    /\ npq_close.sendChain = 0 /\ npq_close.recvChain = 0
BY SeqMaxAssumption DEF npq_close, Ends

\* The host seals its command after the first sensor record.
LEMMA SealCommandKeeps == ASSUME LinkInv, HostSealsCommand PROVE LinkInv'
<1> DEFINE s == AfterOpen(host)
           c == [from |-> "host", seq |-> 0, key |-> MessageKey("host", 0),
                 body |-> Command(wanted)]
           x == IF tamper_demo THEN [c EXCEPT !.key = BadKey] ELSE c
<1>1. TypeOK /\ LineFrames /\ SessionEnds /\ HostEnd /\ Script /\ CommandActsOnce
      /\ PassIsTruthful
  BY DEF LinkInv
<1>2. PICK f \in line :
        /\ Opens(host, "device", f)
        /\ MaySeal(s) /\ host' = AfterSeal(s)
        /\ command' = Sealed("host", s, Command(wanted))
  BY DEF HostSealsCommand
<1>3. /\ hpc = "first_sensor" /\ hpc' = Following[hpc]
      /\ UNCHANGED <<dpc, device, led, acted, wanted, tamper_demo>>
      /\ line' = line \cup {IF tamper_demo THEN [command' EXCEPT !.key = BadKey]
                                           ELSE command'}
  BY DEF HostSealsCommand, deviceVars
<1>4. host.recv = 0 /\ host.send = 0 /\ 0 < device.send /\ 0 < SeqMax
  BY <1>1, <1>2, <1>3, OnlyDeviceRecordsOpen DEF HostEnd
<1>5. /\ s \in Ends /\ s.recv = 1 /\ s.recvChain = 1 /\ s.send = 0 /\ s.sendChain = 0
  BY <1>1, <1>4, LinkTypes, AfterOpenFacts DEF SessionEnds
<1> HIDE DEF s
<1>6. /\ host' \in Ends /\ host'.recv = 1 /\ host'.recvChain = 1
      /\ host'.send = 1 /\ host'.sendChain = 1
  BY <1>2, <1>5, AfterSealFacts
<1>7. wanted \in {0, 1}
  BY <1>1, LinkTypes
<1>8. command' = c /\ line' = line \cup {x} /\ c \in Frames
  <2>1. command' = c
    BY <1>2, <1>5 DEF Sealed
  <2> QED
    BY <1>3, <1>7, <2>1, CommandFacts
<1>9. /\ x \in Frames /\ x.from = "host" /\ x.seq = 0 /\ x.body = Command(wanted)
      /\ x.key \in {BadKey, MessageKey("host", 0)}
  <2>1. BadKey \in Keys
    BY DEF Keys
  <2>2. x = c \/ x = [c EXCEPT !.key = BadKey]
    OBVIOUS
  <2> QED
    BY <1>8, <2>1, <2>2 DEF Frames
<1> HIDE DEF x
<1>10. hpc' = (IF tamper_demo THEN "tampered" ELSE "commanded") /\ hpc' \in DOMAIN Waits
  BY <1>3, ScriptFacts
<1>11. LineFrames' /\ line' \subseteq Frames
  <2> DEFINE X == {x}
  <2>1. /\ X \in SUBSET Frames /\ line' = line \cup X
        /\ \A y \in X : /\ y.from = "host" /\ y.seq = 0 /\ y.body = Command(wanted)
                         /\ y.key \in {BadKey, MessageKey("host", 0)}
    BY <1>8, <1>9
  <2>2. hpc' # "first_sensor"
    BY <1>10
  <2> HIDE DEF X
  <2> QED
    BY <1>3, <2>1, <2>2, HostLineKeeps
<1>12. TypeOK'
  BY <1>1, <1>3, <1>6, <1>8, <1>10, <1>11 DEF TypeOK
<1>13. SessionEnds'
  BY <1>1, <1>3, <1>4, <1>6, LinkTypes DEF SessionEnds
<1>14. HostEnd'
  BY <1>3, <1>6, <1>8, <1>10 DEF HostEnd
<1>15. Script' /\ CommandActsOnce' /\ PassIsTruthful'
  BY <1>1, <1>3, <1>10 DEF Script, CommandActsOnce, PassIsTruthful
<1> QED
  BY <1>11, <1>12, <1>13, <1>14, <1>15 DEF LinkInv

\* The demo fails: the session is wiped and nothing is said any more.
LEMMA FailKeeps == ASSUME LinkInv, HostFails PROVE LinkInv'
<1>1. TypeOK /\ LineFrames /\ SessionEnds /\ HostEnd /\ Script /\ CommandActsOnce
      /\ PassIsTruthful
  BY DEF LinkInv
<1>2. /\ hpc' = "fail" /\ host' = npq_close /\ command' = NoCommand
      /\ UNCHANGED <<dpc, device, led, acted, wanted, tamper_demo, line>>
  BY DEF HostFails, deviceVars
<1>3. TypeOK'
  BY <1>1, <1>2, ClosedFacts, CommandFacts DEF TypeOK
<1>4. SessionEnds'
  BY <1>1, <1>2, ClosedFacts, LinkTypes DEF SessionEnds
<1>5. LineFrames'
  BY <1>1, <1>2 DEF LineFrames, DeviceFrame, HostFrame
<1>6. HostEnd' /\ Script' /\ CommandActsOnce' /\ PassIsTruthful'
  BY <1>1, <1>2, ScriptFacts DEF HostEnd, Script, CommandActsOnce, PassIsTruthful
<1> QED
  BY <1>3, <1>4, <1>5, <1>6 DEF LinkInv

\* A record that the demo waits for keeps the invariant: what the host has
\* seen so far is in the order in which the device sealed it.
LEMMA AdvanceKeeps == ASSUME LinkInv, HostAdvances PROVE LinkInv'
<1>1. TypeOK /\ LineFrames /\ SessionEnds /\ HostEnd /\ Script /\ CommandActsOnce
      /\ PassIsTruthful
  BY DEF LinkInv
<1>2. PICK f \in line : Opens(host, "device", f) /\ Satisfies(f.body, Waits[hpc])
  BY DEF HostAdvances
<1>3. /\ hpc \in DOMAIN Waits \ {"first_sensor"}
      /\ line' = IF Waits[hpc] = "SENSOR" THEN line \cup {command} ELSE line
      /\ hpc' = Following[hpc]
      /\ IF hpc' = "pass" THEN host' = npq_close /\ command' = NoCommand
                           ELSE host' = AfterOpen(host) /\ UNCHANGED command
      /\ UNCHANGED <<dpc, device, led, acted, wanted, tamper_demo>>
  BY DEF HostAdvances, deviceVars
<1>4. /\ DeviceFrame(f) /\ f.seq = host.recv /\ host.recv < device.send
      /\ host.recv < SeqMax /\ host.recv \in Nat /\ device.send \in Nat
  BY <1>1, <1>2, OnlyDeviceRecordsOpen, LinkTypes
<1>5. /\ AfterOpen(host) \in Ends /\ AfterOpen(host).recv = host.recv + 1
      /\ AfterOpen(host).recvChain = host.recv + 1
      /\ AfterOpen(host).send = host.send /\ AfterOpen(host).sendChain = host.sendChain
  BY <1>1, <1>4, AfterOpenFacts, LinkTypes DEF SessionEnds
<1>6. hpc' \in (DOMAIN Waits \cup {"pass"}) \ {"first_sensor"}
  BY <1>3, ScriptFacts
<1>7. wanted \in {0, 1}
  BY <1>1, LinkTypes
<1>8. LineFrames' /\ line' \subseteq Frames /\ line \subseteq line'
  <2> DEFINE X == IF Waits[hpc] = "SENSOR" THEN {command} ELSE {}
  <2>1. /\ command.from = "host" /\ command.seq = 0 /\ command.body = Command(wanted)
        /\ command.key = MessageKey("host", 0) /\ command \in Frames
    BY <1>1, <1>3 DEF HostEnd, TypeOK
  <2>2. /\ X \in SUBSET Frames /\ line' = line \cup X
        /\ \A y \in X : /\ y.from = "host" /\ y.seq = 0 /\ y.body = Command(wanted)
                         /\ y.key \in {BadKey, MessageKey("host", 0)}
    BY <1>3, <2>1
  <2>3. hpc' # "first_sensor"
    BY <1>6
  <2> HIDE DEF X
  <2> QED
    BY <1>3, <2>2, <2>3, HostLineKeeps
<1>9. TypeOK'
  BY <1>1, <1>3, <1>5, <1>6, <1>7, <1>8, ClosedFacts, CommandFacts DEF TypeOK
<1>10. SessionEnds'
  BY <1>1, <1>3, <1>4, <1>5, ClosedFacts DEF SessionEnds
<1>11. HostEnd'
  BY <1>1, <1>3, <1>5, <1>6, ScriptFacts DEF HostEnd
<1>12. CommandActsOnce'
  BY <1>1, <1>3 DEF CommandActsOnce
<1>13. hpc' # "pass" => host'.recv = host.recv + 1
  BY <1>3, <1>5
<1>14. hpc = "commanded" => f.body = Status(1, wanted) /\ acted = 1
  BY <1>2, <1>4, ScriptFacts DEF Satisfies, DeviceFrame
<1>15. hpc \in {"tampered", "replayed"} => Refused(f)
  BY <1>2, ScriptFacts DEF Satisfies, Refused
<1>16. \A g \in line : g.seq \in Nat
  BY <1>1, LinkTypes
<1>17. Script'
  <2>1. CASE hpc = "tampered"
    <3>1. hpc' = "second_sensor" /\ f \in line' /\ f.seq < host'.recv
      BY <1>3, <1>4, <1>8, <1>13, <2>1, ScriptFacts
    <3> QED
      BY <1>15, <2>1, <3>1 DEF Script
  <2>2. CASE hpc = "second_sensor"
    <3>1. hpc' = "commanded" /\ tamper_demo /\ host'.recv = host.recv + 1
      BY <1>1, <1>3, <1>13, <2>2, ScriptFacts DEF HostEnd
    <3>2. PICK before \in line : Refused(before) /\ before.seq < host.recv
      BY <1>1, <2>2, <3>1 DEF Script
    <3>3. before \in line' /\ before.seq < host'.recv
      BY <1>4, <1>8, <1>16, <3>1, <3>2
    <3> QED
      BY <3>1, <3>2, <3>3 DEF Script
  <2>3. CASE hpc = "commanded" /\ tamper_demo
    <3>1. hpc' = "third_sensor" /\ host'.recv = host.recv + 1 /\ wanted' = wanted
      BY <1>3, <1>13, <2>3, ScriptFacts
    <3>2. PICK before \in line : Refused(before) /\ before.seq < host.recv
      BY <1>1, <2>3 DEF Script
    <3>3. /\ before \in line' /\ f \in line' /\ before.seq < f.seq
          /\ f.seq < host'.recv /\ f.body = Status(1, wanted)
      BY <1>4, <1>8, <1>14, <2>3, <3>1, <3>2
    <3> QED
      BY <3>1, <3>2, <3>3 DEF Script
  <2>4. CASE hpc = "third_sensor"
    <3>1. hpc' = "replayed" /\ host'.recv = host.recv + 1 /\ wanted' = wanted
      BY <1>3, <1>13, <2>4, ScriptFacts
    <3>2. PICK before, ok \in line :
            /\ Refused(before) /\ before.seq < ok.seq
            /\ ok.body = Status(1, wanted) /\ ok.seq < host.recv
      BY <1>1, <2>4 DEF Script
    <3>3. before \in line' /\ ok \in line' /\ ok.seq < host'.recv
      BY <1>4, <1>8, <1>16, <3>1, <3>2
    <3> QED
      BY <3>1, <3>2, <3>3 DEF Script
  <2>5. CASE hpc = "replayed" \/ (hpc = "commanded" /\ ~tamper_demo)
    BY <1>3, <2>5, ScriptFacts DEF Script
  <2>6. \/ hpc = "tampered" \/ hpc = "second_sensor" \/ hpc = "commanded"
        \/ hpc = "third_sensor" \/ hpc = "replayed"
    BY <1>3, ScriptFacts
  <2> QED
    BY <2>1, <2>2, <2>3, <2>4, <2>5, <2>6, Zenon
<1>18. PassIsTruthful'
  <2> SUFFICES ASSUME hpc' = "pass" PROVE PassIsTruthful'
    BY DEF PassIsTruthful
  <2>1. \/ hpc = "commanded" /\ ~tamper_demo
        \/ hpc = "replayed" /\ tamper_demo
    BY <1>1, <1>3, ScriptFacts DEF HostEnd
  <2>2. CASE hpc = "commanded" /\ ~tamper_demo
    BY <1>1, <1>3, <1>8, <1>14, <2>2 DEF PassIsTruthful, CommandActsOnce
  <2>3. CASE hpc = "replayed" /\ tamper_demo
    <3>1. PICK before, ok \in line :
            /\ Refused(before) /\ before.seq < ok.seq
            /\ ok.body = Status(1, wanted) /\ ok.seq < host.recv
      BY <1>1, <2>3 DEF Script
    <3>2. acted = 1
      <4>1. ok.body.accepted = 1
        BY <1>7, <3>1, LinkBodies
      <4>2. ~HostFrame(ok)
        BY <1>7, <4>1, LinkBodies DEF HostFrame
      <4> QED
        BY <1>1, <4>1, <4>2 DEF LineFrames, DeviceFrame
    <3>3. led = wanted /\ Refused(f) /\ ok.seq < f.seq
      BY <1>1, <1>4, <1>15, <2>3, <3>1, <3>2 DEF CommandActsOnce
    <3> QED
      BY <1>3, <1>8, <3>1, <3>3 DEF PassIsTruthful, Refused
  <2> QED
    BY <2>1, <2>2, <2>3
<1> QED
  BY <1>8, <1>9, <1>10, <1>11, <1>12, <1>17, <1>18 DEF LinkInv

-----------------------------------------------------------------------------
(* The device, from the verifier to the end of the demo. *)

\* A fresh session satisfies the invariant.
LEMMA LinkInit == Init => LinkInv
<1> SUFFICES ASSUME Init PROVE LinkInv
  OBVIOUS
<1>1. /\ dpc = "send_sensor" /\ device = npq_close /\ led = 0 /\ acted = 0
      /\ hpc = "first_sensor" /\ host = npq_close /\ command = NoCommand
      /\ wanted \in {0, 1} /\ line = {}
  BY DEF Init, npq_derive_session, npq_close
<1>2. tamper_demo \in BOOLEAN
  BY DEF Init
<1>3. TypeOK
  BY <1>1, <1>2, ClosedFacts, CommandFacts, ScriptFacts DEF TypeOK
<1>4. LineFrames /\ SessionEnds /\ CommandActsOnce
  BY <1>1, ClosedFacts DEF LineFrames, SessionEnds, CommandActsOnce
<1>5. HostEnd /\ Script /\ PassIsTruthful
  BY <1>1, ClosedFacts DEF HostEnd, Script, PassIsTruthful
<1> QED
  BY <1>3, <1>4, <1>5 DEF LinkInv

\* No step of the live session breaks the invariant.
LEMMA LinkStep == ASSUME LinkInv, [Next]_vars PROVE LinkInv'
<1>1. ASSUME UNCHANGED vars PROVE LinkInv'
  BY <1>1 DEF vars, LinkInv, TypeOK, LineFrames, DeviceFrame, HostFrame, SessionEnds,
              HostEnd, Script, CommandActsOnce, PassIsTruthful
<1> QED
  BY <1>1, DeviceKeeps, SealCommandKeeps, AdvanceKeeps, FailKeeps DEF Next

\* The verifier runs before the session exists, and does not touch it.
LEMMA VerificationIsBefore ==
    ASSUME Verification PROVE vpc # "live" /\ UNCHANGED vars
<1>1. Verify => vpc # "live"
  BY DEF Verify
<1>2. ReadRandomizer => vpc # "live"
  BY DEF ReadRandomizer
<1>3. ReadForsSecret => vpc # "live"
  BY DEF ReadForsSecret
<1>4. ReadForsSibling => vpc # "live"
  BY DEF ReadForsSibling
<1>5. ReadWots => vpc # "live"
  BY DEF ReadWots
<1>6. ReadXmssSibling => vpc # "live"
  BY DEF ReadXmssSibling
<1>7. ReadQ => vpc # "live"
  BY DEF ReadQ
<1>8. ReadOtsType => vpc # "live"
  BY DEF ReadOtsType
<1>9. ReadLmsRandomizer => vpc # "live"
  BY DEF ReadLmsRandomizer
<1>10. ReadLmsChain => vpc # "live"
  BY DEF ReadLmsChain
<1>11. ReadLmsType => vpc # "live"
  BY DEF ReadLmsType
<1>12. ReadLmsSibling => vpc # "live"
  BY DEF ReadLmsSibling
<1>13. ReaderFails => vpc # "live"
  BY DEF ReaderFails
<1>14. VerifierReturns => vpc # "live"
  BY DEF VerifierReturns
<1> QED
  BY <1>1, <1>2, <1>3, <1>4, <1>5, <1>6, <1>7, <1>8, <1>9, <1>10, <1>11, <1>12, <1>13, <1>14 DEF Verification

\* The whole device keeps both: the session starts fresh when the verifier has
\* accepted, and only then moves.
LEMMA DeviceInvariant == DeviceSpec => [](LinkInv /\ Fresh)
<1>1. DeviceInit => LinkInv /\ Fresh
  BY LinkInit DEF DeviceInit, Fresh
<1>2. LinkInv /\ Fresh /\ [DeviceNext]_<<vars, verifyVars>> => (LinkInv /\ Fresh)'
  <2> SUFFICES ASSUME LinkInv, Fresh, [DeviceNext]_<<vars, verifyVars>>
               PROVE  LinkInv' /\ Fresh'
    OBVIOUS
  <2>1. ASSUME UNCHANGED vars PROVE Init => Init'
    BY <2>1 DEF vars, Init
  <2>2. CASE Verification
    <3>1. vpc # "live" /\ UNCHANGED vars
      BY <2>2, VerificationIsBefore
    <3> QED
      BY <2>1, <3>1, LinkStep DEF Fresh
  <2>3. CASE GoLive
    <3>1. Init
      BY <2>3 DEF GoLive, Fresh
    <3>2. /\ UNCHANGED <<dpc, device, led, acted, hpc, host, command, line>>
          /\ wanted' \in {0, 1} /\ tamper_demo' \in BOOLEAN
      BY <2>3 DEF GoLive, deviceVars
    <3>3. Init'
      BY <3>1, <3>2 DEF Init
    <3>4. Init' => LinkInv'
      BY LinkInit, PTL
    <3> QED
      BY <3>3, <3>4 DEF Fresh
  <2>4. CASE vpc = "live" /\ Next /\ UNCHANGED verifyVars
    BY <2>4, LinkStep DEF verifyVars, Fresh
  <2>5. CASE UNCHANGED <<vars, verifyVars>>
    BY <2>1, <2>5, LinkStep DEF verifyVars, Fresh
  <2> QED
    BY <2>2, <2>3, <2>4, <2>5 DEF DeviceNext
<1> QED
  BY <1>1, <1>2, PTL DEF DeviceSpec

\* Sequence numbers keep their width, chains and frames their types
\* (protocol.c, npq_seal and npq_open).
THEOREM LinkTypeCorrect == DeviceSpec => []TypeOK
<1>1. LinkInv => TypeOK
  BY DEF LinkInv
<1> QED
  BY <1>1, DeviceInvariant, PTL

\* The LED moves once for the command, whatever is repeated, damaged or
\* reflected (main.c, receive_command).
THEOREM TheCommandActsOnce == DeviceSpec => []CommandActsOnce
<1>1. LinkInv => CommandActsOnce
  BY DEF LinkInv
<1> QED
  BY <1>1, DeviceInvariant, PTL

\* A reported PASS is backed by what the device did, in the order in which it
\* did it (nanopq_peer.c, run_live_demo).
THEOREM PassIsEarned == DeviceSpec => []PassIsTruthful
<1>1. LinkInv => PassIsTruthful
  BY DEF LinkInv
<1> QED
  BY <1>1, DeviceInvariant, PTL

\* No message key and sequence number ever seal two plaintexts (protocol.c,
\* npq_seal with its limit).
THEOREM LinkNoncesAreFresh == DeviceSpec => []NonceNeverReused
<1>1. LinkInv => NonceNeverReused
  <2> SUFFICES ASSUME LinkInv, NEW f \in line, NEW g \in line,
                      f.key # BadKey, f.key = g.key, f.seq = g.seq
               PROVE  f = g
    BY DEF NonceNeverReused
  <2>1. /\ DeviceFrame(f) \/ HostFrame(f)
        /\ DeviceFrame(g) \/ HostFrame(g)
        /\ f \in Frames /\ g \in Frames
    BY LinkTypes DEF LinkInv, LineFrames
  <2>2. f.seq \in 0..SeqMax /\ 0 \in 0..SeqMax
    BY <2>1, SeqMaxAssumption DEF Frames
  <2>3. CASE DeviceFrame(f) /\ DeviceFrame(g)
    BY <2>3 DEF LinkInv, LineFrames, DeviceFrame
  <2>4. CASE HostFrame(f) /\ HostFrame(g)
    BY <2>1, <2>4 DEF HostFrame, Frames
  <2>5. \A x \in {f, g} : /\ DeviceFrame(x) => x.key.from = "device"
                          /\ HostFrame(x) => x.key.from = "host"
    BY <2>2, LinkKeys DEF DeviceFrame, HostFrame
  <2> QED
    BY <2>1, <2>3, <2>4, <2>5
<1> QED
  BY <1>1, DeviceInvariant, PTL

\* Neither end accepts what the other has not sealed, and chains and counters
\* move together (protocol.c, npq_open commits only after the tag).
THEOREM EndsInStep == DeviceSpec => []NeitherEndAhead
<1>1. LinkInv => NeitherEndAhead
  <2> SUFFICES ASSUME LinkInv PROVE NeitherEndAhead
    OBVIOUS
  <2>1. TypeOK /\ SessionEnds /\ HostEnd /\ CommandActsOnce /\ LineFrames
    BY DEF LinkInv
  <2>2. hpc \in DOMAIN Waits => device.recv <= host.send
    BY <2>1, LinkTypes DEF SessionEnds, HostEnd, CommandActsOnce
  <2> QED
    BY <2>1, <2>2 DEF NeitherEndAhead, SessionEnds
<1> QED
  BY <1>1, DeviceInvariant, PTL

-----------------------------------------------------------------------------
(* What the verifiers read. *)

\* The reads of each verifier, and how many bytes the next one asks for.
SlhReads == {"randomizer", "fors", "fors_path", "wots", "xmss_path"}
LmsReads == {"q", "ots_type", "lms_randomizer", "lms_chain", "lms_type", "lms_path"}
NextRead ==
    IF vpc \in SlhReads THEN SLH_N
    ELSE IF vpc \in {"q", "ots_type", "lms_type"} THEN 4 ELSE 32

\* The reader is asked only for bytes of the signature, and OK is returned
\* only once it gave all of them.
ReadsExactly ==
    /\ vpc \in SlhReads \cup LmsReads => v.consumed + NextRead <= call.length
    /\ vpc = "done" /\ verdict = "OK" => v.consumed = call.length

FrameFields ==
    {"read", "consumed", "address", "node", "aggregate", "tree", "leaf", "layer", "i", "j",
     "digest", "checksum", "encoded_q", "encoded_type", "width"}

\* How far the verifier has come, by what it reads next.
SlhProgress ==
    /\ vpc \in SlhReads => call.length = 7856
    /\ vpc = "randomizer" => v.consumed = 0
    /\ vpc = "fors" => v.i \in 0..13 /\ v.consumed = 16 + 208 * v.i
    /\ vpc = "fors_path" => /\ v.i \in 0..13 /\ v.j \in 0..11
                            /\ v.consumed = 32 + 208 * v.i + 16 * v.j
    /\ vpc = "wots" => /\ v.layer \in 0..6 /\ v.i \in 0..34
                       /\ v.consumed = 2928 + 704 * v.layer + 16 * v.i
    /\ vpc = "xmss_path" => /\ v.layer \in 0..6 /\ v.i \in 0..8
                            /\ v.consumed = 3488 + 704 * v.layer + 16 * v.i
Chains(type) == IF type = 3 THEN 67 ELSE 34
LmsProgress ==
    /\ vpc \in LmsReads => /\ call.ots_type \in {3, 4}
                           /\ call.length = 204 + 32 * Chains(call.ots_type)
    /\ vpc = "q" => v.consumed = 0
    /\ vpc = "ots_type" => v.consumed = 4
    /\ vpc = "lms_randomizer" => v.consumed = 8
    /\ vpc = "lms_chain" => /\ v.i \in 0..(Chains(call.ots_type) - 1)
                            /\ v.consumed = 40 + 32 * v.i
    /\ vpc = "lms_type" => v.consumed = 40 + 32 * Chains(call.ots_type)
    /\ vpc = "lms_path" => /\ v.i \in 0..4
                           /\ v.consumed = 44 + 32 * Chains(call.ots_type) + 32 * v.i
ReadInv ==
    /\ vpc \in SlhReads \cup LmsReads \cup {"idle", "done", "live"}
    /\ DOMAIN v = FrameFields
    /\ SlhProgress /\ LmsProgress
    /\ vpc = "done" /\ verdict = "OK" => v.consumed = call.length

\* The frame of a new call.
LEMMA FreshFrame == DOMAIN NoFrame = FrameFields /\ NoFrame.consumed = 0
  BY DEF NoFrame, FrameFields

\* The next frame, for the fields that count.
LEMMA AfterIs ==
    ASSUME DOMAIN v = FrameFields, NEW n
    PROVE  /\ DOMAIN After(n) = FrameFields /\ After(n).consumed = v.consumed + n
           /\ After(n).i = v.i /\ After(n).j = v.j /\ After(n).layer = v.layer
  BY DEF After, FrameFields

\* A FORS secret.
LEMMA ForsRead == ReadInv /\ ReadForsSecret => ReadInv'
<1> SUFFICES ASSUME ReadInv, ReadForsSecret PROVE ReadInv'
  OBVIOUS
<1>1. DOMAIN v = FrameFields /\ v.i \in 0..13 /\ v.consumed = 16 + 208 * v.i /\ call.length = 7856
  BY DEF ReadInv, ReadForsSecret, SlhProgress, SlhReads
<1> DEFINE w == After(SLH_N)
<1>2. /\ DOMAIN w = FrameFields /\ w.consumed = v.consumed + 16 /\ w.i = v.i
  BY <1>1, AfterIs DEF SLH_N
<1> HIDE DEF w
<1>3. \E a, node : v' = [w EXCEPT !.address = a, !.node = node, !.j = 0]
  BY DEF ReadForsSecret, w
<1>4. DOMAIN v' = FrameFields /\ v'.consumed = 32 + 208 * v.i /\ v'.i = v.i /\ v'.j = 0
  BY <1>1, <1>2, <1>3 DEF FrameFields
<1>5. vpc' = "fors_path" /\ call' = call
  BY DEF ReadForsSecret
<1> QED
  BY <1>1, <1>4, <1>5 DEF ReadInv, SlhProgress, LmsProgress, SlhReads, LmsReads

\* The fields that count after fors_public_key_from_signature or
\* xmss_public_key_from_signature has begun.
LEMMA BegunIs ==
    ASSUME NEW w, DOMAIN w = FrameFields
    PROVE  /\ DOMAIN BeginFors(w) = FrameFields /\ BeginFors(w).consumed = w.consumed
           /\ BeginFors(w).i = 0
           /\ DOMAIN BeginXmss(w) = FrameFields /\ BeginXmss(w).consumed = w.consumed
           /\ BeginXmss(w).i = 0 /\ BeginXmss(w).layer = w.layer
  BY DEF BeginFors, BeginXmss, FrameFields

\* The randomizer, after which the FORS trees begin.
LEMMA RandomizerRead == ReadInv /\ ReadRandomizer => ReadInv'
<1> SUFFICES ASSUME ReadInv, ReadRandomizer PROVE ReadInv'
  OBVIOUS
<1>1. DOMAIN v = FrameFields /\ v.consumed = 0 /\ call.length = 7856
  BY DEF ReadInv, ReadRandomizer, SlhProgress, SlhReads
<1> DEFINE w == After(SLH_N)
<1>2. DOMAIN w = FrameFields /\ w.consumed = v.consumed + 16
  BY <1>1, AfterIs DEF SLH_N
<1> HIDE DEF w
<1>3. PICK digest, tree, leaf, address :
        v' = BeginFors([w EXCEPT !.digest = digest, !.tree = tree, !.leaf = leaf,
                                 !.address = address])
  BY DEF ReadRandomizer, w
<1> DEFINE g == [w EXCEPT !.digest = digest, !.tree = tree, !.leaf = leaf, !.address = address]
<1>4. DOMAIN g = FrameFields /\ g.consumed = 16
  BY <1>1, <1>2 DEF FrameFields
<1> HIDE DEF g
<1>5. DOMAIN v' = FrameFields /\ v'.consumed = 16 /\ v'.i = 0
  <2>1. v' = BeginFors(g)
    BY <1>3 DEF g
  <2> QED
    BY <1>4, <2>1, BegunIs
<1>6. vpc' = "fors" /\ call' = call
  BY DEF ReadRandomizer
<1> QED
  BY <1>1, <1>5, <1>6 DEF ReadInv, SlhProgress, LmsProgress, SlhReads, LmsReads

\* A node of a FORS path.
LEMMA ForsSiblingRead == ReadInv /\ ReadForsSibling => ReadInv'
<1> SUFFICES ASSUME ReadInv, ReadForsSibling PROVE ReadInv'
  OBVIOUS
<1>1. /\ DOMAIN v = FrameFields /\ v.i \in 0..13 /\ v.j \in 0..11
      /\ v.consumed = 32 + 208 * v.i + 16 * v.j /\ call.length = 7856
  BY DEF ReadInv, ReadForsSibling, SlhProgress, SlhReads
<1> DEFINE f == After(SLH_N)
<1>2. DOMAIN f = FrameFields /\ f.consumed = v.consumed + 16 /\ f.i = v.i /\ f.j = v.j
  BY <1>1, AfterIs DEF SLH_N
<1> HIDE DEF f
<1> DEFINE a == address_set_hash_or_index(
                    address_set_chain_or_height(v.address, v.j + 1),
                    ForsTreeIndex \div 2^(v.j + 1))
           node == Climb(a, v.node, Component, fors_index_at(v.digest, v.i), v.j)
           fed == Feed(v.aggregate, node)
           root == hash_finish_n(fed)
<1> DEFINE w == [f EXCEPT !.address = a, !.node = node, !.j = @ + 1]
           g == [w EXCEPT !.node = root, !.layer = 0]
<1>4. DOMAIN w = FrameFields /\ w.consumed = v.consumed + 16 /\ w.i = v.i /\ w.j = v.j + 1
  BY <1>1, <1>2 DEF FrameFields
<1>c. vpc = "fors_path" /\ call' = call
  BY DEF ReadForsSibling
<1>w. \/ /\ v.j + 1 < 12 /\ v' = w /\ vpc' = vpc
      \/ /\ v.j + 1 = 12 /\ v.i + 1 < 14
         /\ v' = [w EXCEPT !.aggregate = fed, !.i = @ + 1] /\ vpc' = "fors"
      \/ /\ v.j + 1 = 12 /\ v.i + 1 = 14 /\ v' = BeginXmss(g) /\ vpc' = "wots"
  BY DEF ReadForsSibling, SLH_A, SLH_K, f
<1> HIDE DEF a, node, fed, root, w
<1>5. DOMAIN g = FrameFields /\ g.consumed = w.consumed /\ g.layer = 0
  BY <1>4 DEF FrameFields
<1> HIDE DEF g
<1>6. CASE v.j + 1 < 12 /\ v' = w /\ vpc' = vpc
  <2>1. vpc' = "fors_path" /\ v'.j \in 0..11 /\ v'.i \in 0..13
        /\ v'.consumed = 32 + 208 * v'.i + 16 * v'.j
    BY <1>1, <1>4, <1>6, <1>c
  <2> QED
    BY <1>1, <1>4, <1>6, <1>c, <2>1 DEF ReadInv, SlhProgress, LmsProgress, SlhReads, LmsReads
<1>7. CASE /\ v.j + 1 = 12 /\ v.i + 1 < 14
           /\ v' = [w EXCEPT !.aggregate = fed, !.i = @ + 1] /\ vpc' = "fors"
  <2>1. DOMAIN v' = FrameFields /\ v'.i = v.i + 1 /\ v'.consumed = w.consumed
    BY <1>4, <1>7 DEF FrameFields
  <2>2. v'.i \in 0..13 /\ v'.consumed = 16 + 208 * v'.i
    BY <1>1, <1>4, <1>7, <2>1
  <2> QED
    BY <1>1, <1>7, <1>c, <2>1, <2>2 DEF ReadInv, SlhProgress, LmsProgress, SlhReads, LmsReads
<1>8. CASE v.j + 1 = 12 /\ v.i + 1 = 14 /\ v' = BeginXmss(g) /\ vpc' = "wots"
  <2>1. DOMAIN v' = FrameFields /\ v'.i = 0 /\ v'.layer = 0 /\ v'.consumed = w.consumed
    BY <1>5, <1>8, BegunIs
  <2>2. v'.consumed = 2928
    BY <1>1, <1>4, <1>8, <2>1
  <2> QED
    BY <1>1, <1>8, <1>c, <2>1, <2>2 DEF ReadInv, SlhProgress, LmsProgress, SlhReads, LmsReads
<1> QED
  BY <1>w, <1>6, <1>7, <1>8

\* A WOTS chain.
LEMMA WotsRead == ReadInv /\ ReadWots => ReadInv'
<1> SUFFICES ASSUME ReadInv, ReadWots PROVE ReadInv'
  OBVIOUS
<1>1. /\ DOMAIN v = FrameFields /\ v.layer \in 0..6 /\ v.i \in 0..34
      /\ v.consumed = 2928 + 704 * v.layer + 16 * v.i /\ call.length = 7856
  BY DEF ReadInv, ReadWots, SlhProgress, SlhReads
<1> DEFINE f == After(SLH_N)
<1>2. DOMAIN f = FrameFields /\ f.consumed = v.consumed + 16 /\ f.i = v.i /\ f.layer = v.layer
  BY <1>1, AfterIs DEF SLH_N
<1> HIDE DEF f
<1> DEFINE text == Output(v.node)
           digit == wots_digit_at(text, wots_checksum(text), v.i)
           done == chain(address_set_chain_or_height(v.address, v.i), Component, digit, 15 - digit)
           a == done.address
           fed == Feed(v.aggregate, done.value)
           node == hash_finish_n(fed)
           b == address_set_type_and_clear(a, TREE)
<1> DEFINE w == [f EXCEPT !.address = a, !.aggregate = fed, !.i = @ + 1]
<1>4. DOMAIN w = FrameFields /\ w.consumed = v.consumed + 16 /\ w.i = v.i + 1 /\ w.layer = v.layer
  BY <1>1, <1>2 DEF FrameFields
<1>c. vpc = "wots" /\ call' = call
  BY DEF ReadWots
<1>w. \/ v.i + 1 < 35 /\ v' = w /\ vpc' = vpc
      \/ /\ v.i + 1 = 35
         /\ v' = [w EXCEPT !.node = node, !.i = 0, !.address = b] /\ vpc' = "xmss_path"
  BY DEF ReadWots, SLH_WOTS_LEN, f
<1> HIDE DEF text, digit, done, a, fed, node, b, w
<1>5. CASE v.i + 1 < 35 /\ v' = w /\ vpc' = vpc
  <2>1. v'.i \in 0..34 /\ v'.layer \in 0..6 /\ v'.consumed = 2928 + 704 * v'.layer + 16 * v'.i
    BY <1>1, <1>4, <1>5
  <2> QED
    BY <1>1, <1>4, <1>5, <1>c, <2>1 DEF ReadInv, SlhProgress, LmsProgress, SlhReads, LmsReads
<1>6. CASE /\ v.i + 1 = 35
           /\ v' = [w EXCEPT !.node = node, !.i = 0, !.address = b] /\ vpc' = "xmss_path"
  <2>1. DOMAIN v' = FrameFields /\ v'.i = 0 /\ v'.layer = v.layer /\ v'.consumed = w.consumed
    BY <1>4, <1>6 DEF FrameFields
  <2>2. v'.layer \in 0..6 /\ v'.consumed = 3488 + 704 * v'.layer + 16 * v'.i
    BY <1>1, <1>4, <1>6, <2>1
  <2> QED
    BY <1>1, <1>6, <1>c, <2>1, <2>2 DEF ReadInv, SlhProgress, LmsProgress, SlhReads, LmsReads
<1> QED
  BY <1>w, <1>5, <1>6

\* A node of an XMSS path.
LEMMA XmssSiblingRead == ReadInv /\ ReadXmssSibling => ReadInv'
<1> SUFFICES ASSUME ReadInv, ReadXmssSibling PROVE ReadInv'
  OBVIOUS
<1>1. /\ DOMAIN v = FrameFields /\ v.layer \in 0..6 /\ v.i \in 0..8
      /\ v.consumed = 3488 + 704 * v.layer + 16 * v.i /\ call.length = 7856
  BY DEF ReadInv, ReadXmssSibling, SlhProgress, SlhReads
<1> DEFINE f == After(SLH_N)
<1>2. DOMAIN f = FrameFields /\ f.consumed = v.consumed + 16 /\ f.i = v.i /\ f.layer = v.layer
  BY <1>1, AfterIs DEF SLH_N
<1> HIDE DEF f
<1>3. PICK a, node, leaf, tree :
        LET w == [f EXCEPT !.address = a, !.i = @ + 1, !.node = node]
        IN  \/ v.i + 1 < 9 /\ v' = w /\ vpc' = vpc
            \/ /\ v.i + 1 = 9 /\ v.layer + 1 < 7
               /\ v' = BeginXmss([w EXCEPT !.leaf = leaf, !.tree = tree, !.layer = @ + 1])
               /\ vpc' = "wots"
            \/ v.i + 1 = 9 /\ v.layer + 1 = 7 /\ v' = w /\ vpc' = "done"
  BY DEF ReadXmssSibling, Return, SLH_HP, SLH_D, f
<1> DEFINE w == [f EXCEPT !.address = a, !.i = @ + 1, !.node = node]
           g == [w EXCEPT !.leaf = leaf, !.tree = tree, !.layer = @ + 1]
<1>4. DOMAIN w = FrameFields /\ w.consumed = v.consumed + 16 /\ w.i = v.i + 1 /\ w.layer = v.layer
  BY <1>1, <1>2 DEF FrameFields
<1>c. vpc = "xmss_path" /\ call' = call
  BY DEF ReadXmssSibling
<1>w. \/ v.i + 1 < 9 /\ v' = w /\ vpc' = vpc
      \/ /\ v.i + 1 = 9 /\ v.layer + 1 < 7 /\ v' = BeginXmss(g) /\ vpc' = "wots"
      \/ v.i + 1 = 9 /\ v.layer + 1 = 7 /\ v' = w /\ vpc' = "done"
  BY <1>3
<1> HIDE DEF w
<1>5. DOMAIN g = FrameFields /\ g.consumed = w.consumed /\ g.layer = v.layer + 1
  BY <1>4 DEF FrameFields
<1> HIDE DEF g
<1>6. CASE v.i + 1 < 9 /\ v' = w /\ vpc' = vpc
  <2>1. v'.i \in 0..8 /\ v'.layer \in 0..6 /\ v'.consumed = 3488 + 704 * v'.layer + 16 * v'.i
    BY <1>1, <1>4, <1>6
  <2> QED
    BY <1>1, <1>4, <1>6, <1>c, <2>1 DEF ReadInv, SlhProgress, LmsProgress, SlhReads, LmsReads
<1>7. CASE v.i + 1 = 9 /\ v.layer + 1 < 7 /\ v' = BeginXmss(g) /\ vpc' = "wots"
  <2>1. DOMAIN v' = FrameFields /\ v'.i = 0 /\ v'.layer = v.layer + 1 /\ v'.consumed = w.consumed
    BY <1>5, <1>7, BegunIs
  <2>2. v'.layer \in 0..6 /\ v'.consumed = 2928 + 704 * v'.layer + 16 * v'.i
    BY <1>1, <1>4, <1>7, <2>1
  <2> QED
    BY <1>1, <1>7, <1>c, <2>1, <2>2 DEF ReadInv, SlhProgress, LmsProgress, SlhReads, LmsReads
<1>8. CASE v.i + 1 = 9 /\ v.layer + 1 = 7 /\ v' = w /\ vpc' = "done"
  <2>1. v'.consumed = 7856
    BY <1>1, <1>4, <1>8
  <2> QED
    BY <1>1, <1>4, <1>8, <1>c, <2>1 DEF ReadInv, SlhProgress, LmsProgress, SlhReads, LmsReads
<1> QED
  BY <1>w, <1>6, <1>7, <1>8

\* The number of chains of a signature type.
LEMMA OtsIs ==
    ASSUME NEW type \in {3, 4}
    PROVE  /\ OtsParameters[type].p = Chains(type)
           /\ OtsParameters[type].length = 204 + 32 * Chains(type)
           /\ Chains(type) \in Nat /\ Chains(type) > 1
  BY DEF OtsParameters, Chains

\* The three plain reads at the start of an LMS signature.
LEMMA LmsStartRead == ReadInv /\ (ReadQ \/ ReadOtsType \/ ReadLmsRandomizer) => ReadInv'
<1> SUFFICES ASSUME ReadInv, ReadQ \/ ReadOtsType \/ ReadLmsRandomizer PROVE ReadInv'
  OBVIOUS
<1> DEFINE type == call.ots_type
           P == Chains(type)
<1>1. /\ DOMAIN v = FrameFields /\ type \in {3, 4} /\ call.length = 204 + 32 * P
      /\ call' = call
  BY DEF ReadInv, ReadQ, ReadOtsType, ReadLmsRandomizer, LmsProgress, LmsReads
<1>2. P \in Nat /\ P > 1
  BY <1>1, OtsIs
<1>3. CASE ReadQ
  <2>1. vpc' = "ots_type" /\ v.consumed = 0
    BY <1>3 DEF ReadInv, ReadQ, LmsProgress
  <2> DEFINE f == After(4)
  <2>2. DOMAIN f = FrameFields /\ f.consumed = 4
    BY <1>1, <2>1, AfterIs
  <2> HIDE DEF f
  <2>3. \E q : v' = [f EXCEPT !.encoded_q = q]
    BY <1>3 DEF ReadQ, f
  <2>4. DOMAIN v' = FrameFields /\ v'.consumed = 4
    BY <2>2, <2>3 DEF FrameFields
  <2> QED
    BY <1>1, <2>1, <2>4 DEF ReadInv, SlhProgress, LmsProgress, SlhReads, LmsReads
<1>4. CASE ReadOtsType
  <2>1. vpc' = "lms_randomizer" /\ v.consumed = 4
    BY <1>4 DEF ReadInv, ReadOtsType, LmsProgress
  <2> DEFINE f == After(4)
  <2>2. DOMAIN f = FrameFields /\ f.consumed = 8
    BY <1>1, <2>1, AfterIs
  <2> HIDE DEF f
  <2>3. \E q : v' = [f EXCEPT !.encoded_type = q]
    BY <1>4 DEF ReadOtsType, f
  <2>4. DOMAIN v' = FrameFields /\ v'.consumed = 8
    BY <2>2, <2>3 DEF FrameFields
  <2> QED
    BY <1>1, <2>1, <2>4 DEF ReadInv, SlhProgress, LmsProgress, SlhReads, LmsReads
<1>5. CASE ReadLmsRandomizer
  <2>1. v.consumed = 8
    BY <1>5 DEF ReadInv, ReadLmsRandomizer, LmsProgress
  <2> DEFINE f == After(32)
  <2>2. DOMAIN f = FrameFields /\ f.consumed = 40
    BY <1>1, <2>1, AfterIs
  <2> HIDE DEF f
  <2> DEFINE digest == IF LmsMessageStreams
                       THEN LmsMessageHash(v.encoded_q \o <<129, 129>>, Component, call.message)
                       ELSE Digest(0)
             checksum == LmsChecksum(digest, Ots)
             aggregate == Open(v.encoded_q \o <<128, 128>>)
  <2>3. \/ v' = f /\ verdict' = "BAD_SIGNATURE" /\ vpc' = "done"
        \/ /\ v' = [f EXCEPT !.digest = digest, !.checksum = checksum, !.i = 0,
                             !.aggregate = aggregate]
           /\ vpc' = "lms_chain"
    BY <1>5 DEF ReadLmsRandomizer, Return, f
  <2> HIDE DEF digest, checksum, aggregate
  <2>4. CASE v' = f /\ verdict' = "BAD_SIGNATURE" /\ vpc' = "done"
    BY <2>2, <2>4 DEF ReadInv, SlhProgress, LmsProgress, SlhReads, LmsReads
  <2>5. CASE /\ v' = [f EXCEPT !.digest = digest, !.checksum = checksum, !.i = 0,
                               !.aggregate = aggregate]
             /\ vpc' = "lms_chain"
    <3>1. DOMAIN v' = FrameFields /\ v'.consumed = 40 /\ v'.i = 0
      BY <2>2, <2>5 DEF FrameFields
    <3>2. v'.i \in 0..(P - 1)
      BY <1>2, <3>1
    <3> QED
      BY <1>1, <2>5, <3>1, <3>2 DEF ReadInv, SlhProgress, LmsProgress, SlhReads, LmsReads
  <2> QED
    BY <2>3, <2>4, <2>5
<1> QED
  BY <1>3, <1>4, <1>5

\* A chain of the one-time signature.
LEMMA LmsChainRead == ReadInv /\ ReadLmsChain => ReadInv'
<1> SUFFICES ASSUME ReadInv, ReadLmsChain PROVE ReadInv'
  OBVIOUS
<1> DEFINE P == Chains(call.ots_type)
           f == After(32)
<1>1. /\ DOMAIN v = FrameFields /\ call.ots_type \in {3, 4} /\ call.length = 204 + 32 * P
      /\ call' = call /\ v.i \in 0..(P - 1) /\ v.consumed = 40 + 32 * v.i /\ vpc = "lms_chain"
  BY DEF ReadInv, ReadLmsChain, LmsProgress, LmsReads
<1>2. P \in Nat /\ P > 1 /\ Ots.p = P
  BY <1>1, OtsIs DEF Ots
<1>3. DOMAIN f = FrameFields /\ f.consumed = v.consumed + 32 /\ f.i = v.i
  BY <1>1, AfterIs
<1> HIDE DEF f, P
<1>4. PICK fed, node :
        LET w == [f EXCEPT !.aggregate = fed, !.i = @ + 1]
        IN  \/ v.i + 1 < Ots.p /\ v' = w /\ vpc' = vpc
            \/ v.i + 1 = Ots.p /\ v' = [w EXCEPT !.node = node] /\ vpc' = "lms_type"
  BY Zenon DEF ReadLmsChain, f
<1> DEFINE w == [f EXCEPT !.aggregate = fed, !.i = @ + 1]
<1>5. DOMAIN w = FrameFields /\ w.consumed = v.consumed + 32 /\ w.i = v.i + 1
  BY <1>3 DEF FrameFields
<1>w. \/ v.i + 1 < Ots.p /\ v' = w /\ vpc' = vpc
      \/ v.i + 1 = Ots.p /\ v' = [w EXCEPT !.node = node] /\ vpc' = "lms_type"
  BY <1>4
<1> HIDE DEF w
<1>6. CASE v.i + 1 < Ots.p /\ v' = w /\ vpc' = vpc
  <2>1. v'.i \in 0..(P - 1) /\ v'.consumed = 40 + 32 * v'.i
    BY <1>1, <1>2, <1>5, <1>6
  <2> QED
    BY <1>1, <1>5, <1>6, <2>1 DEF ReadInv, SlhProgress, LmsProgress, SlhReads, LmsReads, P
<1>7. CASE v.i + 1 = Ots.p /\ v' = [w EXCEPT !.node = node] /\ vpc' = "lms_type"
  <2>1. DOMAIN v' = FrameFields /\ v'.consumed = w.consumed
    BY <1>5, <1>7 DEF FrameFields
  <2>2. v'.consumed = 40 + 32 * P
    BY <1>1, <1>2, <1>5, <1>7, <2>1
  <2> QED
    BY <1>1, <1>7, <2>1, <2>2 DEF ReadInv, SlhProgress, LmsProgress, SlhReads, LmsReads, P
<1> QED
  BY <1>w, <1>6, <1>7

\* The type of the tree.
LEMMA LmsTypeRead == ReadInv /\ ReadLmsType => ReadInv'
<1> SUFFICES ASSUME ReadInv, ReadLmsType PROVE ReadInv'
  OBVIOUS
<1> DEFINE P == Chains(call.ots_type)
           f == After(4)
<1>1. /\ DOMAIN v = FrameFields /\ call.ots_type \in {3, 4} /\ call.length = 204 + 32 * P
      /\ call' = call /\ v.consumed = 40 + 32 * P /\ vpc = "lms_type"
  BY DEF ReadInv, ReadLmsType, LmsProgress, LmsReads
<1>2. P \in Nat
  BY <1>1, OtsIs
<1>3. DOMAIN f = FrameFields /\ f.consumed = v.consumed + 4
  BY <1>1, AfterIs
<1> HIDE DEF f, P
<1>4. \/ v' = f /\ verdict' = "BAD_SIGNATURE" /\ vpc' = "done"
      \/ /\ \E leaf, node : v' = [f EXCEPT !.leaf = leaf, !.i = 0, !.node = node]
         /\ vpc' = "lms_path"
  BY DEF ReadLmsType, Return, f
<1>5. CASE v' = f /\ verdict' = "BAD_SIGNATURE" /\ vpc' = "done"
  BY <1>3, <1>5 DEF ReadInv, SlhProgress, LmsProgress, SlhReads, LmsReads
<1>6. CASE /\ \E leaf, node : v' = [f EXCEPT !.leaf = leaf, !.i = 0, !.node = node]
           /\ vpc' = "lms_path"
  <2>1. DOMAIN v' = FrameFields /\ v'.i = 0 /\ v'.consumed = f.consumed
    BY <1>3, <1>6 DEF FrameFields
  <2>2. v'.consumed = 44 + 32 * P + 32 * v'.i /\ v'.i \in 0..4
    BY <1>1, <1>2, <1>3, <2>1
  <2> QED
    BY <1>1, <1>6, <2>1, <2>2 DEF ReadInv, SlhProgress, LmsProgress, SlhReads, LmsReads, P
<1> QED
  BY <1>4, <1>5, <1>6

\* A node of the LMS path.
LEMMA LmsSiblingRead == ReadInv /\ ReadLmsSibling => ReadInv'
<1> SUFFICES ASSUME ReadInv, ReadLmsSibling PROVE ReadInv'
  OBVIOUS
<1> DEFINE P == Chains(call.ots_type)
           f == After(32)
<1>1. /\ DOMAIN v = FrameFields /\ call.ots_type \in {3, 4} /\ call.length = 204 + 32 * P
      /\ call' = call /\ v.i \in 0..4 /\ v.consumed = 44 + 32 * P + 32 * v.i /\ vpc = "lms_path"
  BY DEF ReadInv, ReadLmsSibling, LmsProgress, LmsReads
<1>2. P \in Nat
  BY <1>1, OtsIs
<1>3. DOMAIN f = FrameFields /\ f.consumed = v.consumed + 32 /\ f.i = v.i
  BY <1>1, AfterIs
<1> HIDE DEF f, P
<1> DEFINE up == v.leaf \div 2
           pair == IF v.leaf % 2 = 1 THEN <<Component, v.node>> ELSE <<v.node, Component>>
           node == hash_lms_node(up, <<131, 131>>, pair)
<1>4. /\ v' = [f EXCEPT !.node = node, !.leaf = up, !.i = @ + 1]
      /\ \/ v'.i < 5 /\ vpc' = vpc
         \/ v'.i = 5 /\ vpc' = "done"
  BY DEF ReadLmsSibling, Return, NPQ_LMS_HEIGHT, f
<1> HIDE DEF up, pair, node
<1>5. DOMAIN v' = FrameFields /\ v'.consumed = v.consumed + 32 /\ v'.i = v.i + 1
  BY <1>3, <1>4 DEF FrameFields
<1>6. CASE v'.i < 5 /\ vpc' = vpc
  <2>1. v'.i \in 0..4 /\ v'.consumed = 44 + 32 * P + 32 * v'.i
    BY <1>1, <1>2, <1>5, <1>6
  <2> QED
    BY <1>1, <1>5, <1>6, <2>1 DEF ReadInv, SlhProgress, LmsProgress, SlhReads, LmsReads, P
<1>7. CASE v'.i = 5 /\ vpc' = "done"
  <2>1. v'.consumed = call.length
    BY <1>1, <1>2, <1>5, <1>7
  <2> QED
    BY <1>1, <1>5, <1>7, <2>1 DEF ReadInv, SlhProgress, LmsProgress, SlhReads, LmsReads
<1> QED
  BY <1>4, <1>6, <1>7

\* A call starts from an empty frame, or is refused before the first read.
LEMMA VerifyStarts == ReadInv /\ Verify => ReadInv'
<1> SUFFICES ASSUME ReadInv, Verify PROVE ReadInv'
  OBVIOUS
<1>1. DOMAIN v = FrameFields
  BY DEF ReadInv
<1>2. PICK c \in Calls : call' = c /\ IF c.algorithm = "SLH" THEN StartSlh(c) ELSE StartLms(c)
  BY DEF Verify
<1>3. \/ vpc' = "done" /\ verdict' # "OK" /\ v' = v
      \/ vpc' = "randomizer" /\ v' = NoFrame /\ c.length = 7856
      \/ /\ vpc' = "q" /\ c.ots_type \in {3, 4} /\ c.length = OtsParameters[c.ots_type].length
         /\ \E n : v' = [NoFrame EXCEPT !.width = n]
  <2>1. DOMAIN OtsParameters = {3, 4}
    BY DEF OtsParameters
  <2>2. CASE StartSlh(c)
    BY <2>2 DEF StartSlh, Return, QP_SLHDSA_SIGNATURE_BYTES
  <2>3. CASE StartLms(c)
    BY <2>1, <2>3 DEF StartLms, Return
  <2> QED
    BY <1>2, <2>2, <2>3
<1>4. CASE vpc' = "done" /\ verdict' # "OK" /\ v' = v
  BY <1>1, <1>4 DEF ReadInv, SlhProgress, LmsProgress, SlhReads, LmsReads
<1>5. CASE vpc' = "randomizer" /\ v' = NoFrame /\ c.length = 7856
  BY <1>2, <1>5, FreshFrame DEF ReadInv, SlhProgress, LmsProgress, SlhReads, LmsReads
<1>6. CASE /\ vpc' = "q" /\ c.ots_type \in {3, 4} /\ c.length = OtsParameters[c.ots_type].length
           /\ \E n : v' = [NoFrame EXCEPT !.width = n]
  <2>1. DOMAIN v' = FrameFields /\ v'.consumed = 0
    BY <1>6, FreshFrame DEF FrameFields
  <2>2. c.length = 204 + 32 * Chains(c.ots_type)
    BY <1>6, OtsIs
  <2> QED
    BY <1>2, <1>6, <2>1, <2>2 DEF ReadInv, SlhProgress, LmsProgress, SlhReads, LmsReads
<1> QED
  BY <1>3, <1>4, <1>5, <1>6

\* Every step of the device keeps the account of what was read.
LEMMA ReadStep == ReadInv /\ [DeviceNext]_<<vars, verifyVars>> => ReadInv'
<1> SUFFICES ASSUME ReadInv, [DeviceNext]_<<vars, verifyVars>> PROVE ReadInv'
  OBVIOUS
<1>1. CASE ReaderFails
  BY <1>1 DEF ReadInv, ReaderFails, Return, SlhProgress, LmsProgress, SlhReads, LmsReads
<1>2. CASE VerifierReturns \/ GoLive
  <2>1. v' = NoFrame /\ vpc' \in {"idle", "live"}
    BY <1>2 DEF VerifierReturns, GoLive
  <2> QED
    BY <2>1, FreshFrame DEF ReadInv, SlhProgress, LmsProgress, SlhReads, LmsReads
<1>3. CASE UNCHANGED verifyVars
  BY <1>3 DEF verifyVars, ReadInv, SlhProgress, LmsProgress
<1>4. CASE Verification
  BY <1>1, <1>2, <1>4, VerifyStarts, RandomizerRead, ForsRead, ForsSiblingRead, WotsRead,
     XmssSiblingRead, LmsStartRead, LmsChainRead, LmsTypeRead, LmsSiblingRead, Zenon
     DEF Verification
<1> QED
  BY <1>2, <1>3, <1>4, Zenon DEF DeviceNext

\* qp_slhdsa_sha2_128s_verify_stream and npq_lms_sha256_m32_h5_verify_stream
\* ask the reader for no byte beyond the length they were called with, of
\* whatever contents, so that they never wait for a byte that no host sends;
\* and they return OK only once every byte was read.  consumed and the loop
\* counters keep in step in every loop.
THEOREM VerifierReadsExactly == DeviceSpec => []ReadsExactly
<1>1. DeviceInit => ReadInv
  BY FreshFrame DEF DeviceInit, VerifyInit, ReadInv, SlhProgress, LmsProgress, SlhReads, LmsReads
<1>2. ReadInv => ReadsExactly
  <2> SUFFICES ASSUME ReadInv PROVE ReadsExactly
    OBVIOUS
  <2>1. CASE vpc \in SlhReads
    BY <2>1 DEF ReadInv, ReadsExactly, NextRead, SLH_N, SlhProgress, SlhReads
  <2>2. CASE vpc \in LmsReads
    <3>1. Chains(call.ots_type) \in Nat /\ Chains(call.ots_type) > 1
      BY <2>2, OtsIs DEF ReadInv, LmsProgress
    <3> QED
      BY <2>2, <3>1 DEF ReadInv, ReadsExactly, NextRead, LmsProgress, SlhReads, LmsReads
  <2> QED
    BY <2>1, <2>2 DEF ReadInv, ReadsExactly
<1> QED
  BY <1>1, <1>2, ReadStep, PTL DEF DeviceSpec

-----------------------------------------------------------------------------
(* The firmware's hash and cipher.  A context holds a message in the sense *)
(* of CoreProofs: it has counted and buffered it and transformed its       *)
(* blocks.                                                                 *)

\* The whole blocks among the pieces of a message.
LEMMA FirstPieces ==
    ASSUME NEW S, NEW s \in Seq(S), NEW c \in Nat, 64 * c <= Len(s), Len(s) < 64 * c + 64
    PROVE  SubSeq(Pieces(s, BlockBytes), 1, c) = FirstBlocks(s, c)
<1> DEFINE n == Len(s)
           e == (n + 63) \div 64
           upto(k) == IF 64 * k < n THEN 64 * k ELSE n
           p == [k \in 1..e |-> SubSeq(s, 64 * (k - 1) + 1, upto(k))]
           P == {p[k] : k \in 1..e}
<1>1. n \in Nat /\ e \in Nat /\ c <= e
  OBVIOUS
<1>2. Pieces(s, BlockBytes) = p
  BY DEF Pieces, BlockBytes
<1>3. ASSUME NEW k \in 1..c PROVE p[k] = SubSeq(s, 64 * (k - 1) + 1, 64 * k)
  <2>1. upto(k) = 64 * k /\ k \in 1..e
    BY <1>1
  <2> QED
    BY <2>1
<1>4. p = [k \in 1..e |-> p[k]]
  OBVIOUS
<1> HIDE DEF p, e, n, upto
<1>5. p \in Seq(P) /\ Len(p) = e
  <2>1. p \in [1..e -> P]
    BY <1>4
  <2> HIDE DEF P
  <2> QED
    BY <1>1, <2>1, FunctionIsSeq
<1> HIDE DEF P
<1> DEFINE t == SubSeq(p, 1, c)
<1>6. t \in Seq(P) /\ Len(t) = c - 1 + 1 /\ \A i \in 1..(c - 1 + 1) : t[i] = p[1 + i - 1]
  <2>1. 1 \in Nat /\ 1 <= 1 /\ 1 <= c + 1 /\ c <= Len(p)
    BY <1>1, <1>5
  <2> QED
    BY <1>5, <2>1, Slice
<1> HIDE DEF t
<1>7. t = [k \in 1..c |-> SubSeq(s, 64 * (k - 1) + 1, 64 * k)]
  <2>1. Len(t) = c /\ \A i \in 1..c : t[i] = p[i]
    BY <1>6
  <2>2. t = [i \in 1..c |-> t[i]]
    BY <1>6, <2>1
  <2>3. \A i \in 1..c : t[i] = SubSeq(s, 64 * (i - 1) + 1, 64 * i)
    BY <1>3, <2>1
  <2> QED
    BY <2>2, <2>3
<1> QED
  BY <1>2, <1>7 DEF t, FirstBlocks, BlockBytes

\* What follows the first blocks.
LEMMA RestTyped ==
    ASSUME NEW S, NEW m \in Seq(S), NEW n \in Nat, 64 * n <= Len(m)
    PROVE  AfterBlocks(m, n) \in Seq(S) /\ Len(AfterBlocks(m, n)) = Len(m) - 64 * n
  BY BlocksTyped, SMTT(60)

\* qp_sha256_update feeds a context its input, wherever the input is cut.
THEOREM FirmwareUpdateHolds ==
    ASSUME NEW S, NEW m \in Seq(S), NEW x \in Seq(S), NEW ctx, Holds(ctx, m)
    PROVE  Holds(qp_sha256_update(ctx, x), m \o x)
<1> DEFINE n == Len(m)
           q == n \div BlockBytes
           u == m \o x
           rest == AfterBlocks(u, q)
           w == Len(rest) \div BlockBytes
           new == qp_sha256_update(ctx, x)
<1>1. ctx.total = n /\ ctx.blocks = FirstBlocks(m, q) /\ ctx.buffer = AfterBlocks(m, q)
  BY DEF Holds
<1>n. n \in Nat /\ Len(x) \in Nat
  OBVIOUS
<1>2. q \in Nat /\ 64 * q <= n
  BY <1>n, BlocksIn
<1>3. u \in Seq(S) /\ Len(u) = n + Len(x)
  BY Joined
<1> HIDE DEF q, u
<1>4. FirstBlocks(u, q) = FirstBlocks(m, q) /\ rest = AfterBlocks(m, q) \o x
  BY <1>2, BlocksStay DEF u
<1>5. rest \in Seq(S) /\ Len(rest) = n + Len(x) - 64 * q
  <2>1. 64 * q <= Len(u)
    BY <1>n, <1>2, <1>3
  <2>2. rest \in Seq(S) /\ Len(rest) = Len(u) - 64 * q
    BY <1>2, <1>3, <2>1, RestTyped
  <2>3. Len(rest) = n + Len(x) - 64 * q
    BY <1>n, <1>2, <1>3, <2>2
  <2> QED
    BY <2>2, <2>3
<1>6. new = [buffer |-> AfterBlocks(rest, w), total |-> n + Len(x),
             blocks |-> FirstBlocks(m, q) \o SubSeq(Pieces(rest, BlockBytes), 1, w)]
  <2>1. ctx.buffer \o x = rest
    BY <1>1, <1>4
  <2> HIDE DEF rest
  <2> QED
    BY <1>1, <2>1 DEF qp_sha256_update, AfterBlocks
<1> HIDE DEF rest, new
<1>7. w \in Nat /\ 64 * w <= Len(rest) /\ Len(rest) < 64 * w + 64
  <2>1. Len(rest) \in Nat
    BY <1>5
  <2> QED
    BY <2>1, BlocksIn
<1> HIDE DEF w, n
<1>8. SubSeq(Pieces(rest, BlockBytes), 1, w) = FirstBlocks(rest, w)
  BY <1>5, <1>7, FirstPieces
<1>9. 64 * (q + w) <= Len(u) /\ Len(u) < 64 * (q + w) + 64 /\ q + w \in Nat
  BY <1>n, <1>2, <1>3, <1>5, <1>7
<1>10. /\ FirstBlocks(u, q) \o FirstBlocks(rest, w) = FirstBlocks(u, q + w)
       /\ AfterBlocks(rest, w) = AfterBlocks(u, q + w)
  BY <1>2, <1>3, <1>7, <1>9, MoreBlocks DEF rest
<1>11. /\ new.total = Len(u) /\ new.blocks = FirstBlocks(u, q + w)
       /\ new.buffer = AfterBlocks(u, q + w)
  BY <1>3, <1>4, <1>6, <1>8, <1>10
<1>12. Holds(new, u)
  BY <1>3, <1>9, <1>11, HoldsFrom
<1> QED
  BY <1>12 DEF new, u

\* final_transform on a context that holds a message gives the blocks that
\* FIPS 180-4 defines for the whole message.
THEOREM FirmwareFinalIsSha256 ==
    ASSUME NEW S, NEW m \in Seq(S), NEW ctx, Holds(ctx, m)
    PROVE  final_transform(ctx) = Sha256Blocks(m)
<1>1. final_transform(ctx) = c0_sha256_final(ctx)
  BY Zenon DEF final_transform, c0_sha256_final
<1> QED
  BY <1>1, FinalIsSha256

\* A context that has transformed a first block holds that block.
LEMMA FirstBlockHolds ==
    ASSUME NEW S, NEW b \in Seq(S), Len(b) = 64,
           NEW ctx, ctx = [buffer |-> <<>>, total |-> BlockBytes, blocks |-> <<b>>]
    PROVE  Holds(ctx, b)
<1>1. FirstBlocks(b, 1) = <<SubSeq(b, 1, 64)>> /\ SubSeq(b, 1, 64) = b
  BY OneBlock, EmptyParts
<1>2. AfterBlocks(b, 1) = <<>>
  <2> DEFINE c == 1
             a == AfterBlocks(b, c)
  <2>1. c \in Nat /\ 64 * c <= Len(b) /\ Len(b) - 64 * c = 0
    OBVIOUS
  <2> HIDE DEF c
  <2>2. a \in Seq(S) /\ Len(a) = Len(b) - 64 * c
    BY <2>1, RestTyped
  <2> HIDE DEF a
  <2>3. a = <<>>
    BY <2>1, <2>2, EmptyParts
  <2> QED
    BY <2>3 DEF a, c
<1>3. ctx.total = Len(b) /\ ctx.blocks = FirstBlocks(b, 1) /\ ctx.buffer = AfterBlocks(b, 1)
  BY <1>1, <1>2 DEF BlockBytes
<1>4. 1 \in Nat /\ 64 * 1 <= Len(b) /\ Len(b) < 64 * 1 + 64
  OBVIOUS
<1> QED
  BY <1>3, <1>4, HoldsFrom

\* hash_start continues from the state after the seed and its 48 zeros: what
\* it is fed from there on is hashed as if the whole had been fed.
THEOREM SeededHashHolds ==
    ASSUME NEW S, NEW seed \in Seq(S), Len(seed) = 16
    PROVE  Holds(SeededContext(seed), seed \o Zeros(48))
<1> DEFINE T == S \cup {PadZero}
           z == Zeros(48)
           b == seed \o z
<1>1. SeededContext(seed) = [buffer |-> <<>>, total |-> BlockBytes, blocks |-> <<b>>]
  BY DEF SeededContext, qp_sha256_fips205_seed, BlockBytes
<1>2. seed \in Seq(T) /\ z \in Seq(T) /\ Len(z) = 48
  <2> DEFINE k == 48
  <2>1. k \in Nat /\ PadZero \in T /\ S \subseteq T
    OBVIOUS
  <2> HIDE DEF T, k
  <2>2. seed \in Seq(T)
    BY <2>1, Wider
  <2>3. Zeros(k) \in Seq(T) /\ Len(Zeros(k)) = k
    BY <2>1, ZerosTyped
  <2> QED
    BY <2>2, <2>3 DEF k
<1> HIDE DEF T, z
<1>3. b \in Seq(T) /\ Len(b) = 64
  <2>1. b \in Seq(T) /\ Len(b) = Len(seed) + Len(z)
    BY <1>2, Joined, ZenonT(60)
  <2> QED
    BY <1>2, <2>1
<1> HIDE DEF b
<1>4. Holds(SeededContext(seed), b)
  BY <1>1, <1>3, FirstBlockHolds
<1> QED
  BY <1>4 DEF b, z

\* The context that starts from a masked key block holds that block.
LEMMA PrefixHolds ==
    ASSUME NEW K, NEW key \in Seq(K), Len(key) <= 64, NEW mask
    PROVE  Holds(hmac_prefix(key, mask), Masked(RfcBlock(key), mask))
<1> DEFINE b == Masked(RfcBlock(key), mask)
           M == MaskedBytes(mask, key)
           ctx == hmac_prefix(key, mask)
<1>1. key \o Zeros(BlockBytes - Len(key)) = RfcBlock(key)
  <2>1. KeyBlock(key) = RfcBlock(key)
    BY KeyBlockIsRfc
  <2>2. Len(key) <= BlockBytes
    BY DEF BlockBytes
  <2>3. KeyBlock(key) = key \o Zeros(BlockBytes - Len(key))
    BY <2>2 DEF KeyBlock, ZeroPadded
  <2> QED
    BY <2>1, <2>3
<1>2. ctx = [buffer |-> <<>>, total |-> BlockBytes, blocks |-> <<b>>]
  BY <1>1 DEF hmac_prefix
<1>3. b \in Seq(M) /\ Len(b) = 64
  BY MaskedTyped
<1> HIDE DEF b, M, ctx
<1>4. Holds(ctx, b)
  BY <1>2, <1>3, FirstBlockHolds
<1> QED
  BY <1>4 DEF b, ctx

\* A message hashed after a masked key block.
LEMMA PrefixedHash ==
    ASSUME NEW K, NEW key \in Seq(K), Len(key) <= 64, NEW mask, NEW S, NEW m \in Seq(S)
    PROVE  final_transform(qp_sha256_update(hmac_prefix(key, mask), m))
             = Sha256Blocks(Masked(RfcBlock(key), mask) \o m)
<1> DEFINE b == Masked(RfcBlock(key), mask)
           M == MaskedBytes(mask, key)
           U == S \cup M
           start == hmac_prefix(key, mask)
           u == b \o m
<1>1. b \in Seq(M) /\ S \subseteq U /\ M \subseteq U /\ Holds(start, b)
  BY MaskedTyped, PrefixHolds
<1> HIDE DEF b, M, U, start
<1>2. b \in Seq(U) /\ m \in Seq(U)
  BY <1>1, Wider
<1> DEFINE ctx == qp_sha256_update(start, m)
<1>3. u \in Seq(U) /\ Holds(ctx, u)
  BY <1>1, <1>2, Joined, FirmwareUpdateHolds
<1> HIDE DEF u, ctx
<1>4. final_transform(ctx) = Sha256Blocks(u)
  BY <1>3, FirmwareFinalIsSha256
<1> QED
  BY <1>4 DEF u, ctx, start, b

\* qp_hmac_sha256_32 computes the tag of RFC 2104 for every message and every
\* key of at most a block, those of 32 bytes that protocol.c uses among them:
\* starting from the state after the masked key block is no shortcut that
\* shows.
THEOREM FirmwareHmacIsRfc ==
    ASSUME NEW K, NEW key \in Seq(K), Len(key) <= 64, NEW S, NEW m \in Seq(S)
    PROVE  qp_hmac_sha256_32(key, m) = RfcHmac(key, m)
<1> DEFINE I == {InnerBytes[k] : k \in 1..32}
           one == final_transform(qp_sha256_update(hmac_prefix(key, 54), m))
           two == final_transform(qp_sha256_update(hmac_prefix(key, 92), InnerBytes))
           first == Sha256Blocks(Masked(RfcBlock(key), 54) \o m)
           second == Sha256Blocks(Masked(RfcBlock(key), 92) \o InnerBytes)
<1>1. one = first
  BY PrefixedHash
<1>2. two = second
  <2>1. InnerBytes \in Seq(I)
    BY InnerBytesTyped
  <2> HIDE DEF I
  <2> QED
    BY <2>1, PrefixedHash
<1>3. RfcHmac(key, m) = [inner |-> first, outer |-> second]
  BY Zenon DEF RfcHmac, RfcBlock
<1>4. qp_hmac_sha256_32(key, m) = [inner |-> one, outer |-> two]
  BY Zenon DEF qp_hmac_sha256_32
<1> HIDE DEF one, two, first, second
<1> QED
  BY <1>1, <1>2, <1>3, <1>4

\* Every payload that npq_seal takes is sealed as SP 800-232 defines, and
\* opens again: for every key, nonce, header and payload, of whatever length.
THEOREM FirmwareAeadExact ==
    ASSUME NEW k, NEW nonce, NEW D, NEW data \in Seq(D), data # <<>>, NEW U, NEW m \in Seq(U)
    PROVE  AeadExactFor(k, nonce, data, m)
<1> DEFINE sealed == c0_ascon_aead128_encrypt(<<>>, k, nonce, data, m)
           standard == NistEncrypt(sealed.table, k, nonce, data, m)
           answer == c0_ascon_aead128_decrypt(sealed.table, k, nonce, data,
                                              sealed.ciphertext, sealed.tag)
<1>1. sealed = c0_ascon_aead128_encrypt(<<>>, k, nonce, data, m)
  OBVIOUS
<1>2. AeadExactFor(k, nonce, data, m)
        <=> /\ sealed.ciphertext = standard.ciphertext /\ sealed.tag = standard.tag
            /\ answer = [status |-> "OK", plaintext |-> m]
  BY Zenon DEF AeadExactFor, npq_ascon_aead128_encrypt, npq_ascon_aead128_decrypt
<1> HIDE DEF sealed
<1>3. standard = [ciphertext |-> sealed.ciphertext, tag |-> sealed.tag]
  BY <1>1, EncryptIsNist
<1>4. answer = [status |-> "OK", plaintext |-> m]
  BY <1>1, DecryptInverts
<1> HIDE DEF standard, answer
<1>5. sealed.ciphertext = standard.ciphertext /\ sealed.tag = standard.tag
  BY <1>3
<1> QED
  BY <1>2, <1>4, <1>5
=============================================================================
