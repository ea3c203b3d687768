----------------------------- MODULE NanoDevice -----------------------------
(***************************************************************************)
(* A NanoPQ device from its authorization to its live loop: main calls     *)
(* authorize_post_quantum, and with it the verifier, until a signature is  *)
(* accepted; only then does it open a session and run the live loop.  What *)
(* lies between the two, the persisted state, the epoch and the handshake, *)
(* is NanoBoot's, the serial line during the enrolment NanoEnroll's.       *)
(***************************************************************************)
EXTENDS NanoLink, NanoVerify

DeviceInit == VerifyInit /\ Init /\ wanted = 0 /\ ~tamper_demo

\* The verifier returned OK: the session is established, and the host runs
\* the live demo with the options it was started with.
GoLive ==
    /\ vpc = "done" /\ Accepted
    /\ vpc' = "live" /\ call' = NoCall /\ v' = NoFrame
    /\ wanted' \in {0, 1} /\ tamper_demo' \in BOOLEAN
    /\ UNCHANGED <<verdict, broken, deviceVars, hpc, host, command, line>>

\* The steps of a call of the verifier, while nothing else of the device runs.
Verification ==
    \/ Verify /\ UNCHANGED vars
    \/ ReadRandomizer /\ UNCHANGED vars
    \/ ReadForsSecret /\ UNCHANGED vars
    \/ ReadForsSibling /\ UNCHANGED vars
    \/ ReadWots /\ UNCHANGED vars
    \/ ReadXmssSibling /\ UNCHANGED vars
    \/ ReadQ /\ UNCHANGED vars
    \/ ReadOtsType /\ UNCHANGED vars
    \/ ReadLmsRandomizer /\ UNCHANGED vars
    \/ ReadLmsChain /\ UNCHANGED vars
    \/ ReadLmsType /\ UNCHANGED vars
    \/ ReadLmsSibling /\ UNCHANGED vars
    \/ ReaderFails /\ UNCHANGED vars
    \/ VerifierReturns /\ UNCHANGED vars

DeviceNext ==
    \/ Verification
    \/ GoLive
    \/ vpc = "live" /\ Next /\ UNCHANGED verifyVars

DeviceSpec == DeviceInit /\ [][DeviceNext]_<<vars, verifyVars>>
=============================================================================
