---------------------------- MODULE BridgeRecords ---------------------------
(***************************************************************************)
(* What the hook bridge and the daemon exchange: capture sequences and the *)
(* records that stand for them (protocol/models.py).                       *)
(***************************************************************************)
EXTENDS Naturals, FiniteSets, Sequences

CONSTANTS
    Instance,        \* bridge_instance_id values
    Conn,            \* connection nonces of live protocol connections
    NoConn,          \* SQL NULL in bridge_stream.connected_nonce
    MaxCaptureSeq    \* MAX_CAPTURE_SEQUENCE

ASSUME ConnAssumption == NoConn \notin Conn
ASSUME MaxCaptureAssumption == MaxCaptureSeq \in Nat \ {0}

CaptureSeq == 1 .. MaxCaptureSeq

Observation(n) == [kind |-> "observation", first |-> n, last |-> n]

\* An exact gap: the captures from m to n happened, their payload is dropped.
Gap(m, n) == [kind |-> "gap", first |-> m, last |-> n]

GapRecord ==
    {r \in [kind : {"gap"}, first : CaptureSeq, last : CaptureSeq] : r.first <= r.last}

Record == {Observation(n) : n \in CaptureSeq} \cup GapRecord

Covers(r) == r.first .. r.last

=============================================================================
