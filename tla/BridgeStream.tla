---------------------------- MODULE BridgeStream ----------------------------
(***************************************************************************)
(* The durable side of a Hermes bridge stream: the tables bridge_stream,   *)
(* bridge_record and events of the SQLite store, as the daemon's protocol  *)
(* connections and its maintenance task change them.  Every action is one  *)
(* IMMEDIATE transaction of runtime/store.py.                              *)
(*                                                                         *)
(* The module is an open system: any connection may ask for any operation  *)
(* on any stream, with any record.  BridgeDelivery composes it with the    *)
(* one client that the plugin really runs.                                 *)
(***************************************************************************)
EXTENDS BridgeRecords

VARIABLES
    stream,      \* bridge_stream: one row per bridge instance
    rows,        \* bridge_record: the committed records of each instance
    events,      \* the raw bridge events of the brain's ledger, in order
    lapsed,      \* streams with last_seen at or before the pass's cutoff
    candidates   \* what list_abandonable_bridge_streams gave the running pass

streamVars == <<stream, rows, events, lapsed, candidates>>

Status == {"absent", "open", "clean_closed", "abandoned"}

StreamType == [status : Status, next : 1 .. (MaxCaptureSeq + 1),
               nonce : Conn \cup {NoConn}, final : 0 .. MaxCaptureSeq]

RawEvent(i, r) == [inst |-> i, kind |-> r.kind, first |-> r.first, last |-> r.last]

\* The trace.gap of an abandonment: it starts at the cursor and its end is
\* unknown (last_capture_seq None, here 0).
UnknownGap(i) ==
    [inst |-> i, kind |-> "abandoned_unknown", first |-> stream[i].next, last |-> 0]

EventType == [inst : Instance, kind : {"observation", "gap", "abandoned_unknown"},
              first : 1 .. (MaxCaptureSeq + 1), last : 0 .. MaxCaptureSeq]

TypeOK ==
    /\ stream \in [Instance -> StreamType]
    /\ rows \in [Instance -> SUBSET Record]
    /\ events \in Seq(EventType)
    /\ lapsed \in SUBSET Instance
    /\ candidates \in SUBSET Instance

StreamInit ==
    /\ stream = [i \in Instance |->
                   [status |-> "absent", next |-> 1, nonce |-> NoConn, final |-> 0]]
    /\ rows = [i \in Instance |-> {}]
    /\ events = << >>
    /\ lapsed = {}
    /\ candidates = {}

\* Every operation that writes last_seen puts the stream after the cutoff.
Touch(i) == lapsed' = lapsed \ {i}

-----------------------------------------------------------------------------
(* brain.attach *)

AttachCode(i, c) ==
    CASE stream[i].status = "clean_closed" -> "bridge_clean_closed"
      [] stream[i].status = "abandoned"    -> "bridge_abandoned"
      [] stream[i].nonce \notin {NoConn, c} -> "invalid_binding"
      [] OTHER -> "ok"

Attach(i, c) ==
    /\ AttachCode(i, c) = "ok"
    /\ stream' = [stream EXCEPT ![i].status = "open", ![i].nonce = c]
    /\ Touch(i)
    /\ UNCHANGED <<rows, events, candidates>>

-----------------------------------------------------------------------------
(* bridge.commit *)

\* Mutant: the cursor is not compared with the record.
CommitCodeUnordered(i, c, r) ==
    CASE stream[i].status # "open" -> "bridge_closed"
      [] stream[i].nonce # c       -> "invalid_binding"
      [] r \in rows[i]             -> "duplicate"
      [] \E old \in rows[i] : old.first = r.first -> "idempotency_conflict"
      [] OTHER -> "ok"

CommitCode(i, c, r) ==
    CASE stream[i].status # "open" -> "bridge_closed"
      [] stream[i].nonce # c       -> "invalid_binding"
      [] r \in rows[i]             -> "duplicate"
      [] \E old \in rows[i] : old.first = r.first -> "idempotency_conflict"
      [] r.first > stream[i].next /\ r.kind = "observation" -> "capture_gap_required"
      [] r.first # stream[i].next  -> "capture_sequence_error"
      [] OTHER -> "ok"

\* The raw event, the record and the cursor move in one transaction.
Commit(i, c, r) ==
    /\ CommitCode(i, c, r) = "ok"
    /\ rows' = [rows EXCEPT ![i] = @ \cup {r}]
    /\ events' = Append(events, RawEvent(i, r))
    /\ stream' = [stream EXCEPT ![i].next = r.last + 1]
    /\ Touch(i)
    /\ UNCHANGED candidates

-----------------------------------------------------------------------------
(* bridge.close, bridge.close.recover and the end of a connection *)

CloseCode(i, c, final) ==
    CASE stream[i].nonce # c -> "invalid_binding"
      [] stream[i].status # "open" -> "bridge_closed"
      [] final # stream[i].next - 1 -> "capture_sequence_error"
      [] OTHER -> "ok"

CloseStream(i, c, final) ==
    /\ CloseCode(i, c, final) = "ok"
    /\ stream' = [stream EXCEPT ![i].status = "clean_closed", ![i].nonce = NoConn,
                                ![i].final = final]
    /\ Touch(i)
    /\ UNCHANGED <<rows, events, candidates>>

\* Read-only: the receipt of a clean close, for a client that lost the answer.
RecoverCode(i, final) ==
    CASE stream[i].status # "clean_closed" -> "bridge_closed"
      [] stream[i].final # final -> "capture_sequence_error"
      [] OTHER -> "ok"

\* Only the connection the stream is attached to can detach it.
Disconnect(i, c) ==
    /\ stream[i].nonce = c
    /\ stream' = [stream EXCEPT ![i].nonce = NoConn]
    /\ Touch(i)
    /\ UNCHANGED <<rows, events, candidates>>

-----------------------------------------------------------------------------
(* The maintenance pass and the restart of the daemon *)

Detached(i) == stream[i].status = "open" /\ stream[i].nonce = NoConn

\* A pass fixes its cutoff and reads its candidates once; the streams in
\* `elapsed` have been silent for the whole grace at that instant.
StartPass(elapsed) ==
    /\ candidates = {}
    /\ lapsed' = lapsed \cup elapsed
    /\ candidates' = {i \in lapsed \cup elapsed : Detached(i)}
    /\ UNCHANGED <<stream, rows, events>>

\* Mutant: the pass trusts its list.
AbandonWithoutRecheck(i) ==
    /\ i \in candidates
    /\ candidates' = candidates \ {i}
    /\ stream' = [stream EXCEPT ![i].status = "abandoned", ![i].nonce = NoConn]
    /\ events' = Append(events, UnknownGap(i))
    /\ Touch(i)
    /\ UNCHANGED rows

\* The next candidate of the pass: the transaction re-checks what the list
\* was read from, because a reconnect or a close may have won since.
AbandonCandidate(i) ==
    /\ i \in candidates
    /\ candidates' = candidates \ {i}
    /\ IF Detached(i) /\ i \in lapsed
       THEN /\ stream' = [stream EXCEPT ![i].status = "abandoned"]
            /\ events' = Append(events, UnknownGap(i))
            /\ Touch(i)
       ELSE UNCHANGED <<stream, events, lapsed>>
    /\ UNCHANGED rows

\* The daemon stops at any instant and a new process opens the store: its
\* connections are gone, every open stream is detached with a fresh grace.
Restart ==
    /\ stream' = [i \in Instance |->
                    IF stream[i].status = "open" THEN [stream[i] EXCEPT !.nonce = NoConn]
                                                 ELSE stream[i]]
    /\ lapsed' = lapsed \ {i \in Instance : stream[i].status = "open"}
    /\ candidates' = {}
    /\ UNCHANGED <<rows, events>>

-----------------------------------------------------------------------------
StreamNext ==
    \/ \E i \in Instance, c \in Conn :
          \/ Attach(i, c)
          \/ Disconnect(i, c)
          \/ \E r \in Record : Commit(i, c, r)
          \/ \E final \in 0 .. MaxCaptureSeq : CloseStream(i, c, final)
    \/ \E elapsed \in SUBSET Instance : StartPass(elapsed)
    \/ \E i \in Instance : AbandonCandidate(i)
    \/ Restart

StreamSpec == StreamInit /\ [][StreamNext]_streamVars

-----------------------------------------------------------------------------
(* What the store must guarantee whoever calls it *)

Tiles(T, next) ==
    /\ \A n \in 1 .. (next - 1) : \E r \in T : n \in Covers(r)
    /\ \A r \in T : r.last < next
    /\ \A r, s \in T : r.first <= s.last /\ s.first <= r.last => r = s

\* The committed records of a stream cover the captures before its cursor,
\* each by exactly one record, and nothing at or after the cursor: a record
\* skipped, applied twice or applied out of order breaks it.
RowsTileCursor == \A i \in Instance : Tiles(rows[i], stream[i].next)

\* A clean close is final and exact: it certifies the whole cursor, and no
\* terminal stream is attached to a connection.
TerminalReceipt ==
    \A i \in Instance :
      /\ stream[i].status = "clean_closed" => stream[i].final = stream[i].next - 1
      /\ stream[i].status # "open" => stream[i].nonce = NoConn

Terminal(i) == stream[i].status \in {"clean_closed", "abandoned"}

\* Nothing reopens, extends or rewrites a stream that was closed or
\* abandoned: not a late commit, a late disconnect, a pass or a restart.
TerminalIsFrozen ==
    [][\A i \in Instance : Terminal(i) =>
         stream'[i] = stream[i] /\ rows'[i] = rows[i]]_streamVars

\* Committed history only grows: a cursor never moves back, a committed
\* record is never replaced, and the ledger is only appended to.
HistoryOnlyGrows ==
    [][/\ \A i \in Instance : stream[i].next <= stream'[i].next /\ rows[i] \subseteq rows'[i]
       /\ Len(events) <= Len(events')
       /\ SubSeq(events', 1, Len(events)) = events]_streamVars

=============================================================================
