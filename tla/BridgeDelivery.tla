--------------------------- MODULE BridgeDelivery ---------------------------
(***************************************************************************)
(* The hook bridge, the protocol connections and the durable streams put   *)
(* together: what a plugin process and a daemon do to each other through a *)
(* loopback socket that can break at any byte, with a daemon that can die  *)
(* and come back and a maintenance pass that abandons silent streams.      *)
(***************************************************************************)
EXTENDS HookBridge, BridgeStream

CONSTANTS
    MaxFaults        \* bound of the model on transport faults and daemon crashes

ASSUME FaultAssumption == MaxFaults \in Nat

VARIABLES
    conn,            \* the connections: what is in flight, what is bound
    up,              \* a daemon process is serving
    faults           \* faults so far

vars == <<bridgeVars, streamVars, conn, up, faults>>

NoRequest == [op |-> "none"]
NoReply == [code |-> "none", next |-> 0]

Operation == {"attach", "frame", "commit", "close", "recover"}
Code == {"ok", "bridge_clean_closed", "bridge_abandoned", "bridge_closed", "invalid_binding",
         "idempotency_conflict", "capture_gap_required", "capture_sequence_error"}

RequestType == [op : Operation, inst : Instance, rec : Record \cup {NoRecord},
                final : 0 .. MaxCaptureSeq] \cup {NoRequest}

ReplyType == [code : Code \cup {"none"}, next : 0 .. (MaxCaptureSeq + 1)]

(***************************************************************************)
(* phase  free: not in use; open: both ends hold it; eof: the client has   *)
(*        closed its end and the daemon has not noticed; dead: the daemon  *)
(*        process is gone and the client has not noticed.                  *)
(* bound  the streams attached through it (ProtocolConnection._bindings).  *)
(* req    the request sent and not yet dispatched, rep the answer not yet  *)
(*        read: DaemonClient.call keeps at most one of them in flight.     *)
(***************************************************************************)
ConnType == [phase : {"free", "open", "eof", "dead"}, bound : SUBSET Instance,
             req : RequestType, rep : ReplyType]

TypeInvariant ==
    /\ BridgeTypeOK /\ TypeOK
    /\ conn \in [Conn -> ConnType]
    /\ up \in BOOLEAN
    /\ faults \in 0 .. MaxFaults

FreeConn == [phase |-> "free", bound |-> {}, req |-> NoRequest, rep |-> NoReply]

Init ==
    /\ BridgeInit /\ StreamInit
    /\ conn = [c \in Conn |-> FreeConn]
    /\ up = TRUE
    /\ faults = 0

-----------------------------------------------------------------------------
(* The worker's calls *)

Request(op) ==
    [op |-> op, inst |-> inst,
     rec |-> IF op = "commit" THEN retained ELSE NoRecord,
     final |-> IF op \in {"close", "recover"} THEN finalCap ELSE 0]

Send(c, op) == conn' = [conn EXCEPT ![c].req = Request(op), ![c].rep = NoReply]

\* DaemonClient.connect, then brain.attach for the current instance.
Connect ==
    /\ pc = "connect" /\ up
    /\ \E c \in Conn :
         /\ conn[c].phase = "free"
         /\ conn' = [conn EXCEPT ![c] =
                       [phase |-> "open", bound |-> {}, req |-> Request("attach"),
                        rep |-> NoReply]]
         /\ link' = c /\ pc' = "attaching"
    /\ UNCHANGED <<inst, captureVars, head, retained, attempted, closeVars, health, goal,
                   streamVars, up, faults>>

\* No daemon answers the discovery record.
ConnectRefused ==
    /\ pc = "connect" /\ ~up
    /\ CallFailed
    /\ UNCHANGED <<streamVars, conn, up, faults>>

Call(at, op, then) ==
    /\ pc = at
    /\ IF conn[link].phase = "open" THEN Send(link, op) ELSE UNCHANGED conn
    /\ attempted' = (attempted \/ op = "commit")
    /\ Go(then)
    /\ UNCHANGED <<inst, captureVars, head, retained, closeVars, health, streamVars, up, faults>>

CallNext ==
    \/ Call("frame", "frame", "framing")
    \/ Call("commit", "commit", "committing")
    \/ Call("close", "close", "closing")

\* The client end is closed; what was in flight may still reach the daemon.
HangUp(c) ==
    conn' = [conn EXCEPT ![c] = IF @.phase = "dead"
                                THEN FreeConn
                                ELSE [@ EXCEPT !.phase = "eof", !.rep = NoReply]]

Answer == conn[link].rep

Consume == conn' = [conn EXCEPT ![link].rep = NoReply]

Unused(i) == i # inst /\ stream[i].status = "absent"

\* Mutant: a clean close whose answer was lost is not recovered.
RpcFailedNoRecovery ==
    \/ /\ Answer.code = "bridge_abandoned" /\ pc \in {"attaching", "framing", "committing"}
       /\ \E fresh \in Instance : Unused(fresh) /\ Rotate(fresh)
       /\ HangUp(link)
    \/ /\ ~(Answer.code = "bridge_abandoned" /\ pc \in {"attaching", "framing", "committing"})
       /\ CallFailed
       /\ HangUp(link)

\* The handlers of `except DaemonRpcError`.
RpcFailed ==
    \/ /\ Answer.code = "bridge_abandoned" /\ pc \in {"attaching", "framing", "committing"}
       /\ \E fresh \in Instance : Unused(fresh) /\ Rotate(fresh)
       /\ HangUp(link)
    \/ /\ pc = "attaching" /\ Answer.code = "bridge_clean_closed" /\ closing /\ sealed
       /\ Send(link, "recover")
       /\ Go("recovering")
       /\ UNCHANGED <<inst, captureVars, head, retained, attempted, closeVars, health>>
    \/ /\ ~(Answer.code = "bridge_abandoned" /\ pc \in {"attaching", "framing", "committing"})
       /\ ~(pc = "attaching" /\ Answer.code = "bridge_clean_closed" /\ closing /\ sealed)
       /\ CallFailed
       /\ HangUp(link)

ReadAnswer ==
    /\ pc \in Waiting
    /\ Answer # NoReply
    /\ IF Answer.code # "ok" THEN RpcFailed
       ELSE \/ /\ pc = "attaching" /\ CursorBinds(Answer.next)
               /\ AttachAccepted(Answer.next) /\ Consume
            \/ /\ pc = "attaching" /\ ~CursorBinds(Answer.next)
               /\ CallFailed /\ HangUp(link)
            \/ pc = "framing" /\ FrameAccepted /\ Consume
            \/ pc = "committing" /\ CommitAccepted /\ Consume
            \/ pc \in {"closing", "recovering"} /\ CloseAccepted /\ HangUp(link)
    /\ UNCHANGED <<streamVars, up, faults>>

\* The call times out or the socket fails under it.
TransportFails ==
    /\ pc \in Waiting
    /\ conn[link].phase = "open"
    /\ faults < MaxFaults /\ faults' = faults + 1
    /\ CallFailed /\ HangUp(link)
    /\ UNCHANGED <<streamVars, up>>

\* The daemon at the other end is gone.
PeerGone ==
    /\ pc \in Waiting
    /\ conn[link].phase = "dead"
    /\ CallFailed /\ HangUp(link)
    /\ UNCHANGED <<streamVars, up, faults>>

Finish ==
    /\ Stop
    /\ IF link = NoConn THEN UNCHANGED conn ELSE HangUp(link)
    /\ UNCHANGED <<streamVars, up, faults>>

WorkerNext ==
    \/ LocalNext /\ UNCHANGED <<streamVars, conn, up, faults>>
    \/ Connect \/ ConnectRefused \/ CallNext \/ ReadAnswer \/ PeerGone \/ Finish

-----------------------------------------------------------------------------
(* The daemon's side of a connection *)

Reply(c, code, next, bound) ==
    conn' = [conn EXCEPT ![c].req = NoRequest, ![c].bound = bound,
                         ![c].rep = IF conn[c].phase = "open"
                                    THEN [code |-> code, next |-> next] ELSE NoReply]

ServeAttach(c, i) ==
    LET code == AttachCode(i, c)
    IN IF code = "ok"
       THEN Attach(i, c) /\ Reply(c, "ok", stream[i].next, conn[c].bound \cup {i})
       ELSE Reply(c, code, 0, conn[c].bound) /\ UNCHANGED streamVars

ServeFrame(c, i) ==
    /\ Reply(c, IF stream[i].nonce = c THEN "ok" ELSE "invalid_binding", 0, conn[c].bound)
    /\ UNCHANGED streamVars

\* A record that is already committed gets the stored acknowledgement.
ServeCommit(c, i, r) ==
    LET code == CommitCode(i, c, r)
    IN /\ Reply(c, IF code = "duplicate" THEN "ok" ELSE code, 0, conn[c].bound)
       /\ IF code = "ok" THEN Commit(i, c, r) ELSE UNCHANGED streamVars

ServeClose(c, i, final) ==
    LET code == CloseCode(i, c, final)
    IN /\ Reply(c, code, 0, conn[c].bound)
       /\ IF code = "ok" THEN CloseStream(i, c, final) ELSE UNCHANGED streamVars

ServeRecover(c, i, final) ==
    Reply(c, RecoverCode(i, final), 0, conn[c].bound) /\ UNCHANGED streamVars

\* One frame of one connection, dispatched to the end; a client that has hung
\* up meanwhile does not stop it.
Serve(c) ==
    LET req == conn[c].req
    IN /\ up /\ conn[c].phase \in {"open", "eof"}
       /\ \/ req.op = "attach" /\ ServeAttach(c, req.inst)
          \/ req.op = "frame" /\ ServeFrame(c, req.inst)
          \/ req.op = "commit" /\ ServeCommit(c, req.inst, req.rec)
          \/ req.op = "close" /\ ServeClose(c, req.inst, req.final)
          \/ req.op = "recover" /\ ServeRecover(c, req.inst, req.final)
       /\ UNCHANGED <<bridgeVars, up, faults>>

\* ProtocolConnection.close after the end of the stream of bytes; a request
\* the socket lost is never dispatched.
ServeEof(c) ==
    /\ up /\ conn[c].phase = "eof"
    /\ conn' = [conn EXCEPT ![c] = FreeConn]
    /\ IF \E i \in conn[c].bound : stream[i].nonce = c
       THEN \E i \in conn[c].bound : Disconnect(i, c)
       ELSE UNCHANGED streamVars
    /\ UNCHANGED <<bridgeVars, up, faults>>

\* The daemon dies between two transactions.
Crash ==
    /\ up /\ up' = FALSE
    /\ faults < MaxFaults /\ faults' = faults + 1
    /\ conn' = [c \in Conn |-> IF conn[c].phase = "open"
                               THEN [FreeConn EXCEPT !.phase = "dead", !.rep = conn[c].rep]
                               ELSE IF conn[c].phase = "dead" THEN conn[c] ELSE FreeConn]
    /\ UNCHANGED <<bridgeVars, streamVars>>

Reopen ==
    /\ ~up /\ up' = TRUE
    /\ Restart
    /\ UNCHANGED <<bridgeVars, conn, faults>>

\* Only a detached stream can be found silent: attaching and detaching both
\* write last_seen.  Bound of the model: the last identity is never
\* abandoned, so the worker always has a fresh one to go on with.
Maintain ==
    /\ up
    /\ \/ \E elapsed \in SUBSET {i \in Instance : Detached(i)} : StartPass(elapsed)
       \/ \E i \in Instance :
             AbandonCandidate(i) /\ (Detached(i) => \E j \in Instance : Unused(j))
    /\ UNCHANGED <<bridgeVars, conn, up, faults>>

-----------------------------------------------------------------------------
ServerNext == (\E c \in Conn : Serve(c) \/ ServeEof(c)) \/ Reopen

Next ==
    \/ CallbackNext /\ UNCHANGED <<streamVars, conn, up, faults>>
    \/ WorkerNext
    \/ TransportFails
    \/ ServerNext
    \/ Crash
    \/ Maintain

Spec == Init /\ [][Next]_vars

(***************************************************************************)
(* The worker thread keeps running, the event loop serves every connection *)
(* and notices every end of stream, and the supervisor starts a daemon     *)
(* again.  Callbacks, faults and maintenance passes owe nothing.           *)
(***************************************************************************)
Fairness ==
    /\ WF_vars(WorkerNext)
    /\ WF_vars(Reopen)
    /\ \A c \in Conn : WF_vars(Serve(c)) /\ WF_vars(ServeEof(c))

FairSpec == Spec /\ Fairness

-----------------------------------------------------------------------------
(* Safety *)

InQueue == {queue[k] : k \in DOMAIN queue}
InHead == {head} \ {0}
InGaps == UNION {Covers(gaps[k]) : k \in DOMAIN gaps}
InHand == IF retained = NoRecord THEN {} ELSE Covers(retained)
Committed(i) == 1 .. (stream[i].next - 1)

\* Every capture reserved for the current stream is in exactly one place of
\* the bridge or in the daemon's ledger.  Only a record whose answer is
\* missing may be in both, and then the ledger has all of it.
CapturesAccounted ==
    /\ InQueue \cup InHead \cup InGaps \cup InHand \cup Committed(inst) = 1 .. (nextCap - 1)
    /\ Len(queue) = Cardinality(InQueue)
    /\ InQueue \cap (InHead \cup InGaps \cup InHand) = {}
    /\ InHead \cap (InGaps \cup InHand) = {}
    /\ InGaps \cap InHand = {}
    /\ (InQueue \cup InHead \cup InGaps) \cap Committed(inst) = {}
    /\ InHand \cap Committed(inst) # {} => attempted /\ retained \in rows[inst]

Reserved == {p \in Instance \X CaptureSeq : p[2] <= Len(captured[p[1]])}
IsCommitted(p) == p[2] \in Committed(p[1])
IsLocal(p) == p[1] = inst /\ p[2] \in InQueue \cup InHead \cup InHand

LostObservations ==
    {p \in Reserved : captured[p[1]][p[2]] = "observation" /\ ~IsCommitted(p) /\ ~IsLocal(p)}

GapCaptures == {p \in Reserved : captured[p[1]][p[2]] = "gap"}

\* dropped_events hides no loss: over any number of rotations, restarts and
\* lost answers it counts every capture whose payload is gone, and it exceeds
\* them by no more than ambiguous_records.
NoSilentLoss ==
    LET lost == Cardinality(LostObservations) + Cardinality(GapCaptures) + health.late
    IN lost <= health.dropped /\ health.dropped <= lost + health.ambiguous

\* The rotation audit brackets the truth: of the captures it gives up, the
\* ambiguous ones may be in the ledger and all others are not.
AbandonmentAudit ==
    LET unsent == Cardinality({p \in Reserved : p[1] # inst /\ ~IsCommitted(p)})
    IN /\ unsent <= health.abandoned
       /\ health.abandoned <= unsent + health.ambiguous

\* A clean close certifies every capture the stream accepted, and a worker
\* stops for good only behind such a close.
CloseIsComplete ==
    /\ \A i \in Instance :
         stream[i].status = "clean_closed" => stream[i].final = Len(captured[i])
    /\ stopped => stream[inst].status = "clean_closed"

\* The record in hand precedes every other local capture, so that the ledger
\* can take it: a queue overflow is reported before the captures after it,
\* and after the captures before it.
RetainedIsOldest ==
    retained # NoRecord =>
      \A n \in InQueue \cup InHead \cup InGaps : retained.first < n

-----------------------------------------------------------------------------
(* Liveness.  Faults are finitely many, and so are captures. *)

\* Once callbacks stop, every capture of the current stream is committed, if
\* the worker never takes records out of order (see RetainedIsOldest).
EverythingDelivered ==
    []RetainedIsOldest => <>[](stream[inst].next = nextCap)

\* A requested close completes, through lost answers, crashes and rotations,
\* under the same condition.
CloseCompletes ==
    []RetainedIsOldest => (closing ~> (pc = "done" /\ stream[inst].status = "clean_closed"))

\* A capture dropped by a full queue reaches the ledger as a gap, unless its
\* stream is abandoned first.
OverflowIsReported ==
    \A i \in Instance, n \in CaptureSeq :
      (n <= Len(captured[i]) /\ captured[i][n] = "gap")
        ~> (n \in Committed(i) \/ stream[i].status = "abandoned")

-----------------------------------------------------------------------------
(* The bridge implements a log that is delivered in order, exactly once. *)

KindAt(i, n) == (CHOOSE r \in rows[i] : n \in Covers(r)).kind

Log == INSTANCE BridgeLog WITH
         accepted <- captured,
         ledger <- [i \in Instance |-> [n \in Committed(i) |-> KindAt(i, n)]],
         fate <- [i \in Instance |-> IF Terminal(i) THEN stream[i].status ELSE "live"]

\* Plugin and daemon together deliver each stream like an abstract log: in order,
\* exactly once, unaltered, and closed or abandoned for good.
LogSpec == Log!Spec

\* Every step of the composition is one the store offers, so what is proved
\* of BridgeStream for arbitrary clients holds here.
StoreSpec == StreamSpec
=============================================================================
