----------------------------- MODULE HookBridge -----------------------------
(***************************************************************************)
(* The plugin side of a bridge: HookBridge in hermes/bridge.py.  Hermes    *)
(* callbacks reserve capture sequences under the capture lock and never    *)
(* wait; one worker thread owns the transport and delivers the records.    *)
(*                                                                         *)
(* An action is what one thread does between two points where another can  *)
(* run: a section under the capture lock, or an atomic queue operation.    *)
(* What the worker does with an answer of the daemon is an operator on the *)
(* answer; BridgeDelivery supplies the transport and the daemon.           *)
(***************************************************************************)
EXTENDS BridgeRecords, FiniteSetsExt

CONSTANTS
    QueueCapacity,   \* queue_capacity of the observation queue
    MaxLate          \* bound of the model on captures after the close seal

ASSUME QueueAssumption == QueueCapacity \in Nat \ {0}
ASSUME LateAssumption == MaxLate \in Nat

VARIABLES
    inst,            \* _bridge_instance_id
    nextCap,         \* _next_capture_seq
    queue,           \* queue.Queue: capture sequences of the observations
    gaps,            \* _gap_spans
    head,            \* _queue_head (0: None)
    retained,        \* _retained
    attempted,       \* _retained_attempted
    closing,         \* _close_requested
    sealed,          \* _close_sealed
    finalCap,        \* _close_final_capture_seq (meaningful when sealed)
    stopped,         \* _stop_requested
    everCaptured,    \* _ever_had_capture
    health,          \* the counters of BridgeHealth the properties speak of
    captured,        \* history: what each reserved capture became, by instance
    pc,              \* where the worker is
    goal,            \* what the worker does once it is connected
    link             \* the connection the worker holds (NoConn: none)

captureVars == <<nextCap, queue, gaps, everCaptured, captured>>
closeVars == <<closing, sealed, finalCap, stopped>>
workerVars == <<pc, goal, link>>
bridgeVars == <<inst, captureVars, head, retained, attempted, closeVars, health, workerVars>>

NoRecord == [kind |-> "none", first |-> 0, last |-> 0]

Waiting == {"attaching", "framing", "committing", "closing", "recovering"}
WorkerStep == {"select", "gaps", "claim", "deliver", "idle", "connect", "commit",
               "frame", "close", "recover", "done"} \cup Waiting

HealthType == [last : 0 .. MaxCaptureSeq, dropped : Nat, late : Nat,
               abandoned : Nat, ambiguous : Nat]

BridgeTypeOK ==
    /\ inst \in Instance
    /\ nextCap \in 1 .. (MaxCaptureSeq + 1)
    /\ queue \in Seq(CaptureSeq) /\ Len(queue) <= QueueCapacity
    /\ gaps \in Seq(GapRecord)
    /\ head \in 0 .. MaxCaptureSeq
    /\ retained \in Record \cup {NoRecord}
    /\ {attempted, closing, sealed, stopped, everCaptured} \subseteq BOOLEAN
    /\ finalCap \in 0 .. MaxCaptureSeq
    /\ health \in HealthType
    /\ captured \in [Instance -> Seq({"observation", "gap"})]
    /\ pc \in WorkerStep
    /\ goal \in {"select", "commit", "close"}
    /\ link \in Conn \cup {NoConn}

BridgeInit ==
    /\ inst \in Instance
    /\ nextCap = 1 /\ queue = << >> /\ gaps = << >> /\ everCaptured = FALSE
    /\ head = 0 /\ retained = NoRecord /\ attempted = FALSE
    /\ closing = FALSE /\ sealed = FALSE /\ finalCap = 0 /\ stopped = FALSE
    /\ health = [last |-> 0, dropped |-> 0, late |-> 0, abandoned |-> 0, ambiguous |-> 0]
    /\ captured = [i \in Instance |-> << >>]
    /\ pc = "select" /\ goal = "select" /\ link = NoConn

-----------------------------------------------------------------------------
(* Callbacks: capture *)

\* Mutant: the close seal does not stop captures.
ReserveAfterSeal(kind) ==
    /\ nextCap <= MaxCaptureSeq
    /\ nextCap' = nextCap + 1
    /\ everCaptured' = TRUE
    /\ captured' = [captured EXCEPT ![inst] = Append(@, kind)]

Reserve(kind) ==
    /\ ~sealed
    /\ nextCap <= MaxCaptureSeq
    /\ nextCap' = nextCap + 1
    /\ everCaptured' = TRUE
    /\ captured' = [captured EXCEPT ![inst] = Append(@, kind)]

\* A gap right after the last published span extends it.
GapsWith(n) ==
    LET k == Len(gaps)
    IN IF k > 0 /\ gaps[k].last + 1 = n
       THEN [gaps EXCEPT ![k].last = n]
       ELSE Append(gaps, Gap(n, n))

PublishGap ==
    /\ Reserve("gap")
    /\ gaps' = GapsWith(nextCap)
    /\ health' = [health EXCEPT !.last = nextCap, !.dropped = @ + 1]
    /\ UNCHANGED queue

PublishObservation ==
    /\ Reserve("observation")
    /\ queue' = Append(queue, nextCap)
    /\ health' = [health EXCEPT !.last = nextCap]
    /\ UNCHANGED gaps

\* A full queue turns the observation into an exact gap; put_nowait and the
\* worker's get_nowait exclude each other.
Capture ==
    /\ IF Len(queue) < QueueCapacity THEN PublishObservation ELSE PublishGap
    /\ UNCHANGED <<inst, head, retained, attempted, closeVars, workerVars>>

\* The host's schema is unknown or the payload cannot be shaped.
CaptureInvalid ==
    /\ PublishGap
    /\ UNCHANGED <<inst, head, retained, attempted, closeVars, workerVars>>

\* After the close seal a capture is only counted.
CaptureLate ==
    /\ sealed
    /\ health.late < MaxLate
    /\ health' = [health EXCEPT !.dropped = @ + 1, !.late = @ + 1]
    /\ UNCHANGED <<inst, captureVars, head, retained, attempted, closeVars, workerVars>>

RequestClose ==
    /\ ~closing
    /\ closing' = TRUE
    /\ UNCHANGED <<inst, captureVars, head, retained, attempted, sealed, finalCap, stopped,
                   health, workerVars>>

-----------------------------------------------------------------------------
(* The worker chooses its next record *)

Go(step) == pc' = step /\ UNCHANGED <<goal, link>>

\* queue.get_nowait, outside the capture lock.
SelectHead ==
    /\ pc = "select" /\ ~stopped
    /\ IF retained # NoRecord
       THEN Go("deliver") /\ UNCHANGED <<queue, head>>
       ELSE /\ Go("gaps")
            /\ IF head = 0 /\ queue # << >>
               THEN head' = Head(queue) /\ queue' = Tail(queue)
               ELSE UNCHANGED <<queue, head>>
    /\ UNCHANGED <<inst, nextCap, gaps, everCaptured, captured, retained, attempted,
                   closeVars, health>>

GapComesFirst == gaps # << >> /\ (head = 0 \/ Head(gaps).first < head)

\* The first gap is read in one section under the capture lock ...
ReadFirstGap ==
    /\ pc = "gaps"
    /\ CASE GapComesFirst -> Go("claim") /\ UNCHANGED <<head, retained>>
         [] ~GapComesFirst /\ head # 0 ->
               retained' = Observation(head) /\ head' = 0 /\ Go("deliver")
         [] OTHER -> Go("idle") /\ UNCHANGED <<head, retained>>
    /\ UNCHANGED <<inst, captureVars, attempted, closeVars, health>>

\* ... and claimed in another, perhaps longer than it was read.
ClaimFirstGap ==
    /\ pc = "claim"
    /\ retained' = Head(gaps)
    /\ gaps' = Tail(gaps)
    /\ Go("deliver")
    /\ UNCHANGED <<inst, nextCap, queue, everCaptured, captured, head, attempted,
                   closeVars, health>>

Deliver ==
    /\ pc = "deliver"
    /\ IF link = NoConn THEN pc' = "connect" /\ goal' = "commit" /\ UNCHANGED link
                        ELSE Go("commit")
    /\ UNCHANGED <<inst, captureVars, head, retained, attempted, closeVars, health>>

NothingPending ==
    gaps = << >> /\ retained = NoRecord /\ head = 0 /\ queue = << >>

\* _seal_close_if_ready fixes the last capture of the stream once and for all.
SealAndClose ==
    /\ pc = "idle" /\ closing
    /\ sealed \/ NothingPending
    /\ sealed' = TRUE
    /\ finalCap' = IF sealed THEN finalCap ELSE nextCap - 1
    /\ IF link = NoConn THEN pc' = "connect" /\ goal' = "close" /\ UNCHANGED link
                        ELSE Go("close")
    /\ UNCHANGED <<inst, captureVars, head, retained, attempted, closing, stopped, health>>

\* Nothing to deliver: reconnect, refresh the frame when it is due, or wait.
Idle ==
    /\ pc = "idle"
    /\ ~(closing /\ (sealed \/ NothingPending))
    /\ \/ /\ link = NoConn /\ everCaptured
          /\ pc' = "connect" /\ goal' = "select" /\ UNCHANGED link
       \/ /\ link # NoConn
          /\ pc' = "frame" /\ goal' = "select" /\ UNCHANGED link
       \/ /\ link # NoConn \/ ~everCaptured
          /\ Go("select")
    /\ UNCHANGED <<inst, captureVars, head, retained, attempted, closeVars, health>>

Stop ==
    /\ pc = "select" /\ stopped
    /\ pc' = "done" /\ link' = NoConn
    /\ UNCHANGED <<inst, captureVars, head, retained, attempted, closeVars, health, goal>>

-----------------------------------------------------------------------------
(* What the worker makes of an answer *)

\* Mutant: a record that was applied is not recognised after a lost answer.
CursorBindsUnapplied(next) ==
    /\ next <= health.last + 1
    /\ next = IF retained # NoRecord THEN retained.first ELSE health.last + 1

\* The cursor of brain.attach binds local history: nothing is committed that
\* was not reserved, and the record in hand is next or was just applied.
CursorBinds(next) ==
    /\ next <= health.last + 1
    /\ IF retained # NoRecord
       THEN \/ next = retained.first
            \/ attempted /\ next = retained.last + 1
       ELSE next = health.last + 1

\* A successful attach at the record's first capture proves that no earlier
\* attempt was applied.
AttachAccepted(next) ==
    /\ CursorBinds(next)
    /\ attempted' = (attempted /\ next # retained.first)
    /\ Go("frame")
    /\ UNCHANGED <<inst, captureVars, head, retained, closeVars, health>>

FrameAccepted ==
    /\ pc' = goal
    /\ UNCHANGED <<inst, captureVars, head, retained, attempted, closeVars, health,
                   goal, link>>

CommitAccepted ==
    /\ retained' = NoRecord
    /\ attempted' = FALSE
    /\ Go("select")
    /\ UNCHANGED <<inst, captureVars, head, closeVars, health>>

\* The stream is closed: the worker's loop ends.
CloseAccepted ==
    /\ stopped' = TRUE
    /\ pc' = "select" /\ link' = NoConn
    /\ UNCHANGED <<inst, captureVars, head, retained, attempted, closing, sealed, finalCap,
                   health, goal>>

\* Any other answer, and any failure of the transport: the worker gives the
\* connection up and starts over.
CallFailed ==
    /\ pc' = "select" /\ link' = NoConn
    /\ UNCHANGED <<inst, captureVars, head, retained, attempted, closeVars, health, goal>>

Size(r) == IF r = NoRecord THEN 0 ELSE r.last - r.first + 1

GapCount == MapThenSumSet(LAMBDA k : Size(gaps[k]), DOMAIN gaps)

\* Mutant: the record in hand is forgotten.
PendingUnclaimed == (IF head # 0 THEN 1 ELSE 0) + Len(queue)

PendingObservations ==
    (IF head # 0 THEN 1 ELSE 0) + Len(queue)
    + (IF retained.kind = "observation" THEN 1 ELSE 0)

\* Mutant: the published gaps are forgotten.
SurrenderedClaimed ==
    PendingObservations + (IF retained.kind = "gap" THEN Size(retained) ELSE 0)

\* Everything local belongs to the stream that is lost.
SurrenderedCaptures ==
    PendingObservations + (IF retained.kind = "gap" THEN Size(retained) ELSE 0) + GapCount

\* Mutant: the gaps of the old stream stay.
EmptyAllButGaps ==
    queue' = << >> /\ head' = 0 /\ retained' = NoRecord /\ UNCHANGED gaps

EmptyBuffers ==
    queue' = << >> /\ gaps' = << >> /\ head' = 0 /\ retained' = NoRecord

\* A close that is under way is sealed again for the new stream.
BreakSeal == sealed' = FALSE /\ finalCap' = 0

\* The daemon abandoned the stream: the bridge gives up what is local and
\* goes on under a new identity from capture 1.
Rotate(fresh) ==
    /\ inst' = fresh
    /\ health' = [health EXCEPT
                    !.last = 0,
                    !.dropped = @ + PendingObservations,
                    !.abandoned = @ + SurrenderedCaptures,
                    !.ambiguous = @ + (IF attempted THEN Size(retained) ELSE 0)]
    /\ EmptyBuffers
    /\ attempted' = FALSE
    /\ nextCap' = 1
    /\ BreakSeal
    /\ pc' = "select" /\ link' = NoConn
    /\ UNCHANGED <<everCaptured, captured, closing, stopped, goal>>

CallbackNext == Capture \/ CaptureInvalid \/ CaptureLate \/ RequestClose

\* The steps of the worker that need no transport.
LocalNext == SelectHead \/ ReadFirstGap \/ ClaimFirstGap \/ Deliver \/ SealAndClose \/ Idle

=============================================================================
