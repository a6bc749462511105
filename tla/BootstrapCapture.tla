--------------------------- MODULE BootstrapCapture ---------------------------
(***************************************************************************)
(* The buffer that every hook callback captures into                       *)
(* (hermes/registration.py), and the worker thread that hands its captures *)
(* over to the bridge (HookBridge.capture_reserved), reserved sequence     *)
(* numbers and all.  A dispatch holds the capture lock from its            *)
(* reservation to its end; the worker takes the lock to choose a capture   *)
(* and to mark it as handed over, and the bridge's lock in between.  Of    *)
(* the bridge only what capture_reserved reads and writes is modelled: its *)
(* input cursor, its last receipt, its seal, and the rotation to a new     *)
(* stream, which starts the cursor over.                                   *)
(***************************************************************************)
EXTENDS Integers, FiniteSets, Sequences, SequencesExt

CONSTANTS
    MaxCapture,      \* _BOOTSTRAP_MAX_CAPTURE_SEQUENCE
    QueueCapacity,
    MaxRotations,    \* bound of the model on abandoned streams
    MaxFaults,       \* bound of the model on exceptions outside the dispatch
    None

ASSUME BootstrapAssumption ==
    /\ MaxCapture \in Nat \ {0} /\ QueueCapacity \in Nat \ {0}
    /\ MaxRotations \in Nat /\ MaxFaults \in Nat

VARIABLES
    next,            \* _next_capture_seq
    buf,             \* _worker_retained, _queue_head, _queue and _overflow
    dispatch,        \* the reservation of the dispatch in progress, or 0
    handed,          \* _handed_off_dropped_events
    health,          \* _BootstrapHealth
    latch,           \* _emergency_trace_incomplete
    worker,          \* the bootstrap thread and the capture it works on
    bridge,          \* the adopted HookBridge
    fate,            \* history: how the buffer disposed of each capture
    taken,           \* history: how the bridge did
    gaps,            \* history: the captures that became gaps
    unseen,          \* history: something failed that no capture stands for
    rotations, faults

bufferVars == <<next, buf, dispatch, handed, health, latch, fate, gaps, unseen>>
vars == <<bufferVars, worker, bridge, taken, rotations, faults>>

Seqs == 1 .. MaxCapture
Item == [first : Seqs, last : Seqs, gap : BOOLEAN]
ASSUME NullAssumption == None \notin Item
Observation(n) == [first |-> n, last |-> n, gap |-> FALSE]
Gap(n) == [first |-> n, last |-> n, gap |-> TRUE]

Count(i) == i.last - i.first + 1
Inside(n, i) == i # None /\ n \in i.first .. i.last
Items(b) == ({b.retained, b.head} \cup ToSet(b.queue) \cup ToSet(b.overflow)) \ {None}

Idle == [up |-> FALSE, pc |-> "choose", capture |-> None, answer |-> "none"]
NewStream(transport) ==
    [transport |-> transport, next |-> 1, receipt |-> None, sealed |-> FALSE, closed |-> FALSE]

BufType == [retained : Item \cup {None}, head : Item \cup {None},
            queue : Seq(Item), overflow : Seq(Item)]
StreamType == [transport : {"none", "stopped", "running"}, next : 1 .. MaxCapture + 1,
               receipt : [item : Item, disposition : {"accepted", "late"}] \cup {None},
               sealed : BOOLEAN, closed : BOOLEAN]

\* Buffer, worker and bridge have their types.
TypeOK ==
    /\ next \in 1 .. MaxCapture + 1
    /\ buf \in BufType
    /\ Len(buf.queue) <= QueueCapacity
    /\ dispatch \in 0 .. MaxCapture /\ handed \in Nat
    /\ health \in [complete : BOOLEAN, dropped : Nat, pending : Nat, late : Nat]
    /\ latch \in BOOLEAN /\ unseen \in BOOLEAN
    /\ worker \in [up : BOOLEAN, pc : {"choose", "offer", "mark"},
                   capture : Item \cup {None}, answer : {"none", "accepted", "late"}]
    /\ bridge \in StreamType
    /\ fate \in [Seqs -> {"none", "accepted", "late"}]
    /\ taken \in [Seqs -> {"none", "accepted", "late"}]
    /\ gaps \subseteq Seqs
    /\ rotations \in 0 .. MaxRotations /\ faults \in 0 .. MaxFaults

Init ==
    /\ next = 1
    /\ buf = [retained |-> None, head |-> None, queue |-> <<>>, overflow |-> <<>>]
    /\ dispatch = 0 /\ handed = 0
    /\ health = [complete |-> TRUE, dropped |-> 0, pending |-> 0, late |-> 0]
    /\ latch = FALSE /\ unseen = FALSE
    /\ worker = Idle
    /\ bridge = NewStream("none")
    /\ fate = [n \in Seqs |-> "none"] /\ taken = fate
    /\ gaps = {} /\ rotations = 0 /\ faults = 0

Fault == faults < MaxFaults /\ faults' = faults + 1

-----------------------------------------------------------------------------
(* Callbacks.  Every step of a dispatch has the capture lock. *)

\* mark_unrepresented_callback: a latch that nothing ever releases.
Latched == latch' = TRUE

\* The captures of the gaps in b.
GapCaptures(b) == Cardinality({p \in Items(b) \X Seqs : p[1].gap /\ Inside(p[2], p[1])})

\* dropped_events and trace_complete follow from the gaps still held and those
\* disposed of.
Reconciled(h, b, done) ==
    [h EXCEPT !.dropped = done + GapCaptures(b),
              !.complete = @ /\ done + GapCaptures(b) = 0]

\* A new gap goes into the queue, or else onto the overflow: joined to its last
\* gap if the two are adjacent, unless joining them raises.
Retained(b, g) ==
    LET o == b.overflow
        joined == [o EXCEPT ![Len(o)].last = g.last]
    IN IF Len(b.queue) < QueueCapacity THEN {[b EXCEPT !.queue = Append(@, g)]}
       ELSE {[b EXCEPT !.overflow = Append(@, g)]}
            \cup IF o # <<>> /\ Last(o).last + 1 = g.first
                    THEN {[b EXCEPT !.overflow = joined]} ELSE {}

\* The observation n, wherever it waits, becomes a gap.
Replaced(b, n) ==
    LET Of(i) == IF Inside(n, i) THEN Gap(n) ELSE i
    IN [b EXCEPT !.retained = Of(@), !.head = Of(@),
                 !.queue = [k \in DOMAIN @ |-> Of(@[k])]]

\* _record_gap_locked: the buffers that may hold capture n as a gap afterwards.
GapRecorded(b, n) ==
    IF \E i \in Items(b) : Inside(n, i)
       THEN IF \E i \in Items(b) : Inside(n, i) /\ i.gap THEN {b} ELSE {Replaced(b, n)}
    ELSE Retained(b, Gap(n))

Reserve ==
    /\ dispatch = 0 /\ next <= MaxCapture
    /\ next' = next + 1 /\ dispatch' = next

\* The observation is queued; or the queue is full or the source is invalid, and
\* a gap takes its place; or something raises before either.
Capture ==
    /\ Reserve
    /\ LET h == [health EXCEPT !.pending = @ + 1]
       IN \/ /\ Len(buf.queue) < QueueCapacity
             /\ buf' = [buf EXCEPT !.queue = Append(@, Observation(next))]
             /\ health' = h /\ UNCHANGED gaps
          \/ /\ \E b \in GapRecorded(buf, next) : buf' = b /\ health' = Reconciled(h, b, handed)
             /\ gaps' = gaps \cup {next}
          \/ health' = h /\ UNCHANGED <<buf, gaps>>
    /\ UNCHANGED <<handed, latch, unseen, fate, worker, bridge, taken, rotations, faults>>

\* The thread is started after the lock is given back.  Looking at it, starting it
\* or ending the dispatch may raise, with the thread up or not: that latches.
Notified ==
    \/ worker' = [worker EXCEPT !.up = TRUE] /\ UNCHANGED <<latch, unseen, faults>>
    \/ Fault /\ unseen' = TRUE /\ Latched /\ worker' \in {worker, [worker EXCEPT !.up = TRUE]}

\* The dispatch returns, or raises and its capture becomes a gap.
EndDispatch ==
    /\ dispatch # 0 /\ dispatch' = 0
    /\ \/ /\ \E i \in Items(buf) : Inside(dispatch, i)
          /\ UNCHANGED <<buf, health, gaps>>
       \/ /\ \E b \in GapRecorded(buf, dispatch) :
                buf' = b /\ health' = Reconciled(health, b, handed)
          /\ gaps' = gaps \cup {dispatch}
    /\ Notified
    /\ UNCHANGED <<next, handed, fate, bridge, taken, rotations>>

\* No number is left: the callback is not represented, and the latch says so.
CaptureExhausted ==
    /\ dispatch = 0 /\ next > MaxCapture
    /\ unseen' = TRUE /\ Latched
    /\ UNCHANGED <<next, buf, dispatch, handed, health, fate, gaps, worker, bridge, taken, rotations, faults>>

-----------------------------------------------------------------------------
(* The worker and its bridge *)

Ready == bridge.transport = "running" \/ (bridge.transport = "stopped" /\ bridge.sealed)

\* A bridge is made, adopted and started; one that cannot be started is stopped
\* and dropped, or kept if it cannot be stopped.
MakeBridge ==
    /\ worker.up /\ worker.pc = "choose" /\ bridge.transport = "none"
    /\ \/ bridge' = [bridge EXCEPT !.transport = "running"] /\ UNCHANGED faults
       \/ Fault /\ bridge' \in {bridge, [bridge EXCEPT !.transport = "stopped"]}
    /\ UNCHANGED <<bufferVars, worker, taken, rotations>>

\* A bridge that is not sealed is started again, never replaced.
RestartBridge ==
    /\ worker.up /\ worker.pc = "choose"
    /\ bridge.transport = "stopped" /\ ~bridge.sealed
    /\ bridge' = [bridge EXCEPT !.transport = "running"]
    /\ UNCHANGED <<bufferVars, worker, taken, rotations, faults>>

\* Mutant: the queue is served before the overflow.
QueueFirst(b) ==
    LET h == IF b.head = None /\ b.queue # <<>> THEN Head(b.queue) ELSE b.head
        q == IF b.head = None /\ b.queue # <<>> THEN Tail(b.queue) ELSE b.queue
    IN IF b.retained # None THEN b
       ELSE IF h = None /\ b.overflow # <<>>
          THEN [b EXCEPT !.retained = Head(b.overflow), !.overflow = Tail(@)]
       ELSE [b EXCEPT !.retained = h, !.head = None, !.queue = q]

\* next_for_worker: the retained capture, or else the older of the queue's head
\* and the first overflowing gap.
NextForWorker(b) ==
    LET h == IF b.head = None /\ b.queue # <<>> THEN Head(b.queue) ELSE b.head
        q == IF b.head = None /\ b.queue # <<>> THEN Tail(b.queue) ELSE b.queue
    IN IF b.retained # None THEN b
       ELSE IF b.overflow # <<>> /\ (h = None \/ Head(b.overflow).first < h.first)
          THEN [b EXCEPT !.retained = Head(b.overflow), !.overflow = Tail(@),
                         !.head = h, !.queue = q]
       ELSE [b EXCEPT !.retained = h, !.head = None, !.queue = q]

Choose ==
    /\ worker.up /\ worker.pc = "choose" /\ Ready /\ dispatch = 0
    /\ Items(buf) # {}
    /\ buf' = NextForWorker(buf)
    /\ worker' = [worker EXCEPT !.pc = "offer", !.capture = buf'.retained]
    /\ UNCHANGED <<next, dispatch, handed, health, latch, unseen, fate, gaps>>
    /\ UNCHANGED <<bridge, taken, rotations, faults>>

\* Mutant: an exact repeat is answered by the seal instead of the receipt.
DispositionBySeal(c) ==
    CASE c.first = bridge.next -> IF bridge.sealed THEN "late" ELSE "accepted"
      [] /\ c.first # bridge.next /\ bridge.receipt # None
         /\ bridge.receipt.item = c /\ bridge.next = c.last + 1
             -> IF bridge.sealed THEN "late" ELSE "accepted"
      [] OTHER -> "none"

\* What capture_reserved answers to an item, "none" if it raises: the next one is
\* accepted, or late behind the seal; an exact repeat gets the first answer.
Disposition(c) ==
    CASE c.first = bridge.next -> IF bridge.sealed THEN "late" ELSE "accepted"
      [] /\ c.first # bridge.next /\ bridge.receipt # None
         /\ bridge.receipt.item = c /\ bridge.next = c.last + 1
             -> bridge.receipt.disposition
      [] OTHER -> "none"

\* Mutant: no receipt is kept.
TakenWithoutReceipt(c) ==
    IF c.first # bridge.next THEN UNCHANGED <<bridge, taken>>
    ELSE /\ bridge' = [bridge EXCEPT !.next = c.last + 1]
         /\ taken' = [n \in Seqs |-> IF Inside(n, c) THEN Disposition(c) ELSE taken[n]]

Take(c) ==
    IF c.first # bridge.next THEN UNCHANGED <<bridge, taken>>
    ELSE /\ bridge' = [bridge EXCEPT !.next = c.last + 1,
                          !.receipt = [item |-> c, disposition |-> Disposition(c)]]
         /\ taken' = [n \in Seqs |-> IF Inside(n, c) THEN Disposition(c) ELSE taken[n]]

TryAgain == worker' = [Idle EXCEPT !.up = TRUE]

\* capture_reserved answers, or refuses, or raises before or after it took the item.
Offer ==
    /\ worker.pc = "offer"
    /\ \/ /\ Disposition(worker.capture) # "none"
          /\ Take(worker.capture)
          /\ \/ /\ worker' = [worker EXCEPT !.pc = "mark", !.answer = Disposition(worker.capture)]
                /\ UNCHANGED faults
             \/ Fault /\ TryAgain
       \/ Disposition(worker.capture) = "none" /\ TryAgain /\ UNCHANGED <<bridge, taken, faults>>
       \/ Fault /\ TryAgain /\ UNCHANGED <<bridge, taken>>
    /\ UNCHANGED <<bufferVars, rotations>>

\* Mutant: whatever is late is counted as one drop more.
FinishedTwice(c) ==
    LET left == [buf EXCEPT !.retained = None]
        done == handed + IF c.gap \/ worker.answer = "late" THEN Count(c) ELSE 0
        late == worker.answer = "late"
        h == [health EXCEPT !.pending = @ - Count(c),
                            !.dropped = @ + IF late THEN Count(c) ELSE 0,
                            !.late = @ + IF late THEN Count(c) ELSE 0,
                            !.complete = @ /\ ~late]
    IN buf' = left /\ handed' = done /\ health' = h

\* mark_handed_off and mark_late_after_close: a gap moves from the held drops to
\* the final ones; a late observation is one more.
Finished(c) ==
    LET left == [buf EXCEPT !.retained = None]
        late == worker.answer = "late"
        done == handed + IF c.gap \/ late THEN Count(c) ELSE 0
        h == [health EXCEPT !.pending = @ - Count(c),
                            !.late = @ + IF late THEN Count(c) ELSE 0,
                            !.complete = @ /\ ~late]
    IN buf' = left /\ handed' = done /\ health' = Reconciled(h, left, done)

\* The capture handed over must be the one retained.
Mark ==
    /\ worker.pc = "mark" /\ dispatch = 0
    /\ TryAgain
    /\ \/ /\ buf.retained = worker.capture
          /\ Finished(worker.capture)
          /\ fate' = [n \in Seqs |-> IF Inside(n, worker.capture) THEN worker.answer ELSE fate[n]]
          /\ UNCHANGED faults
       \/ /\ buf.retained # worker.capture
          /\ UNCHANGED <<buf, handed, health, fate, faults>>
       \/ Fault /\ UNCHANGED <<buf, handed, health, fate>>
    /\ UNCHANGED <<next, dispatch, latch, unseen, gaps, bridge, taken, rotations>>

-----------------------------------------------------------------------------
(* The bridge's own thread *)

\* A clean close was asked for and nothing is pending in the bridge.
Seal ==
    /\ bridge.transport = "running" /\ ~bridge.sealed
    /\ bridge' = [bridge EXCEPT !.sealed = TRUE]
    /\ UNCHANGED <<bufferVars, worker, taken, rotations, faults>>

\* The daemon closed the stream, and the thread ends.
Close ==
    /\ bridge.transport = "running" /\ bridge.sealed
    /\ bridge' = [bridge EXCEPT !.closed = TRUE, !.transport = "stopped"]
    /\ UNCHANGED <<bufferVars, worker, taken, rotations, faults>>

\* The daemon has abandoned the stream: the next one starts over.
Rotate ==
    /\ bridge.transport = "running" /\ rotations < MaxRotations
    /\ bridge' = NewStream("running")
    /\ rotations' = rotations + 1
    /\ UNCHANGED <<bufferVars, worker, taken, faults>>

-----------------------------------------------------------------------------
CallbackNext == Capture \/ EndDispatch \/ CaptureExhausted
WorkerNext == MakeBridge \/ RestartBridge \/ Choose \/ Offer \/ Mark
BridgeNext == Seal \/ Close \/ Rotate
Next == CallbackNext \/ WorkerNext \/ BridgeNext

Spec == Init /\ [][Next]_vars

\* Dispatches end, and a started worker loops for ever with bounded waits.
FairSpec == Spec /\ WF_vars(EndDispatch) /\ WF_vars(WorkerNext)

-----------------------------------------------------------------------------
(* Properties *)

Waiting == {n \in 1 .. next - 1 : fate[n] = "none"}

\* Whatever raises in a callback or the worker, short of the record of the fallback gap
\* itself, and however the two interleave, each capture not yet disposed of is held in
\* exactly one place, and the worker works on the oldest.
HeldOnceInOrder ==
    /\ \A n \in Seqs :
          LET holders == {i \in Items(buf) : Inside(n, i)}
          IN IF n \in Waiting \ {dispatch} THEN Cardinality(holders) = 1
             ELSE Cardinality(holders) <= IF n = dispatch THEN 1 ELSE 0
    /\ buf.retained # None => \A n \in Waiting : buf.retained.first <= n

\* What the health property says of the trace (with all hooks registered).
TraceComplete == health.complete /\ ~latch

\* Between dispatches the health counts exactly what was lost: each gap once, held
\* or handed over, each capture behind the seal once, and nothing twice.  It calls the
\* trace complete exactly if nothing was lost and nothing else went wrong for ever:
\* no callback found the numbers used up, and no start of the thread raised.
HealthIsExact ==
    dispatch = 0 =>
        LET late == {n \in Seqs : fate[n] = "late"}
        IN /\ health.pending = Cardinality(Waiting)
           /\ health.late = Cardinality(late)
           /\ health.dropped = Cardinality(gaps \cup late)
           /\ TraceComplete <=> (gaps \cup late = {} /\ ~unseen)

\* Buffer and bridge never disagree about a capture: what one side counts as
\* delivered is not counted as late by the other, through repeats, exceptions on
\* either side and a seal in between.
SidesAgree == \A n \in Seqs : fate[n] # "none" => fate[n] = taken[n]

Handed(n) == fate[n] # "none"

\* Once the worker runs, every capture is handed over in the end, unless the daemon
\* abandons a stream.
EveryCaptureHandedOver ==
    \A n \in Seqs : (worker.up /\ n < next) ~> (Handed(n) \/ rotations > 0)

\* Every reservation gets a disposition
\* (docs/superpowers/plans/2026-07-15-hermes-worker-fault-containment.md:14).
EveryReservationDisposed ==
    \A n \in Seqs : (worker.up /\ n < next) ~> Handed(n)
=============================================================================
