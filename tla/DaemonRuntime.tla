---------------------------- MODULE DaemonRuntime ----------------------------
(***************************************************************************)
(* One daemon process from an open ledger to the release of its lease      *)
(* (HermesDaemonRuntime and PrivateDaemonServer of runtime/daemon.py).     *)
(* Every brain has one engine and one scheduler thread that writes for it; *)
(* brains are created while requests run, in a transaction and then in     *)
(* memory, and a creation that fails half way is compensated or, when that *)
(* cannot be proven, stops the daemon.  Writers end before the ledger is   *)
(* closed, and the ledger before the lease is released.                    *)
(***************************************************************************)
EXTENDS Integers, FiniteSets, Sequences

CONSTANTS
    Op,              \* the threads that handle requests
    Brain,           \* brain IDs, never reused
    Old,             \* the brains in the ledger when it is opened
    Profile,
    None,
    MaxFaults        \* bound of the model on what fails

ASSUME RuntimeAssumption ==
    /\ Old \subseteq Brain /\ MaxFaults \in Nat
    /\ None \notin Op \cup Brain \cup Profile \cup {"runtime", "server"}

VARIABLES
    ledger,          \* brains, those with more than their foundation, profiles
    cell,            \* the once-cell of each brain
    pending,         \* brains with a receipt of an unpublished foundation
    engines, schedulers,
    thread,          \* the scheduler thread of each brain
    gate,            \* who holds the engine creation gate
    op,
    server,
    done,            \* how many steps of close have succeeded
    fatal, closing,
    owner,           \* what the registry of failed owners retains
    given,           \* history: brains that clients have been given
    faults

memory == <<cell, pending, engines, schedulers, thread, gate>>
life == <<server, done, fatal, closing, owner>>
vars == <<ledger, memory, op, life, given, faults>>

LedgerType == [brains : SUBSET Brain, used : SUBSET Brain,
               profile : [Profile -> Brain \cup {None}]]
OpType == [pc : {"idle", "gate", "persist", "cell", "wait", "start", "publish",
                 "register", "compensate", "clear", "use"},
           brain : Brain \cup {None}, profile : Profile \cup {None},
           owned : BOOLEAN, undone : BOOLEAN]
Idle == [pc |-> "idle", brain |-> None, profile |-> None,
         owned |-> FALSE, undone |-> FALSE]

\* The steps of close, in their order.
CloseSteps == <<"schedulers", "worker", "ledger", "credential", "discovery", "lease">>
Done(step) == \E i \in 1 .. done : CloseSteps[i] = step
LedgerClosed == Done("ledger")
LeaseReleased == Done("lease")

Init ==
    /\ ledger = [brains |-> Old, used |-> Old, profile |-> [p \in Profile |-> None]]
    /\ cell = [b \in Brain |-> "none"]
    /\ pending = {} /\ engines = {} /\ schedulers = {}
    /\ thread = [b \in Brain |-> "none"]
    /\ gate = None
    /\ op = [o \in Op |-> Idle]
    /\ server = "starting" /\ done = 0
    /\ fatal = FALSE /\ closing = FALSE /\ owner = None
    /\ given = {} /\ faults = 0

Fault == faults < MaxFaults /\ faults' = faults + 1

\* _retain_failed_owner: the transport wraps its runtime and takes its place.
Retained(who) == IF owner = "server" THEN "server" ELSE who

\* Mutant: only the flag.
FailStopUnowned ==
    /\ fatal' = TRUE /\ closing' = TRUE
    /\ UNCHANGED <<server, done, owner>>

\* _mark_fail_stopped
FailStop ==
    /\ fatal' = TRUE /\ closing' = TRUE
    /\ owner' = Retained("server")
    /\ UNCHANGED <<server, done>>

-----------------------------------------------------------------------------
(* Requests *)

Set(o, r) == op' = [op EXCEPT ![o] = r]
Go(o, pc) == Set(o, [op[o] EXCEPT !.pc = pc])
End(o) == Set(o, Idle)
Waiting(b) == {o \in Op : op[o].pc = "wait" /\ op[o].brain = b}

\* The cell of b is resolved with an error: everybody who waits for it fails, and o
\* goes on with r.
Answered(o, r) == [x \in Op |-> IF x = o THEN r
                               ELSE IF x \in Waiting(op[o].brain) THEN Idle ELSE op[x]]

\* An ID that nothing refers to is as good as a new one.
Fresh == {b \in Brain : cell[b] = "none" /\ b \notin ledger.brains \cup given
                        /\ \A o \in Op : op[o].brain # b}

\* brain.create and brain.resolve, or any request for a brain that exists.
Begin(o) ==
    /\ op[o].pc = "idle" /\ server = "serving" /\ ~closing
    /\ \/ /\ Cardinality(Fresh) > Cardinality({x \in Op : op[x].pc = "gate"})   \* bound
          /\ \E p \in Profile \cup {None} : Set(o, [Idle EXCEPT !.pc = "gate", !.profile = p])
       \/ \E b \in given : Set(o, [Idle EXCEPT !.pc = "cell", !.brain = b])
    /\ UNCHANGED <<ledger, memory, life, given, faults>>

\* _reserve_dynamic_cell, with the gate held.
Reserve(o) ==
    /\ op[o].pc = "gate" /\ gate = None /\ Fresh # {}
    /\ gate' = o
    /\ LET b == CHOOSE b \in Fresh : TRUE
       IN /\ cell' = [cell EXCEPT ![b] = "open"]
          /\ Set(o, [op[o] EXCEPT !.pc = "persist", !.brain = b])
    /\ UNCHANGED <<ledger, pending, engines, schedulers, thread, life, given, faults>>

Created(p, b) == [ledger EXCEPT !.brains = @ \cup {b},
                                !.profile = [q \in Profile |-> IF q = p THEN b ELSE @[q]]]

\* The profile has a brain already: the reservation is dropped.
PersistFound(o) ==
    LET p == op[o].profile
    IN /\ op[o].pc = "persist" /\ p # None
       /\ ledger.profile[p] # None
       /\ gate' = None
       /\ cell' = [cell EXCEPT ![op[o].brain] = "none"]
       /\ Set(o, [op[o] EXCEPT !.pc = "cell", !.brain = ledger.profile[p]])
       /\ UNCHANGED <<ledger, pending, engines, schedulers, thread, life, given, faults>>

PersistNew(o) ==
    LET p == op[o].profile  b == op[o].brain
    IN /\ op[o].pc = "persist"
       /\ p # None => ledger.profile[p] = None
       /\ gate' = None
       /\ \/ /\ ledger' = Created(p, b)
             /\ pending' = pending \cup {b}
             /\ Set(o, [op[o] EXCEPT !.pc = "start", !.owned = TRUE])
             /\ UNCHANGED <<cell, life, faults>>
          \/ /\ Fault                            \* it raised, and left no brain
             /\ cell' = [cell EXCEPT ![b] = "none"]
             /\ End(o)
             /\ UNCHANGED <<ledger, pending, life>>
          \/ /\ Fault                            \* it raised after its commit
             /\ ledger' = Created(p, b)
             /\ cell' = [cell EXCEPT ![b] = "failed"]
             /\ FailStop /\ End(o)
             /\ UNCHANGED pending
       /\ UNCHANGED <<engines, schedulers, thread, given>>

\* _engine_once: the cell is there, or is claimed under the gate for a brain that
\* is there.
LookUp(o) ==
    LET b == op[o].brain
    IN /\ op[o].pc = "cell"
       /\ CASE cell[b] = "engine" -> Go(o, "use") /\ UNCHANGED cell
            [] cell[b] = "open" -> Go(o, "wait") /\ UNCHANGED cell
            [] cell[b] = "failed" -> End(o) /\ UNCHANGED cell
            [] OTHER ->
                 /\ gate = None
                 /\ IF b \in ledger.brains
                       THEN Go(o, "start") /\ cell' = [cell EXCEPT ![b] = "open"]
                       ELSE End(o) /\ UNCHANGED cell
       /\ UNCHANGED <<ledger, pending, engines, schedulers, thread, gate, life, given, faults>>

-----------------------------------------------------------------------------
(* Engine and scheduler of a brain *)

\* Mutant: the waiters are forgotten.
StartFailedSilently(o) ==
    LET b == op[o].brain
    IN /\ cell' = [cell EXCEPT ![b] = IF op[o].owned THEN "failed" ELSE "none"]
       /\ op' = [op EXCEPT ![o] = IF op[o].owned THEN [op[o] EXCEPT !.pc = "compensate"]
                                                 ELSE Idle]

\* The cell gets the error; only a cell that was not reserved is given up.
StartFailed(o) ==
    LET b == op[o].brain
    IN /\ cell' = [cell EXCEPT ![b] = IF op[o].owned THEN "failed" ELSE "none"]
       /\ op' = Answered(o, IF op[o].owned THEN [op[o] EXCEPT !.pc = "compensate"]
                                           ELSE Idle)

Start(o) ==
    /\ op[o].pc = "start"
    /\ \/ /\ thread' = [thread EXCEPT ![op[o].brain] = "running"]
          /\ Go(o, "publish")
          /\ UNCHANGED <<cell, faults>>
       \/ Fault /\ StartFailed(o) /\ UNCHANGED thread
    /\ UNCHANGED <<ledger, pending, engines, schedulers, gate, life, given>>

\* Mutant: the thread that does not stop is not kept.
UndoForgotten(o) ==
    LET b == op[o].brain
    IN \/ /\ thread' = [thread EXCEPT ![b] = "none"]
          /\ StartFailed(o)
          /\ UNCHANGED <<schedulers, life>>
       \/ /\ cell' = [cell EXCEPT ![b] = "failed"]
          /\ op' = Answered(o, Idle)
          /\ FailStop
          /\ UNCHANGED <<thread, schedulers>>

\* The thread that was started is stopped again: if it does not stop, the daemon
\* does, and keeps the thread among those to be stopped.
Undo(o) ==
    LET b == op[o].brain
    IN \/ /\ thread' = [thread EXCEPT ![b] = "none"]
          /\ StartFailed(o)
          /\ UNCHANGED <<schedulers, life>>
       \/ /\ schedulers' = schedulers \cup {b}
          /\ cell' = [cell EXCEPT ![b] = "failed"]
          /\ op' = Answered(o, Idle)
          /\ FailStop
          /\ UNCHANGED thread

Publish(o) ==
    LET b == op[o].brain
    IN /\ op[o].pc = "publish"
       /\ IF fatal
             THEN Undo(o) /\ UNCHANGED <<pending, engines, faults>>
          ELSE /\ pending' = pending \ {b}
               /\ engines' = engines \cup {b} /\ schedulers' = schedulers \cup {b}
               /\ Go(o, "register")
               /\ UNCHANGED <<cell, thread, life, faults>>
       /\ UNCHANGED <<ledger, gate, given>>

\* The snapshot worker takes the engine, and the cell has its result.
Register(o) ==
    LET b == op[o].brain
    IN /\ op[o].pc = "register"
       /\ \/ /\ cell' = [cell EXCEPT ![b] = "engine"]
             /\ op' = [x \in Op |-> IF x = o \/ x \in Waiting(b)
                                       THEN [op[x] EXCEPT !.pc = "use"] ELSE op[x]]
             /\ UNCHANGED <<thread, schedulers, life, faults>>
          \/ Fault /\ Undo(o)
       /\ UNCHANGED <<ledger, pending, engines, gate, given>>

\* Mutant: also what has been written to since.
UntouchedOrNot(b) == b \in ledger.brains

\* compensate_unpublished_brain_foundation deletes exactly what was created.
Untouched(b) == b \in ledger.brains /\ b \notin ledger.used

Without(b) ==
    [ledger EXCEPT !.brains = @ \ {b}, !.used = @ \ {b},
                   !.profile = [q \in Profile |-> IF @[q] = b THEN None ELSE @[q]]]

Compensate(o) ==
    LET b == op[o].brain
    IN /\ op[o].pc = "compensate"
       /\ IF fatal THEN End(o) /\ UNCHANGED <<ledger, faults>>
          ELSE \/ /\ ledger' = IF Untouched(b) THEN Without(b) ELSE ledger
                  /\ Set(o, [op[o] EXCEPT !.pc = "clear", !.undone = Untouched(b)])
                  /\ UNCHANGED faults
               \/ /\ Fault /\ ledger' \in {ledger, IF Untouched(b) THEN Without(b) ELSE ledger}
                  /\ Go(o, "clear")
       /\ UNCHANGED <<memory, life, given>>

\* Mutant: the row is gone, so the brain is taken to be.
ClearAnyway(o) ==
    LET b == op[o].brain
    IN /\ op[o].pc = "clear"
       /\ IF op[o].undone
             THEN /\ pending' = pending \ {b}
                  /\ cell' = [cell EXCEPT ![b] = "none"]
                  /\ UNCHANGED life
          ELSE FailStop /\ UNCHANGED <<pending, cell>>
       /\ End(o)
       /\ UNCHANGED <<ledger, engines, schedulers, thread, gate, given, faults>>

Clear(o) ==
    LET b == op[o].brain
    IN /\ op[o].pc = "clear"
       /\ IF op[o].undone /\ b \in pending /\ b \notin engines \cup schedulers
             THEN /\ pending' = pending \ {b}
                  /\ cell' = [cell EXCEPT ![b] = "none"]
                  /\ UNCHANGED life
          ELSE FailStop /\ UNCHANGED <<pending, cell>>
       /\ End(o)
       /\ UNCHANGED <<ledger, engines, schedulers, thread, gate, given, faults>>

\* The request writes to its brain, or only reads, and is answered.
Answer(o) ==
    LET b == op[o].brain
    IN /\ op[o].pc = "use"
       /\ given' = given \cup {b}
       /\ ledger' \in {ledger, [ledger EXCEPT !.used = @ \cup {b}]}
       /\ End(o)
       /\ UNCHANGED <<memory, life, faults>>

\* A scheduler thread appends a pulse.
Pulse(b) ==
    /\ thread[b] = "running" /\ b \in ledger.brains /\ ~LedgerClosed
    /\ ledger' = [ledger EXCEPT !.used = @ \cup {b}]
    /\ UNCHANGED <<memory, op, life, given, faults>>

\* An error that the snapshot worker cannot take for a transient one.
WorkerFails ==
    /\ Fault /\ ~Done("worker") /\ ~fatal /\ server # "starting"
    /\ FailStop
    /\ UNCHANGED <<ledger, memory, op, given>>

-----------------------------------------------------------------------------
(* The server *)

\* open makes the engines of all brains, and gives up if one cannot be made.
Open ==
    /\ server = "starting"
    /\ IF engines = Old THEN server' = "serving" /\ UNCHANGED <<memory, closing, faults>>
       ELSE \/ /\ \E b \in Old \ engines :
                     /\ cell' = [cell EXCEPT ![b] = "engine"]
                     /\ engines' = engines \cup {b} /\ schedulers' = schedulers \cup {b}
                     /\ thread' = [thread EXCEPT ![b] = "running"]
               /\ UNCHANGED <<server, closing, pending, gate, faults>>
            \/ Fault /\ server' = "closing" /\ closing' = TRUE /\ UNCHANGED memory
    /\ given' = IF server' = "serving" THEN Old ELSE given
    /\ UNCHANGED <<ledger, op, done, fatal, owner>>

Claimed(who) == IF owner = who THEN None ELSE owner

\* A client asks for it, maintenance failed or the runtime has fail-stopped: no
\* more requests.  _cleanup_after_run
Shutdown ==
    /\ server = "serving"
    /\ server' = "cleanup" /\ owner' = Claimed("server")
    /\ UNCHANGED <<ledger, memory, op, done, fatal, closing, given, faults>>

Quiet == \A o \in Op : op[o].pc = "idle"

\* All handlers have ended and the runtime is closed, or they take too long and
\* the server is kept with everything it owns.
Drain ==
    /\ server = "cleanup"
    /\ \/ Quiet /\ server' = "closing" /\ closing' = TRUE
          /\ owner' = Claimed("runtime") /\ UNCHANGED faults
       \/ ~Quiet /\ Fault /\ server' = "failed"
          /\ owner' = Retained("server") /\ UNCHANGED closing
    /\ UNCHANGED <<ledger, memory, op, done, fatal, given>>

\* _stop_all_schedulers
StopThreads == thread' = [b \in Brain |-> IF b \in schedulers THEN "none" ELSE thread[b]]

\* Each step of close after the one before it, and once.
CloseStep ==
    /\ server = "closing"
    /\ \/ /\ done' = done + 1
          /\ IF CloseSteps[done'] = "schedulers" THEN StopThreads ELSE UNCHANGED thread
          /\ IF CloseSteps[done'] = "lease" THEN server' = "closed" /\ owner' = None
             ELSE UNCHANGED <<server, owner>>
          /\ UNCHANGED faults
       \/ /\ Fault
          /\ server' = "failed" /\ owner' = Retained("runtime")
          /\ UNCHANGED <<done, thread>>
    /\ UNCHANGED <<ledger, cell, pending, engines, schedulers, gate, op, fatal, closing, given>>

\* retry_failed_cleanup, with whatever owner is retained.
Retry ==
    /\ server = "failed" /\ owner # None
    /\ server' = (IF owner = "server" THEN "cleanup" ELSE "closing")
    /\ owner' = None
    /\ UNCHANGED <<ledger, memory, op, done, fatal, closing, given, faults>>

-----------------------------------------------------------------------------
OpStep(o) ==
    \/ Reserve(o) \/ PersistFound(o) \/ PersistNew(o) \/ LookUp(o)
    \/ Start(o) \/ Publish(o) \/ Register(o) \/ Compensate(o) \/ Clear(o) \/ Answer(o)

Next ==
    \/ \E o \in Op : Begin(o) \/ OpStep(o)
    \/ \E b \in Brain : Pulse(b)
    \/ WorkerFails
    \/ Open \/ Shutdown \/ Drain \/ CloseStep \/ Retry

Spec == Init /\ [][Next]_vars

\* The threads that handle requests go on with what they have begun.
FairSpec == Spec /\ \A o \in Op : WF_vars(OpStep(o))

-----------------------------------------------------------------------------
(* Properties *)

\* Ledger, memory, requests and the life of the daemon have their types.
TypeOK ==
    /\ ledger \in LedgerType
    /\ cell \in [Brain -> {"none", "open", "engine", "failed"}]
    /\ pending \subseteq Brain /\ engines \subseteq Brain /\ schedulers \subseteq Brain
    /\ thread \in [Brain -> {"none", "running"}]
    /\ gate \in Op \cup {None} /\ op \in [Op -> OpType]
    /\ server \in {"starting", "serving", "cleanup", "closing", "failed", "closed"}
    /\ done \in 0 .. Len(CloseSteps) /\ owner \in {None, "runtime", "server"}
    /\ fatal \in BOOLEAN /\ closing \in BOOLEAN
    /\ given \subseteq Brain /\ faults \in 0 .. MaxFaults

Busy(b) == \E o \in Op : op[o].brain = b /\ op[o].pc \notin {"cell", "wait", "use"}

\* As long as the daemon has not stopped itself, exactly the brains of the ledger
\* have an engine and a running scheduler, but for those that are being created:
\* no failed creation leaves a brain that nobody writes for, nor a writer without
\* a brain (what readiness_snapshot reports is not for a moment only).
EveryBrainHasItsWriter ==
    server = "serving" /\ ~fatal =>
       \A b \in Brain : ~Busy(b) =>
          /\ (b \in ledger.brains) <=> (b \in engines)
          /\ (b \in ledger.brains) <=> (b \in schedulers)
          /\ (b \in ledger.brains) <=> (thread[b] = "running")
          /\ (b \in ledger.brains) <=> (cell[b] = "engine")

\* A brain that was written to, or given to a client, stays in the ledger: no
\* creation that fails takes it away.
WrittenBrainsStay ==
    [][ledger.used \subseteq ledger'.used /\ given' \subseteq ledger'.brains]_vars

\* When the ledger is closed, no request and no scheduler can still write to it.
ClosedIsQuiet == LedgerClosed => Quiet /\ \A b \in Brain : thread[b] = "none"

\* A daemon that has stopped itself or could not close is retained by somebody
\* until its lease is released: the home is never locked by an owner nobody can
\* clean up.
NeverForgotten ==
    (fatal \/ server = "failed") /\ ~LeaseReleased =>
        owner # None \/ server \in {"cleanup", "closing"}

\* Every request ends: no thread waits for ever for the gate or for an engine that
\* another thread failed to make.
RequestsEnd == \A o \in Op : op[o].pc # "idle" ~> op[o].pc = "idle"
=============================================================================
