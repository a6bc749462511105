--------------------------- MODULE SnapshotWorker ---------------------------
(***************************************************************************)
(* The thread that saves snapshots (runtime/snapshot.py) of the brains of  *)
(* a daemon, each every Interval events.  Engines publish a new head while *)
(* the thread decides, reads the head, saves and records what it saved,    *)
(* each a step of its own: what is saved is the state at the save, which   *)
(* EventLedger's Checkpoint makes exact.  Loads and saves may fail.        *)
(***************************************************************************)
EXTENDS Integers, FiniteSets

CONSTANTS
    Brain,
    Interval,        \* interval_events
    MaxHead,         \* bound of the model on published heads
    MaxFaults,       \* bound of the model on failing loads and saves
    None

ASSUME SnapshotAssumption ==
    /\ Interval \in Nat \ {0} /\ MaxHead \in Nat \ {0, 1} /\ MaxFaults \in Nat
    /\ None \notin Int /\ None \notin Brain

VARIABLES
    head,            \* last_sequence of each engine's state
    saved,           \* greatest sequence in the snapshots table, 0 if none
    diverged,        \* brains whose engine refuses to write
    book,            \* what the worker knows of each brain
    pending,         \* _pending
    thread,          \* the worker thread and its locals
    fatal,           \* _fatal_error_sink was called: the daemon fail-stops
    faults

vars == <<head, saved, diverged, book, pending, thread, fatal, faults>>

Sequence == 0 .. MaxHead
BookType == [registered : BOOLEAN, observed : Sequence, last : Sequence \cup {None},
             next : 0 .. MaxHead + Interval \cup {None}, error : BOOLEAN]
ThreadType == [pc : {"dead", "waiting", "load", "decide", "attempt", "save", "record", "finish"},
               brain : Brain \cup {None},      \* _processing
               sequence : Sequence,            \* attempted_sequence, then saved.last_sequence
               stopping : BOOLEAN]
Unborn == [pc |-> "dead", brain |-> None, sequence |-> 0, stopping |-> FALSE]

\* Heads, rows and the worker's books have their types; the brain being processed
\* is a registered one.
TypeOK ==
    /\ head \in [Brain -> Sequence]
    /\ saved \in [Brain -> Sequence]
    /\ diverged \subseteq Brain
    /\ book \in [Brain -> BookType]
    /\ pending \subseteq {b \in Brain : book[b].registered}
    /\ thread \in ThreadType
    /\ thread.pc \in {"dead", "waiting"} <=> thread.brain = None
    /\ fatal \in BOOLEAN
    /\ faults \in 0 .. MaxFaults

Init ==
    /\ head \in [Brain -> 1 .. 2]
    /\ saved \in {s \in [Brain -> 0 .. 1] : \A b \in Brain : s[b] <= head[b]}
    /\ diverged = {}
    /\ book = [b \in Brain |-> [registered |-> FALSE, observed |-> 0, last |-> None,
                                next |-> None, error |-> FALSE]]
    /\ pending = {}
    /\ thread = Unborn
    /\ fatal = FALSE
    /\ faults = 0

Fault == faults < MaxFaults /\ faults' = faults + 1
Highest(m, n) == IF m >= n THEN m ELSE n

-----------------------------------------------------------------------------
(* The engines *)

\* Mutant: the head has to pass the sequence of the next attempt.
DueLate(b) == book[b].next = None \/ head'[b] > book[b].next

Due(b) == book[b].next = None \/ head'[b] >= book[b].next

Notify(b) ==
    /\ book' = [book EXCEPT ![b].observed = Highest(@, head'[b])]
    /\ pending' = IF book[b].registered /\ Due(b) THEN pending \cup {b} ELSE pending

\* An engine publishes the successor of a committed event; it may do so before it
\* is registered.
Publish(b) ==
    /\ b \notin diverged /\ head[b] < MaxHead
    /\ head' = [head EXCEPT ![b] = @ + 1]
    /\ Notify(b)
    /\ UNCHANGED <<saved, diverged, thread, fatal, faults>>

\* The engine finds that the ledger has moved on without it.
Diverge(b) ==
    /\ Fault
    /\ diverged' = diverged \cup {b}
    /\ UNCHANGED <<head, saved, book, pending, thread, fatal>>

\* A new brain has no snapshot and says so; for others it is not known.
Register(b) ==
    /\ ~book[b].registered
    /\ \E known \in {None} \cup {s \in {0} : saved[b] = s} :
          LET seen == Highest(book[b].observed, head[b])
              next == IF known = None THEN book[b].next ELSE known + Interval
          IN /\ book' = [book EXCEPT ![b] =
                   [@ EXCEPT !.registered = TRUE, !.observed = seen, !.last = known, !.next = next]]
             /\ pending' = IF next = None \/ seen >= next THEN pending \cup {b} ELSE pending
    /\ UNCHANGED <<head, saved, diverged, thread, fatal, faults>>

-----------------------------------------------------------------------------
(* The thread *)

Goto(pc) == thread' = [thread EXCEPT !.pc = pc]

Pop ==
    /\ thread.pc = "waiting"
    /\ \E b \in pending :
          /\ pending' = pending \ {b}
          /\ thread' = [thread EXCEPT !.brain = b,
                          !.pc = IF book[b].last = None THEN "load" ELSE "decide"]
    /\ UNCHANGED <<head, saved, diverged, book, fatal, faults>>

\* An attempt failed: the next one is due Interval events after it.  Errors other
\* than those of I/O go to the daemon.
Failed(next, transient) ==
    /\ book' = [book EXCEPT ![thread.brain].error = TRUE, ![thread.brain].next = next]
    /\ fatal' = (fatal \/ ~transient)
    /\ Goto("finish")

Load ==
    LET b == thread.brain
    IN /\ thread.pc = "load"
       /\ \/ /\ book' = [book EXCEPT ![b].last = saved[b], ![b].error = FALSE]
             /\ Goto("decide")
             /\ UNCHANGED <<fatal, faults>>
          \/ /\ Fault
             /\ \E transient \in BOOLEAN : Failed(book[b].observed + Interval, transient)
       /\ UNCHANGED <<head, saved, diverged, pending>>

Decide ==
    LET b == thread.brain
    IN /\ thread.pc = "decide"
       /\ IF book[b].observed - book[b].last < Interval
             THEN /\ book' = [book EXCEPT ![b].next = book[b].last + Interval]
                  /\ Goto("finish")
             ELSE Goto("attempt") /\ UNCHANGED book
       /\ UNCHANGED <<head, saved, diverged, pending, fatal, faults>>

Attempt ==
    /\ thread.pc = "attempt"
    /\ thread' = [thread EXCEPT !.pc = "save", !.sequence = head[thread.brain]]
    /\ UNCHANGED <<head, saved, diverged, book, pending, fatal, faults>>

\* checkpoint_current_state: the head of this moment is saved; or it fails, with
\* or without the row; or the engine is found to have diverged, or is now.
Save ==
    LET b == thread.brain
    IN /\ thread.pc = "save"
       /\ \/ /\ b \notin diverged
             /\ saved' = [saved EXCEPT ![b] = head[b]]
             /\ thread' = [thread EXCEPT !.pc = "record", !.sequence = head[b]]
             /\ UNCHANGED <<diverged, book, fatal, faults>>
          \/ /\ b \notin diverged /\ Fault
             /\ saved' \in {saved, [saved EXCEPT ![b] = head[b]]}
             /\ Failed(thread.sequence + Interval, TRUE)
             /\ UNCHANGED diverged
          \/ /\ IF b \in diverged THEN UNCHANGED faults ELSE Fault
             /\ diverged' = diverged \cup {b}
             /\ Failed(thread.sequence + Interval, FALSE)
             /\ UNCHANGED saved
       /\ UNCHANGED <<head, pending>>

Record ==
    LET b == thread.brain
        s == thread.sequence
    IN /\ thread.pc = "record"
       /\ book' = [book EXCEPT ![b] = [@ EXCEPT !.last = s, !.next = s + Interval, !.error = FALSE]]
       /\ Goto("finish")
       /\ UNCHANGED <<head, saved, diverged, pending, fatal, faults>>

\* Mutant: a brain that failed is tried again at once.
FinishRetries ==
    LET b == thread.brain
    IN /\ thread.pc = "finish"
       /\ thread' = [thread EXCEPT !.pc = "waiting", !.brain = None, !.sequence = 0]
       /\ pending' = IF book[b].error \/ book[b].observed >= book[b].next
                     THEN pending \cup {b} ELSE pending
       /\ UNCHANGED <<head, saved, diverged, book, fatal, faults>>

\* A brain that became due while it was processed is due again.
Finish ==
    LET b == thread.brain
    IN /\ thread.pc = "finish"
       /\ thread' = [thread EXCEPT !.pc = "waiting", !.brain = None, !.sequence = 0]
       /\ pending' = IF book[b].observed >= book[b].next THEN pending \cup {b} ELSE pending
       /\ UNCHANGED <<head, saved, diverged, book, fatal, faults>>

\* A thread told to stop first saves what is pending.
Exit ==
    /\ thread.pc = "waiting" /\ thread.stopping /\ pending = {}
    /\ Goto("dead")
    /\ UNCHANGED <<head, saved, diverged, book, pending, fatal, faults>>

Start ==
    /\ thread.pc = "dead"
    /\ thread' = [Unborn EXCEPT !.pc = "waiting"]
    /\ UNCHANGED <<head, saved, diverged, book, pending, fatal, faults>>

Stop ==
    /\ thread.pc # "dead"
    /\ thread' = [thread EXCEPT !.stopping = TRUE]
    /\ UNCHANGED <<head, saved, diverged, book, pending, fatal, faults>>

-----------------------------------------------------------------------------
Run == Pop \/ Load \/ Decide \/ Attempt \/ Save \/ Record \/ Finish \/ Exit

Next ==
    \/ Run \/ Start \/ Stop
    \/ \E b \in Brain : Publish(b) \/ Diverge(b) \/ Register(b)

Spec == Init /\ [][Next]_vars

\* The thread runs as long as it lives.
FairSpec == Spec /\ WF_vars(Run)

-----------------------------------------------------------------------------
(* Properties *)

Settled(b) == book[b].registered /\ b \notin pending /\ thread.brain # b

\* No publication is missed, whatever the thread was doing when it came: a brain
\* nobody works on is not yet due, and its next attempt is at most one interval of
\* events away, failures included.
NothingMissed ==
    \A b \in Brain : Settled(b) =>
        /\ book[b].next # None
        /\ book[b].observed < book[b].next
        /\ book[b].next <= book[b].observed + Interval

\* A brain that is due is processed, though engines publish and attempts fail.
DueIsProcessed == \A b \in Brain : b \in pending /\ thread.pc # "dead" ~> thread.brain = b

\* A thread told to stop exits, whatever is due and whatever fails.
StopEnds == thread.stopping ~> thread.pc = "dead"
=============================================================================
