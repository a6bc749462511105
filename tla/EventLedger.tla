----------------------------- MODULE EventLedger -----------------------------
(***************************************************************************)
(* One brain in the ledger (runtime/store.py) and the engines that own its *)
(* state in memory (runtime/engine.py).  The state of a brain is what its  *)
(* events reduce to: here the events themselves, in order.  An engine      *)
(* reduces an event before it stores it, at the exact sequence its state   *)
(* calls for, and is useless ("diverged") once the ledger has moved on     *)
(* without it.  Several engines may share a ledger; a transaction may fail *)
(* before or after its commit; the process may die and open the ledger     *)
(* again, after an audit that replays everything.                          *)
(***************************************************************************)
EXTENDS Integers, FiniteSets, Sequences, SequencesExt

CONSTANTS
    Engine,
    EventId,
    Kind,            \* the event types that callers send
    MaxCycle,        \* bound of the model on workspace cycles
    MaxLog,          \* bound of the model on the length of the ledger
    MaxFaults,       \* bound of the model on failing transactions and restarts
    None

ASSUME LedgerAssumption ==
    /\ MaxCycle \in Nat /\ MaxLog \in Nat /\ MaxFaults \in Nat
    /\ None \notin EventId

VARIABLES
    log,             \* the events of the brain, row i at sequence i
    snapshots,       \* snapshots table: saved states, each at its own length
    audited,         \* _startup_audited_final_states: the state replayed at startup
    engine,
    answered,        \* history: events their callers were told are stored, and where
    faults

ledgerVars == <<log, snapshots, audited, engine, answered, faults>>

\* The data of a broadcast is the workspace cycle it advances to.
Event == [id : EventId, kind : Kind, data : 1 .. MaxCycle]

EngineType == [open : BOOLEAN, diverged : BOOLEAN, state : Seq(Event),
               checked : Event \cup {None}]
Closed == [open |-> FALSE, diverged |-> FALSE, state |-> <<>>, checked |-> None]

\* The ledger, the engines and the answers have their types; only a usable engine
\* holds its lock for an event.
LedgerTypeOK ==
    /\ log \in Seq(Event) /\ Len(log) <= MaxLog
    /\ snapshots \subseteq Seq(Event)
    /\ audited \in Seq(Event)
    /\ engine \in [Engine -> EngineType]
    /\ \A e \in Engine : engine[e].checked # None => engine[e].open /\ ~engine[e].diverged
    /\ answered \subseteq Event \X Nat
    /\ faults \in 0 .. MaxFaults

LedgerInit ==
    /\ log = <<>>
    /\ snapshots = {}
    /\ audited = <<>>
    /\ engine = [e \in Engine |-> Closed]
    /\ answered = {}
    /\ faults = 0

Fault == faults < MaxFaults /\ faults' = faults + 1

Cycle(s) == Cardinality({i \in 1 .. Len(s) : s[i].kind = "broadcast"})

\* reduce_state accepts event v in state s.
Accepts(s, v) == v.kind = "broadcast" => v.data = Cycle(s) + 1

\* Mutant: rows are looked up by their whole body.
StoredByBody(v) == \E i \in 1 .. Len(log) : log[i] = v

Stored(v) == \E i \in 1 .. Len(log) : log[i].id = v.id
Row(v) == CHOOSE i \in 1 .. Len(log) : log[i].id = v.id
Exact(v) == Stored(v) /\ log[Row(v)] = v

-----------------------------------------------------------------------------
(* Opening *)

Latest == CHOOSE s \in snapshots : \A t \in snapshots : Len(t) <= Len(s)

\* replay: the latest snapshot and the events after it.
Replay == IF snapshots = {} THEN log ELSE Latest \o SubSeq(log, Len(Latest) + 1, Len(log))

\* bootstrap_state: the audited state, if it is still at the head.
Bootstrap == IF Len(audited) = Len(log) THEN audited ELSE Replay

Open(e) ==
    /\ ~engine[e].open
    /\ engine' = [engine EXCEPT ![e] = [Closed EXCEPT !.open = TRUE, !.state = Bootstrap]]
    /\ UNCHANGED <<log, snapshots, audited, answered, faults>>

\* What the audit at startup demands of the stored rows.
Replayable == \A i \in 1 .. Len(log) : Accepts(SubSeq(log, 1, i - 1), log[i])
Auditable == Replayable /\ \A s \in snapshots : IsPrefix(s, log)

\* The process ends, with or without a crash, and the ledger is opened again.
Restart ==
    /\ Fault
    /\ Auditable
    /\ engine' = [e \in Engine |-> Closed]
    /\ audited' = log
    /\ UNCHANGED <<log, snapshots, answered>>

-----------------------------------------------------------------------------
(* Appending one event: checked against the ledger, then stored            *)

Diverge(e) == engine' = [engine EXCEPT ![e].diverged = TRUE, ![e].checked = None]
Publish(e, s) == engine' = [engine EXCEPT ![e].state = s, ![e].checked = None]

\* The first half of append: the engine's lock stays held while v is checked.
Check(e, v) ==
    LET s == engine[e].state
    IN /\ engine[e].open /\ ~engine[e].diverged /\ engine[e].checked = None
       /\ IF Len(log) # Len(s)
             THEN Diverge(e) /\ UNCHANGED answered
          ELSE IF Stored(v)
             THEN /\ answered' = IF Exact(v) THEN answered \cup {<<v, Row(v)>>} ELSE answered
                  /\ UNCHANGED engine
          ELSE /\ Accepts(s, v)
               /\ engine' = [engine EXCEPT ![e].checked = v]
               /\ UNCHANGED answered
       /\ UNCHANGED <<log, snapshots, audited, faults>>

\* Mutant: only the event is looked for, not the head of the ledger.
InsertableBehind(e) == ~Stored(engine[e].checked)

\* append_expected finds the ledger where the engine left it, and may insert.
Insertable(e) == ~Stored(engine[e].checked) /\ Len(log) = Len(engine[e].state)

\* Mutant: an event already stored counts as inserted wherever it is.
AdoptableAnywhere(e) == Exact(engine[e].checked)

\* Another writer stored exactly this event, exactly next.
Adoptable(e) ==
    /\ Exact(engine[e].checked)
    /\ Row(engine[e].checked) = Len(log)
    /\ Len(log) = Len(engine[e].state) + 1

\* The ID was taken by another body and nothing else was lost.
Refusable(e) ==
    /\ Stored(engine[e].checked) /\ ~Exact(engine[e].checked)
    /\ Len(log) = Len(engine[e].state)

Store(e) ==
    LET v == engine[e].checked
        s == engine[e].state
    IN /\ v # None
       /\ IF Insertable(e) \/ Adoptable(e)
             THEN /\ log' = IF Insertable(e) THEN Append(log, v) ELSE log
                  /\ Publish(e, Append(s, v))
                  /\ answered' = answered \cup {<<v, Len(s) + 1>>}
          ELSE IF Refusable(e)
             THEN /\ engine' = [engine EXCEPT ![e].checked = None]
                  /\ UNCHANGED <<log, answered>>
          ELSE Diverge(e) /\ UNCHANGED <<log, answered>>
       /\ Len(log') <= MaxLog
       /\ UNCHANGED <<snapshots, audited, faults>>

\* The transaction raises, before or after its commit.  append lets the error
\* pass: the engine is not marked.
StoreRaises(e) ==
    /\ engine[e].checked # None
    /\ Fault
    /\ \/ UNCHANGED log
       \/ Insertable(e) /\ Len(log) < MaxLog /\ log' = Append(log, engine[e].checked)
    /\ engine' = [engine EXCEPT ![e].checked = None]
    /\ UNCHANGED <<snapshots, audited, answered>>

-----------------------------------------------------------------------------
(* Committing a batch: bridge records, leases, abandonments                *)

\* Mutant: an outcome that is unknown does not mark the engine, but publishes.
CommitPublishesEarly(e, v) ==
    LET s == engine[e].state
    IN /\ engine[e].open /\ ~engine[e].diverged /\ engine[e].checked = None
       /\ IF Len(log) # Len(s)
             THEN Diverge(e) /\ UNCHANGED <<log, answered, faults>>
          ELSE /\ ~Stored(v) /\ Accepts(s, v) /\ Len(log) < MaxLog
               /\ \/ /\ log' = Append(log, v)
                     /\ Publish(e, Append(s, v))
                     /\ answered' = answered \cup {<<v, Len(s) + 1>>}
                     /\ UNCHANGED faults
                  \/ /\ Fault
                     /\ log' \in {log, Append(log, v)}
                     /\ Publish(e, Append(s, v)) /\ UNCHANGED answered
       /\ UNCHANGED <<snapshots, audited>>

\* One transaction compares the head with the state and stores; its events are
\* new.  An error of the database marks the engine, for the outcome is unknown.
Commit(e, v) ==
    LET s == engine[e].state
    IN /\ engine[e].open /\ ~engine[e].diverged /\ engine[e].checked = None
       /\ IF Len(log) # Len(s)
             THEN Diverge(e) /\ UNCHANGED <<log, answered, faults>>
          ELSE /\ ~Stored(v) /\ Accepts(s, v) /\ Len(log) < MaxLog
               /\ \/ /\ log' = Append(log, v)
                     /\ Publish(e, Append(s, v))
                     /\ answered' = answered \cup {<<v, Len(s) + 1>>}
                     /\ UNCHANGED faults
                  \/ /\ Fault
                     /\ log' \in {log, Append(log, v)}
                     /\ Diverge(e) /\ UNCHANGED answered
       /\ UNCHANGED <<snapshots, audited>>

-----------------------------------------------------------------------------
(* Snapshots of the current state *)

\* The engine saves its state while it owns the exact head and its state equals
\* the replay of the latest snapshot's tail.  I/O errors leave it usable.
Checkpoint(e) ==
    LET s == engine[e].state
    IN /\ engine[e].open /\ ~engine[e].diverged /\ engine[e].checked = None
       /\ \/ /\ Len(log) = Len(s) /\ s = Replay
             /\ snapshots' = snapshots \cup {s}
             /\ UNCHANGED <<engine, faults>>
          \/ /\ Len(log) # Len(s) \/ s # Replay
             /\ Diverge(e)
             /\ UNCHANGED <<snapshots, faults>>
          \/ /\ Fault
             /\ \/ UNCHANGED snapshots
                \/ Len(log) = Len(s) /\ s = Replay /\ snapshots' = snapshots \cup {s}
             /\ UNCHANGED engine
       /\ UNCHANGED <<log, audited, answered>>

-----------------------------------------------------------------------------
LedgerNext ==
    \/ Restart
    \/ \E e \in Engine :
          Open(e) \/ Store(e) \/ StoreRaises(e) \/ Checkpoint(e)
          \/ \E v \in Event : Check(e, v) \/ Commit(e, v)

LedgerSpec == LedgerInit /\ [][LedgerNext]_ledgerVars

-----------------------------------------------------------------------------
(* Properties *)

\* Whatever engine wrote it, and whatever failed on the way, the ledger can be
\* opened again: every event is acceptable after the events before it, and every
\* snapshot is the state at its sequence.
AlwaysReopens == Auditable

\* An engine never shows a state that the ledger does not hold, even when the
\* outcome of its transactions is unknown: its state is a prefix of the ledger.
EnginesFollowLedger == \A e \in Engine : IsPrefix(engine[e].state, log)

\* An event that is sent again after an error, on any engine and across restarts,
\* is stored once.
StoredOnce == \A i, j \in 1 .. Len(log) : log[i].id = log[j].id => i = j

\* A caller that was told where its event is stored finds it there.
AnswersHold ==
    \A a \in answered : a[2] \in 1 .. Len(log) /\ log[a[2]] = a[1]

\* An engine found to have diverged writes nothing more and shows nothing newer
\* until the ledger is opened again.
DivergedIsIdle ==
    [][\A e \in Engine :
          engine[e].open /\ engine[e].diverged /\ engine'[e].open
             => engine'[e].diverged /\ engine'[e].state = engine[e].state]_ledgerVars
=============================================================================
