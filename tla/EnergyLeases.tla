----------------------------- MODULE EnergyLeases -----------------------------
(***************************************************************************)
(* The durable side of the energy assessment of actions: the action        *)
(* records of one brain as the reducer keeps them, the table               *)
(* energy_assessment_lease and the events that tell of both                *)
(* (core/reducer.py, core/action.py, runtime/store.py).  Every action is   *)
(* one transaction under the engine's lock.  Any caller may claim,         *)
(* complete or fail any lease at any time; EnergyWorkers restricts that to *)
(* the callers that exist.                                                 *)
(***************************************************************************)
EXTENDS Integers, Sequences, FiniteSets

CONSTANTS
    Lease,           \* lease_id values
    NoLease,
    MaxAction,       \* bound of the model on actions of the brain
    Capacity,        \* MAX_ACTION_RECORDS
    Choice,          \* energy vectors with their provenance
    FailureCode,     \* sanitized failure codes of the host
    NoEvidence       \* SQL NULL

ASSUME ActionAssumption == MaxAction \in Nat /\ Capacity \in Nat
ASSUME EvidenceAssumption ==
    /\ Choice \cap FailureCode = {}
    /\ NoEvidence \notin Choice \cup FailureCode
ASSUME LeaseAssumption == NoLease \notin Lease

\* Actions are named by the order in which they were proposed, which is also
\* their order in action_records.
Action == 1 .. MaxAction
Evidence == Choice \cup FailureCode \cup {NoEvidence}

VARIABLES
    record,          \* action_records: phase, energy_assessment_status, evidence
    lease,           \* energy_assessment_lease
    log              \* the brain's events about energy, in order

energyVars == <<record, lease, log>>

\* Phase settled stands for BLOCKED and RECONSTRUCTED, active for the others.
RecordType == [phase : {"none", "active", "settled", "evicted"},
               status : {"unrequested", "pending", "assessed", "failed"},
               evidence : Evidence]

\* at and end are the positions of request_event_id and terminal_event_id.
LeaseType == [status : {"absent", "pending", "completed", "failed", "superseded"},
              action : 0 .. MaxAction, term : {"running", "over"}, evidence : Evidence,
              at : Nat, end : Nat]

EventKind == {"action.energy_requested", "cognition.requested", "cognition.completed",
              "cognition.failed", "action.energy_assessed", "action.energy_assessment_failed"}

EventType == [kind : EventKind, lease : Lease \cup {NoLease}, action : Action,
              evidence : Evidence]

\* Action records, leases and events have their types.
EnergyTypeOK ==
    /\ record \in [Action -> RecordType]
    /\ lease \in [Lease -> LeaseType]
    /\ log \in Seq(EventType)

NoRecord == [phase |-> "none", status |-> "unrequested", evidence |-> NoEvidence]
NoRow == [status |-> "absent", action |-> 0, term |-> "running", evidence |-> NoEvidence,
          at |-> 0, end |-> 0]

EnergyInit ==
    /\ record = [a \in Action |-> NoRecord]
    /\ lease = [l \in Lease |-> NoRow]
    /\ log = << >>

Event(k, l, a, e) == [kind |-> k, lease |-> l, action |-> a, evidence |-> e]

-----------------------------------------------------------------------------
(* The action records *)

Held == {a \in Action : record[a].phase \in {"active", "settled"}}

\* Mutant: eviction looks at the phase only.
EvictableAny == {a \in Held : record[a].phase = "settled"}

\* The reducer gives up a settled record to make room, the oldest first, but
\* never one whose assessment is pending.
Evictable == {a \in Held : record[a].phase = "settled" /\ record[a].status # "pending"}

\* A tool call is observed: its action is proposed and submitted to assessment
\* by the events of one bridge commit.  A full set of records without an
\* evictable one refuses the proposal.
Propose(a) ==
    /\ record[a].phase = "none"
    /\ \A b \in Action : b < a => record[b].phase # "none"
    /\ LET requested == [record EXCEPT ![a] = [phase |-> "active", status |-> "pending",
                                               evidence |-> NoEvidence]]
       IN \/ /\ Cardinality(Held) < Capacity
             /\ record' = requested
          \/ /\ Cardinality(Held) >= Capacity
             /\ \E b \in Evictable :
                  /\ \A c \in Evictable : b <= c
                  /\ record' = [requested EXCEPT ![b] = [NoRecord EXCEPT !.phase = "evicted"]]
    /\ log' = Append(log, Event("action.energy_requested", NoLease, a, NoEvidence))
    /\ UNCHANGED lease

\* The tool call is blocked, or its receipt is reconstructed.  Assessment does
\* not hold it up.
Settle(a) ==
    /\ record[a].phase = "active"
    /\ record' = [record EXCEPT ![a].phase = "settled"]
    /\ UNCHANGED <<lease, log>>

\* expires_at passes.
Expire(l) ==
    /\ lease[l].status = "pending" /\ lease[l].term = "running"
    /\ lease' = [lease EXCEPT ![l].term = "over"]
    /\ UNCHANGED <<record, log>>

-----------------------------------------------------------------------------
(* claim_energy_assessment *)

\* Mutant: an expired lease still takes the brain.
TakenForEver == \E l \in Lease : lease[l].status = "pending"

Taken == \E l \in Lease : lease[l].status = "pending" /\ lease[l].term = "running"

\* A claim supersedes the pending lease whose time is over.
Swept == [l \in Lease |-> IF lease[l].status = "pending" /\ lease[l].term = "over"
                          THEN [lease[l] EXCEPT !.status = "superseded"] ELSE lease[l]]

Decided(a) == \E l \in Lease : lease[l].action = a /\ lease[l].status \in {"completed", "failed"}

Candidates == {a \in Held : record[a].status = "pending" /\ ~Decided(a)}

\* The supersession is committed even if no action is left to assess.
ClaimNothing ==
    /\ Taken \/ Candidates = {}
    /\ lease' = IF Taken THEN lease ELSE Swept
    /\ UNCHANGED <<record, log>>

NewRow(a) == [status |-> "pending", action |-> a, term |-> "running",
              evidence |-> NoEvidence, at |-> Len(log) + 1, end |-> 0]

\* A fresh lease for the oldest pending action.
ClaimLease(l) ==
    /\ ~Taken
    /\ lease[l].status = "absent"
    /\ \E a \in Candidates :
         /\ \A b \in Candidates : a <= b
         /\ lease' = [Swept EXCEPT ![l] = NewRow(a)]
         /\ log' = Append(log, Event("cognition.requested", l, a, NoEvidence))
    /\ UNCHANGED record

-----------------------------------------------------------------------------
(* complete_energy_assessment and fail_energy_assessment *)

Supersede(l) ==
    /\ lease' = [lease EXCEPT ![l].status = "superseded"]
    /\ UNCHANGED <<record, log>>

\* The reducer, and for a completion the store too, wants the action held and
\* pending.
Assessable(a) == a \in Held /\ record[a].status = "pending"

InTime(l) ==
    /\ lease[l].status = "pending" /\ lease[l].term = "running"
    /\ Assessable(lease[l].action)

TooLate(l) == lease[l].status = "pending" /\ lease[l].term = "over"

\* Mutant: the lease is completed, the successor of the record is never published.
DecideUnpublished(l, evidence, cognition, verdict, row, status) ==
    LET a == lease[l].action
    IN /\ log' = Append(Append(log, Event(cognition, l, a, evidence)),
                        Event(verdict, l, a, evidence))
       /\ lease' = [lease EXCEPT ![l].status = row, ![l].evidence = evidence,
                                 ![l].end = Len(log) + 2]
       /\ UNCHANGED record

\* Mutant: the action event is written before the cognition event.
DecideSwapped(l, evidence, cognition, verdict, row, status) ==
    LET a == lease[l].action
    IN /\ log' = Append(Append(log, Event(verdict, l, a, evidence)),
                        Event(cognition, l, a, evidence))
       /\ record' = [record EXCEPT ![a].status = status, ![a].evidence = evidence]
       /\ lease' = [lease EXCEPT ![l].status = row, ![l].evidence = evidence,
                                 ![l].end = Len(log) + 2]

\* The cognition event, the action event, the action and the lease, in one
\* transaction.
Decide(l, evidence, cognition, verdict, row, status) ==
    LET a == lease[l].action
    IN /\ log' = Append(Append(log, Event(cognition, l, a, evidence)),
                        Event(verdict, l, a, evidence))
       /\ record' = [record EXCEPT ![a].status = status, ![a].evidence = evidence]
       /\ lease' = [lease EXCEPT ![l].status = row, ![l].evidence = evidence,
                                 ![l].end = Len(log) + 2]

\* The refused and the repeated calls change nothing.
Complete(l, choice) ==
    \/ /\ InTime(l)
       /\ Decide(l, choice, "cognition.completed", "action.energy_assessed",
                 "completed", "assessed")
    \/ TooLate(l) /\ Supersede(l)

Fail(l, code) ==
    \/ /\ InTime(l)
       /\ Decide(l, code, "cognition.failed", "action.energy_assessment_failed",
                 "failed", "failed")
    \/ TooLate(l) /\ Supersede(l)

\* Mutant: a late answer is acknowledged like one in time.
TerminalCodeOptimistic(l, row, evidence) ==
    CASE lease[l].status = "absent" -> "not_found"
      [] lease[l].status = row /\ lease[l].evidence = evidence -> row
      [] lease[l].status = row /\ lease[l].evidence # evidence -> "idempotency_conflict"
      [] lease[l].status \in {"completed", "failed", "superseded"} \ {row} -> "superseded"
      [] OTHER -> row

\* The answer to a completion (row = "completed") or a failure (row = "failed").
TerminalCode(l, row, evidence) ==
    CASE lease[l].status = "absent" -> "not_found"
      [] lease[l].status = row /\ lease[l].evidence = evidence -> row
      [] lease[l].status = row /\ lease[l].evidence # evidence -> "idempotency_conflict"
      [] lease[l].status \in {"completed", "failed", "superseded"} \ {row} -> "superseded"
      [] TooLate(l) -> "superseded"
      [] InTime(l) -> row
      [] OTHER -> "integrity"

-----------------------------------------------------------------------------
EnergyNext ==
    \/ \E a \in Action : Propose(a) \/ Settle(a)
    \/ ClaimNothing
    \/ \E l \in Lease :
          \/ Expire(l)
          \/ ClaimLease(l)
          \/ \E choice \in Choice : Complete(l, choice)
          \/ \E code \in FailureCode : Fail(l, code)

EnergySpec == EnergyInit /\ [][EnergyNext]_energyVars

-----------------------------------------------------------------------------
(* What the store promises *)

Verdict == {"completed", "failed"}

\* An action is decided at most once and by one lease, with the evidence which
\* that lease records; late, repeated and competing answers never decide it a
\* second time, and no record has a verdict without a lease.
DecidedOnce ==
    /\ \A l \in Lease : lease[l].status \in Verdict =>
          LET r == record[lease[l].action]
          IN \/ r.phase = "evicted"
             \/ /\ r.status = IF lease[l].status = "completed" THEN "assessed" ELSE "failed"
                /\ r.evidence = lease[l].evidence
    /\ \A a \in Action : record[a].status \in {"assessed", "failed"} => Decided(a)
    /\ \A l, m \in Lease :
          /\ lease[l].status \in Verdict /\ lease[m].status \in Verdict
          /\ lease[l].action = lease[m].action
          => l = m

\* At most one lease of the brain is pending, so the unique index over pending
\* leases never refuses a claim.
OnePending ==
    \A l, m \in Lease : lease[l].status = "pending" /\ lease[m].status = "pending" => l = m

\* The action of a pending lease is held and pending, whatever was proposed,
\* settled or evicted since the claim: an answer in time is never refused.
AnswerableLease ==
    \A l \in Lease : lease[l].status = "pending" => Assessable(lease[l].action)

PendingBefore(a, k) ==
    /\ \E j \in 1 .. (k - 1) : log[j].kind = "action.energy_requested" /\ log[j].action = a
    /\ \A j \in 1 .. (k - 1) : log[j].action = a =>
          log[j].kind \notin {"action.energy_assessed", "action.energy_assessment_failed"}

Chain(l, cognition, verdict) ==
    LET r == lease[l]
    IN /\ r.end \in 2 .. Len(log)
       /\ log[r.end - 1] = Event(cognition, l, r.action, r.evidence)
       /\ log[r.end] = Event(verdict, l, r.action, r.evidence)

RowAccepted(l) ==
    LET r == lease[l]
    IN /\ r.at \in 1 .. Len(log)
       /\ log[r.at] = Event("cognition.requested", l, r.action, NoEvidence)
       /\ PendingBefore(r.action, r.at)
       /\ r.status = "completed" => Chain(l, "cognition.completed", "action.energy_assessed")
       /\ r.status = "failed" => Chain(l, "cognition.failed", "action.energy_assessment_failed")

Covered(l) == {lease[l].at} \cup (IF lease[l].status \in Verdict
                                  THEN {lease[l].end - 1, lease[l].end} ELSE {})

\* The audit of the next start (_validate_energy_rows_in_transaction) accepts
\* what these operations wrote: every lease followed a pending action and has
\* its chain of events, and every reserved event belongs to exactly one lease.
\* A store that fails this audit does not open any more.
AuditAccepts ==
    /\ \A l \in Lease : lease[l].status # "absent" => RowAccepted(l)
    /\ \A k \in DOMAIN log : log[k].kind # "action.energy_requested" =>
          \E l \in Lease : lease[l].status # "absent" /\ k \in Covered(l)
    /\ \A l, m \in Lease : l # m /\ lease[l].status # "absent" /\ lease[m].status # "absent" =>
          Covered(l) \cap Covered(m) = {}

\* A verdict and a supersession are final: no late answer, retry or new claim
\* revises them.  Eviction is the only end of a decided record.
VerdictsAreFinal ==
    [][/\ \A a \in Action : record[a].status \in {"assessed", "failed"} =>
             \/ record'[a].status = record[a].status /\ record'[a].evidence = record[a].evidence
             \/ record'[a].phase = "evicted"
       /\ \A l \in Lease : lease[l].status \in Verdict \cup {"superseded"} =>
             lease'[l] = lease[l]]_energyVars

=============================================================================
