-------------------------- MODULE EnergyWorkersProofs --------------------------
(* Theorems about EnergyLeases and EnergyWorkers for every value of their
   constants: first the store alone, then the store under its workers. *)
EXTENDS EnergyWorkers, TLAPS

\* What a record is before its action is proposed and after it is given up, and
\* the action that every lease has.
RecordShape ==
    /\ \A a \in Action : record[a].phase \in {"none", "evicted"} => record[a].status = "unrequested"
    /\ \A l \in Lease : lease[l].status # "absent" => lease[l].action \in Action
    /\ \A l \in Lease : lease[l].status \in Verdict => record[lease[l].action].phase # "none"

\* The inductive invariant.  OnePending alone is inductive; DecidedOnce needs
\* AnswerableLease (a verdict meets a pending record, which has no verdict yet),
\* and that needs OnePending (no other pending lease loses its action then).
EnergyInv == EnergyTypeOK /\ RecordShape /\ OnePending /\ DecidedOnce /\ AnswerableLease

\* What the operations append is an event.
LEMMA EventTyped ==
    ASSUME NEW k \in EventKind, NEW l \in Lease \cup {NoLease}, NEW a \in Action,
           NEW e \in Evidence
    PROVE  Event(k, l, a, e) \in EventType
BY DEF Event, EventType

\* The invariant holds of the empty store.
LEMMA InitHolds == EnergyInit => EnergyInv
<1> SUFFICES ASSUME EnergyInit PROVE EnergyInv
  OBVIOUS
<1> USE DEF EnergyInit, NoRecord, NoRow
<1>1. EnergyTypeOK
  BY ActionAssumption DEF EnergyTypeOK, RecordType, LeaseType, Evidence
<1>2. RecordShape
  BY DEF RecordShape, Verdict
<1>3. OnePending /\ AnswerableLease
  BY DEF OnePending, AnswerableLease
<1>4. DecidedOnce
  BY DEF DecidedOnce, Verdict
<1>5. QED
  BY <1>1, <1>2, <1>3, <1>4 DEF EnergyInv

\* A proposal takes an unused record and evicts at most a settled one that is
\* not pending, hence not the action of the pending lease.
LEMMA ProposeHolds == ASSUME EnergyInv, NEW a \in Action, Propose(a) PROVE EnergyInv'
<1> DEFINE row == [phase |-> "active", status |-> "pending", evidence |-> NoEvidence]
<1> DEFINE gone == [NoRecord EXCEPT !.phase = "evicted"]
<1> USE DEF EnergyInv
<1>1. /\ record[a].phase = "none" /\ lease' = lease
      /\ log' = Append(log, Event("action.energy_requested", NoLease, a, NoEvidence))
  BY DEF Propose
<1>2. /\ row \in RecordType /\ row.phase = "active" /\ row.status = "pending"
      /\ gone \in RecordType /\ gone.phase = "evicted" /\ gone.status = "unrequested"
  BY DEF RecordType, Evidence, NoRecord
<1>3. /\ record' \in [Action -> RecordType] /\ record'[a] = row
      /\ \A b \in Action \ {a} :
            record'[b] = record[b] \/ (b \in Evictable /\ record'[b] = gone)
  <2>1. record \in [Action -> RecordType] /\ a \notin Evictable /\ Evictable \subseteq Action
    BY <1>1 DEF EnergyTypeOK, Evictable, Held
  <2>2. \/ record' = [record EXCEPT ![a] = row]
        \/ \E b \in Evictable : record' = [[record EXCEPT ![a] = row] EXCEPT ![b] = gone]
    BY DEF Propose
  <2> HIDE DEF row, gone
  <2>3. QED
    BY <1>2, <2>1, <2>2
<1> HIDE DEF row, gone
<1>4. /\ \A b \in Action : record[b].status \in {"assessed", "failed"} =>
            record'[b] = record[b] \/ record'[b] = gone
      /\ \A b \in Action : Assessable(b) => record'[b] = record[b]
      /\ \A b \in Action : record[b].phase # "none" =>
            record'[b] = record[b] \/ record'[b] = gone
      /\ \A b \in Action : record'[b] = record[b] \/ record'[b] = row \/ record'[b] = gone
  BY <1>1, <1>3 DEF Evictable, Held, Assessable, RecordShape
<1>5. EnergyTypeOK'
  <2>1. Event("action.energy_requested", NoLease, a, NoEvidence) \in EventType
    BY EventTyped DEF Evidence, EventKind
  <2>2. QED
    BY <1>1, <1>3, <2>1 DEF EnergyTypeOK
<1>6. RecordShape'
  BY <1>1, <1>2, <1>4 DEF RecordShape, Verdict
<1>7. OnePending'
  BY <1>1 DEF OnePending
<1>8. AnswerableLease'
  BY <1>1, <1>4 DEF AnswerableLease, Assessable, Held
<1>9. DecidedOnce'
  BY <1>1, <1>2, <1>4 DEF DecidedOnce, Decided, RecordShape, Verdict
<1>10. QED
  BY <1>5, <1>6, <1>7, <1>8, <1>9

\* Settling moves the phase only.
LEMMA SettleHolds == ASSUME EnergyInv, NEW a \in Action, Settle(a) PROVE EnergyInv'
<1> USE DEF EnergyInv
<1>1. /\ record[a].phase = "active" /\ lease' = lease /\ log' = log
      /\ record' \in [Action -> RecordType]
      /\ \A b \in Action : /\ record'[b].status = record[b].status
                           /\ record'[b].evidence = record[b].evidence
                           /\ b # a => record'[b] = record[b]
      /\ record'[a].phase = "settled"
  BY DEF Settle, EnergyTypeOK, RecordType
<1>2. EnergyTypeOK'
  BY <1>1 DEF EnergyTypeOK
<1>3. RecordShape'
  BY <1>1 DEF RecordShape, Verdict
<1>4. OnePending' /\ AnswerableLease'
  BY <1>1 DEF OnePending, AnswerableLease, Assessable, Held, RecordShape
<1>5. DecidedOnce'
  BY <1>1 DEF DecidedOnce, Decided, RecordShape, Verdict
<1>6. QED
  BY <1>2, <1>3, <1>4, <1>5

\* Steps that only move leases between pending, overdue and superseded.
LEMMA LeaseOnlyHolds ==
    ASSUME EnergyInv, UNCHANGED <<record, log>>, lease' \in [Lease -> LeaseType],
           \A l \in Lease :
              /\ lease'[l].action = lease[l].action /\ lease'[l].evidence = lease[l].evidence
              /\ \/ lease'[l].status = lease[l].status
                 \/ lease[l].status = "pending" /\ lease'[l].status = "superseded"
    PROVE  EnergyInv'
<1> USE DEF EnergyInv
<1>1. EnergyTypeOK'
  BY DEF EnergyTypeOK
<1>2. RecordShape'
  BY DEF RecordShape, Verdict
<1>3. OnePending' /\ AnswerableLease'
  BY DEF OnePending, AnswerableLease, Assessable, Held
<1>4. DecidedOnce'
  BY DEF DecidedOnce, Decided, RecordShape, Verdict
<1>5. QED
  BY <1>1, <1>2, <1>3, <1>4

\* A sweep leaves no lease pending that was overdue.
LEMMA SweptFacts ==
    ASSUME EnergyInv
    PROVE  /\ Swept \in [Lease -> LeaseType]
           /\ \A l \in Lease :
                 /\ Swept[l].action = lease[l].action /\ Swept[l].evidence = lease[l].evidence
                 /\ \/ Swept[l].status = lease[l].status
                    \/ lease[l].status = "pending" /\ Swept[l].status = "superseded"
                 /\ ~Taken => Swept[l].status # "pending"
BY DEF EnergyInv, EnergyTypeOK, LeaseType, Swept, Taken

\* The end of a term is no change of status.
LEMMA ExpireHolds == ASSUME EnergyInv, NEW l \in Lease, Expire(l) PROVE EnergyInv'
<1>1. /\ UNCHANGED <<record, log>> /\ lease' \in [Lease -> LeaseType]
      /\ \A m \in Lease :
            /\ lease'[m].action = lease[m].action /\ lease'[m].evidence = lease[m].evidence
            /\ lease'[m].status = lease[m].status
  BY DEF Expire, EnergyInv, EnergyTypeOK, LeaseType
<1>2. QED
  BY <1>1, LeaseOnlyHolds

\* A late answer supersedes its lease.
LEMMA SupersedeHolds ==
    ASSUME EnergyInv, NEW l \in Lease, lease[l].status = "pending", Supersede(l)
    PROVE  EnergyInv'
<1>1. /\ UNCHANGED <<record, log>> /\ lease' \in [Lease -> LeaseType]
      /\ \A m \in Lease :
            /\ lease'[m].action = lease[m].action /\ lease'[m].evidence = lease[m].evidence
            /\ \/ lease'[m].status = lease[m].status
               \/ lease[m].status = "pending" /\ lease'[m].status = "superseded"
  BY DEF Supersede, EnergyInv, EnergyTypeOK, LeaseType
<1>2. QED
  BY <1>1, LeaseOnlyHolds

\* A claim without a result only sweeps.
LEMMA ClaimNothingHolds == ASSUME EnergyInv, ClaimNothing PROVE EnergyInv'
<1>1. UNCHANGED <<record, log>> /\ (lease' = lease \/ lease' = Swept)
  BY DEF ClaimNothing
<1>2. lease \in [Lease -> LeaseType]
  BY DEF EnergyInv, EnergyTypeOK
<1>3. CASE lease' = lease
  BY <1>1, <1>2, <1>3, LeaseOnlyHolds
<1>4. CASE lease' = Swept
  BY <1>1, <1>4, SweptFacts, LeaseOnlyHolds
<1>5. QED
  BY <1>1, <1>3, <1>4

\* The new lease is the only pending one, because nothing is Taken and the sweep
\* left nothing pending; its action is a candidate, hence answerable.
LEMMA ClaimLeaseHolds == ASSUME EnergyInv, NEW l \in Lease, ClaimLease(l) PROVE EnergyInv'
<1> USE DEF EnergyInv
<1>1. PICK a \in Candidates :
         /\ lease' = [Swept EXCEPT ![l] = NewRow(a)]
         /\ log' = Append(log, Event("cognition.requested", l, a, NoEvidence))
  BY DEF ClaimLease
<1>2. /\ a \in Action /\ Assessable(a) /\ record' = record
      /\ lease[l].status = "absent" /\ ~Taken
  BY DEF Candidates, Assessable, Held, ClaimLease
<1>3. Len(log) + 1 \in Nat
  BY DEF EnergyTypeOK
<1>4. /\ lease' \in [Lease -> LeaseType]
      /\ lease'[l].status = "pending" /\ lease'[l].action = a
      /\ \A m \in Lease \ {l} : lease'[m] = Swept[m]
  <2>1. a \in 0 .. MaxAction /\ NoEvidence \in Evidence
    BY <1>2, ActionAssumption DEF Action, Evidence
  <2>2. NewRow(a) \in LeaseType /\ NewRow(a).status = "pending" /\ NewRow(a).action = a
    BY <1>3, <2>1 DEF NewRow, LeaseType
  <2>3. QED
    BY <1>1, <2>2, SweptFacts
<1>5. \A m \in Lease \ {l} :
         /\ lease'[m].action = lease[m].action /\ lease'[m].evidence = lease[m].evidence
         /\ lease'[m].status \in {lease[m].status, "superseded"} /\ lease'[m].status # "pending"
         /\ lease'[m].status \in Verdict <=> lease[m].status \in Verdict
         /\ lease'[m].status # "absent" <=> lease[m].status # "absent"
  BY <1>2, <1>4, SweptFacts DEF Verdict
<1>6. EnergyTypeOK'
  <2>1. Event("cognition.requested", l, a, NoEvidence) \in EventType
    BY <1>2, EventTyped DEF Evidence, EventKind
  <2>2. QED
    BY <1>1, <1>2, <1>4, <2>1 DEF EnergyTypeOK
<1>7. RecordShape'
  BY <1>2, <1>4, <1>5 DEF RecordShape, Verdict
<1>8. OnePending' /\ AnswerableLease'
  BY <1>2, <1>4, <1>5 DEF OnePending, AnswerableLease, Assessable, Held
<1>9. DecidedOnce'
  BY <1>2, <1>4, <1>5 DEF DecidedOnce, Decided, Verdict
<1>10. QED
  BY <1>6, <1>7, <1>8, <1>9

\* A verdict on the pending lease of an assessable action.
LEMMA DecideHolds ==
    ASSUME EnergyInv, NEW l \in Lease, NEW e \in Evidence, lease[l].status = "pending",
           NEW cognition \in EventKind, NEW verdict \in EventKind,
           NEW row, NEW status,
           \/ row = "completed" /\ status = "assessed"
           \/ row = "failed" /\ status = "failed",
           Decide(l, e, cognition, verdict, row, status)
    PROVE  EnergyInv'
<1> DEFINE a == lease[l].action
<1> USE DEF EnergyInv
<1>1. /\ a \in Action /\ Assessable(a)
      /\ record[a].phase \in {"active", "settled"} /\ record[a].status = "pending"
  BY DEF RecordShape, AnswerableLease, Assessable, Held
<1>2. /\ record' \in [Action -> RecordType]
      /\ record'[a].status = status /\ record'[a].evidence = e
      /\ record'[a].phase = record[a].phase
      /\ \A b \in Action : b # a => record'[b] = record[b]
  BY <1>1 DEF Decide, EnergyTypeOK, RecordType
<1>3. Len(log) + 2 \in Nat
  BY DEF EnergyTypeOK
<1>4. /\ lease' \in [Lease -> LeaseType]
      /\ lease'[l].status = row /\ lease'[l].evidence = e /\ lease'[l].action = a
      /\ \A m \in Lease : m # l => lease'[m] = lease[m]
  <2> DEFINE decided == [lease[l] EXCEPT !.status = row, !.evidence = e, !.end = Len(log) + 2]
  <2>1. lease \in [Lease -> LeaseType]
    BY DEF EnergyTypeOK
  <2>2. /\ decided \in LeaseType
        /\ decided.status = row /\ decided.evidence = e /\ decided.action = a
    BY <1>3, <2>1 DEF LeaseType
  <2>3. lease' = [lease EXCEPT ![l] = decided]
    BY <2>1 DEF Decide
  <2> HIDE DEF decided
  <2>4. QED
    BY <2>1, <2>2, <2>3
<1>5. \A m \in Lease : lease[m].status \in Verdict => lease[m].action # a
  BY <1>1 DEF DecidedOnce
<1>6. EnergyTypeOK'
  <2>1. Event(cognition, l, a, e) \in EventType /\ Event(verdict, l, a, e) \in EventType
    BY <1>1, EventTyped
  <2>2. log' = Append(Append(log, Event(cognition, l, a, e)), Event(verdict, l, a, e))
    BY DEF Decide
  <2>3. log' \in Seq(EventType)
    BY <2>1, <2>2 DEF EnergyTypeOK
  <2>4. QED
    BY <1>2, <1>4, <2>3 DEF EnergyTypeOK
<1> HIDE DEF a
<1>7. RecordShape'
  BY <1>1, <1>2, <1>4 DEF RecordShape, Verdict
<1>8. OnePending' /\ AnswerableLease'
  <2>1. \A m \in Lease : lease'[m].status = "pending" => FALSE
    BY <1>4 DEF OnePending
  <2>2. QED
    BY <2>1 DEF OnePending, AnswerableLease
<1>9. DecidedOnce'
  <2>1. \A b \in Action : record'[b].status \in {"assessed", "failed"} => Decided(b)'
    <3> SUFFICES ASSUME NEW b \in Action, record'[b].status \in {"assessed", "failed"}
                 PROVE  \E m \in Lease : lease'[m].action = b
                                         /\ lease'[m].status \in {"completed", "failed"}
      BY DEF Decided
    <3>1. CASE b = a
      BY <3>1, <1>4
    <3>2. CASE b # a
      BY <3>2, <1>2, <1>4 DEF DecidedOnce, Decided
    <3>3. QED
      BY <3>1, <3>2
  <2>2. QED
    BY <1>1, <1>2, <1>4, <1>5, <2>1 DEF DecidedOnce, RecordShape, Verdict
<1>10. QED
  BY <1>6, <1>7, <1>8, <1>9

\* A completion decides or supersedes.
LEMMA CompleteHolds ==
    ASSUME EnergyInv, NEW l \in Lease, NEW choice \in Choice, Complete(l, choice)
    PROVE  EnergyInv'
<1>1. CASE /\ InTime(l)
           /\ Decide(l, choice, "cognition.completed", "action.energy_assessed",
                     "completed", "assessed")
  BY <1>1, DecideHolds DEF InTime, Evidence, EventKind
<1>2. CASE TooLate(l) /\ Supersede(l)
  BY <1>2, SupersedeHolds DEF TooLate
<1>3. QED
  BY <1>1, <1>2 DEF Complete

\* A failure decides or supersedes.
LEMMA FailHolds ==
    ASSUME EnergyInv, NEW l \in Lease, NEW code \in FailureCode, Fail(l, code)
    PROVE  EnergyInv'
<1>1. CASE /\ InTime(l)
           /\ Decide(l, code, "cognition.failed", "action.energy_assessment_failed",
                     "failed", "failed")
  BY <1>1, DecideHolds DEF InTime, Evidence, EventKind
<1>2. CASE TooLate(l) /\ Supersede(l)
  BY <1>2, SupersedeHolds DEF TooLate
<1>3. QED
  BY <1>1, <1>2 DEF Fail

\* Every step preserves the invariant.
LEMMA StepHolds == EnergyInv /\ [EnergyNext]_energyVars => EnergyInv'
<1> SUFFICES ASSUME EnergyInv, [EnergyNext]_energyVars PROVE EnergyInv'
  OBVIOUS
<1>1. ASSUME NEW a \in Action, Propose(a) \/ Settle(a) PROVE EnergyInv'
  BY <1>1, ProposeHolds, SettleHolds
<1>2. CASE ClaimNothing
  BY <1>2, ClaimNothingHolds
<1>3. ASSUME NEW l \in Lease, Expire(l) \/ ClaimLease(l) PROVE EnergyInv'
  BY <1>3, ExpireHolds, ClaimLeaseHolds
<1>4. ASSUME NEW l \in Lease, NEW choice \in Choice, Complete(l, choice) PROVE EnergyInv'
  BY <1>4, CompleteHolds
<1>5. ASSUME NEW l \in Lease, NEW code \in FailureCode, Fail(l, code) PROVE EnergyInv'
  BY <1>5, FailHolds
<1>6. CASE UNCHANGED energyVars
  BY <1>6 DEF energyVars, EnergyInv, EnergyTypeOK, RecordShape, OnePending, DecidedOnce,
       Decided, AnswerableLease, Assessable, Held
<1>7. QED
  BY <1>1, <1>2, <1>3, <1>4, <1>5, <1>6 DEF EnergyNext

\* Action records, leases and events keep their types, an action gets at most
\* one verdict, at most one lease is pending and an answer in time is never
\* refused, for any number of actions, leases and callers.
THEOREM EnergyLeasesCorrect == EnergySpec => []EnergyInv
<1>1. QED
  BY InitHolds, StepHolds, PTL DEF EnergySpec

\* The tables and the log keep their types.
THEOREM EnergyTypeCorrect == EnergySpec => []EnergyTypeOK
<1>1. EnergyInv => EnergyTypeOK
  BY DEF EnergyInv
<1>2. QED
  BY <1>1, EnergyLeasesCorrect, PTL

\* An action is decided at most once, by one lease and with its evidence.
THEOREM EveryActionDecidedOnce == EnergySpec => []DecidedOnce
<1>1. EnergyInv => DecidedOnce
  BY DEF EnergyInv
<1>2. QED
  BY <1>1, EnergyLeasesCorrect, PTL

\* Whatever is evicted, the action of the pending lease is held and pending.
THEOREM PendingLeaseAnswerable == EnergySpec => [](OnePending /\ AnswerableLease)
<1>1. EnergyInv => OnePending /\ AnswerableLease
  BY DEF EnergyInv
<1>2. QED
  BY <1>1, EnergyLeasesCorrect, PTL

-----------------------------------------------------------------------------
(* Verdicts are final *)

RecordKept(a) ==
    record[a].status \in {"assessed", "failed"} =>
       \/ record'[a].status = record[a].status /\ record'[a].evidence = record[a].evidence
       \/ record'[a].phase = "evicted"

LeaseKept(l) == lease[l].status \in Verdict \cup {"superseded"} => lease'[l] = lease[l]

\* Proposals and settlements keep what VerdictsAreFinal protects.
LEMMA ObservedKept ==
    ASSUME EnergyInv, NEW a \in Action, Propose(a) \/ Settle(a)
    PROVE  /\ \A b \in Action : RecordKept(b)
           /\ \A l \in Lease : LeaseKept(l)
<1> DEFINE row == [phase |-> "active", status |-> "pending", evidence |-> NoEvidence]
<1> DEFINE gone == [NoRecord EXCEPT !.phase = "evicted"]
<1>1. record \in [Action -> RecordType] /\ lease' = lease
  BY DEF EnergyInv, EnergyTypeOK, Propose, Settle
<1>2. \A l \in Lease : LeaseKept(l)
  BY <1>1 DEF LeaseKept
<1>3. CASE Settle(a)
  BY <1>1, <1>2, <1>3 DEF Settle, RecordKept, RecordType
<1>4. CASE Propose(a)
  <2>1. /\ record[a].phase = "none" /\ record[a].status = "unrequested"
        /\ Evictable \subseteq Action /\ gone.phase = "evicted"
    BY <1>4 DEF Propose, EnergyInv, RecordShape, Evictable, Held, NoRecord
  <2>2. \/ record' = [record EXCEPT ![a] = row]
        \/ \E b \in Evictable : record' = [[record EXCEPT ![a] = row] EXCEPT ![b] = gone]
    BY <1>4 DEF Propose
  <2> HIDE DEF row, gone
  <2>3. QED
    BY <1>1, <1>2, <2>1, <2>2 DEF RecordKept
<1>5. QED
  BY <1>3, <1>4

\* So do answers: a decided or superseded lease is not in time and not too late.
LEMMA AnsweredKept ==
    ASSUME EnergyInv, NEW l \in Lease, NEW e, NEW cognition, NEW verdict, NEW row, NEW status,
           \/ InTime(l) /\ Decide(l, e, cognition, verdict, row, status)
           \/ TooLate(l) /\ Supersede(l)
    PROVE  /\ \A b \in Action : RecordKept(b)
           /\ \A m \in Lease : LeaseKept(m)
<1>1. /\ record \in [Action -> RecordType] /\ lease \in [Lease -> LeaseType]
      /\ lease[l].status = "pending"
  BY DEF EnergyInv, EnergyTypeOK, InTime, TooLate
<1>2. \A m \in Lease : LeaseKept(m)
  BY <1>1 DEF LeaseKept, Verdict, Decide, Supersede
<1>3. CASE TooLate(l) /\ Supersede(l)
  BY <1>2, <1>3 DEF Supersede, RecordKept
<1>4. CASE InTime(l) /\ Decide(l, e, cognition, verdict, row, status)
  <2>1. record[lease[l].action].status = "pending"
    BY <1>4 DEF InTime, Assessable
  <2>2. \A b \in Action : b # lease[l].action => record'[b] = record[b]
    BY <1>1, <1>4 DEF Decide
  <2>3. QED
    BY <1>2, <2>1, <2>2 DEF RecordKept
<1>5. QED
  BY <1>3, <1>4

\* No step revises a verdict or a supersession.
LEMMA KeptStep ==
    ASSUME EnergyInv, [EnergyNext]_energyVars
    PROVE  (\A a \in Action : RecordKept(a)) /\ (\A l \in Lease : LeaseKept(l))
<1>1. ASSUME NEW a \in Action, Propose(a) \/ Settle(a)
      PROVE  (\A b \in Action : RecordKept(b)) /\ (\A l \in Lease : LeaseKept(l))
  BY <1>1, ObservedKept
<1>2. ASSUME record' = record, \A l \in Lease : LeaseKept(l)
      PROVE  (\A b \in Action : RecordKept(b)) /\ (\A l \in Lease : LeaseKept(l))
  BY <1>2 DEF RecordKept
<1>3. CASE ClaimNothing
  BY <1>2, <1>3 DEF ClaimNothing, Swept, LeaseKept, Verdict, EnergyInv, EnergyTypeOK
<1>4. ASSUME NEW l \in Lease, Expire(l) \/ ClaimLease(l)
      PROVE  (\A b \in Action : RecordKept(b)) /\ (\A m \in Lease : LeaseKept(m))
  BY <1>2, <1>4 DEF Expire, ClaimLease, Swept, LeaseKept, Verdict, EnergyInv, EnergyTypeOK
<1>5. ASSUME NEW l \in Lease, NEW choice \in Choice, Complete(l, choice)
      PROVE  (\A b \in Action : RecordKept(b)) /\ (\A m \in Lease : LeaseKept(m))
  BY <1>5, AnsweredKept DEF Complete
<1>6. ASSUME NEW l \in Lease, NEW code \in FailureCode, Fail(l, code)
      PROVE  (\A b \in Action : RecordKept(b)) /\ (\A m \in Lease : LeaseKept(m))
  BY <1>6, AnsweredKept DEF Fail
<1>7. CASE UNCHANGED energyVars
  BY <1>7 DEF energyVars, RecordKept, LeaseKept
<1>8. QED
  BY <1>1, <1>3, <1>4, <1>5, <1>6, <1>7 DEF EnergyNext

\* Neither a late answer nor a retry nor a new claim revises a verdict or a
\* supersession.
THEOREM VerdictsFinal == EnergySpec => VerdictsAreFinal
<1>1. ASSUME EnergyInv, [EnergyNext]_energyVars
      PROVE  [/\ \A a \in Action : record[a].status \in {"assessed", "failed"} =>
                    \/ record'[a].status = record[a].status /\ record'[a].evidence = record[a].evidence
                    \/ record'[a].phase = "evicted"
              /\ \A l \in Lease : lease[l].status \in Verdict \cup {"superseded"} =>
                    lease'[l] = lease[l]]_energyVars
  BY <1>1, KeptStep DEF RecordKept, LeaseKept
<1>2. QED
  BY <1>1, EnergyLeasesCorrect, PTL DEF EnergySpec, VerdictsAreFinal

-----------------------------------------------------------------------------
(* The audit of the next start *)

\* PendingBefore of a history h that is written out.
PendingIn(h, a, k) ==
    /\ \E j \in 1 .. (k - 1) : h[j].kind = "action.energy_requested" /\ h[j].action = a
    /\ \A j \in 1 .. (k - 1) : h[j].action = a =>
          h[j].kind \notin {"action.energy_assessed", "action.energy_assessment_failed"}

\* What the audit finds, and what a claim and a proposal rely on: the events of a
\* pending action, and of an action that was not proposed yet.
AuditInv ==
    /\ AuditAccepts
    /\ \A a \in Action :
          /\ record[a].status = "pending" => PendingIn(log, a, Len(log) + 1)
          /\ record[a].phase = "none" => \A j \in 1 .. Len(log) : log[j].action # a

\* A row as it was, or superseded.
RowSame(l) ==
    /\ lease'[l].action = lease[l].action /\ lease'[l].evidence = lease[l].evidence
    /\ lease'[l].at = lease[l].at /\ lease'[l].end = lease[l].end
    /\ \/ lease'[l].status = lease[l].status
       \/ lease[l].status = "pending" /\ lease'[l].status = "superseded"

ExtendsTo(g, h) == Len(g) <= Len(h) /\ \A j \in 1 .. Len(g) : h[j] = g[j]

\* An append changes nothing of what an earlier position finds before it.
LEMMA PendingKept ==
    ASSUME NEW g \in Seq(EventType), NEW h \in Seq(EventType), ExtendsTo(g, h),
           NEW a, NEW k \in 1 .. (Len(g) + 1), PendingIn(g, a, k)
    PROVE  PendingIn(h, a, k)
<1>1. Len(g) \in Nat /\ \A j \in 1 .. (k - 1) : j \in 1 .. Len(g) /\ h[j] = g[j]
  BY DEF ExtendsTo
<1>2. QED
  BY <1>1 DEF PendingIn

\* Nor does it change the chain of a verdict.
LEMMA ChainKept ==
    ASSUME EnergyTypeOK, EnergyTypeOK', ExtendsTo(log, log'), NEW l \in Lease, RowSame(l),
           NEW c, NEW v, Chain(l, c, v)
    PROVE  Chain(l, c, v)'
<1>1. /\ Len(log) \in Nat /\ Len(log') \in Nat /\ Len(log) <= Len(log')
      /\ lease[l].end \in 2 .. Len(log) /\ lease[l].end \in Nat
      /\ lease'[l].end = lease[l].end /\ lease'[l].action = lease[l].action
      /\ lease'[l].evidence = lease[l].evidence
  BY DEF EnergyTypeOK, ExtendsTo, Chain, RowSame, LeaseType
<1>2. /\ lease[l].end \in 1 .. Len(log) /\ lease[l].end - 1 \in 1 .. Len(log)
      /\ lease[l].end \in 2 .. Len(log')
  BY <1>1
<1>3. log'[lease[l].end] = log[lease[l].end] /\ log'[lease[l].end - 1] = log[lease[l].end - 1]
  BY <1>2 DEF ExtendsTo
<1>4. QED
  BY <1>1, <1>2, <1>3 DEF Chain

\* An accepted row stays accepted and covers the same events.
LEMMA RowKept ==
    ASSUME EnergyInv, ExtendsTo(log, log'), EnergyTypeOK', NEW l \in Lease,
           lease[l].status # "absent", RowAccepted(l), RowSame(l)
    PROVE  RowAccepted(l)' /\ Covered(l)' = Covered(l) /\ Covered(l) \subseteq 1 .. Len(log)
<1> USE DEF EnergyInv
<1>1. lease[l].action \in Action
  BY DEF RecordShape
<1>2. /\ Len(log) \in Nat /\ Len(log') \in Nat /\ Len(log) <= Len(log')
      /\ log \in Seq(EventType) /\ log' \in Seq(EventType)
      /\ lease[l].at \in 1 .. Len(log) /\ lease[l].at \in 1 .. (Len(log) + 1)
      /\ lease'[l].at = lease[l].at /\ lease'[l].action = lease[l].action
  BY DEF EnergyTypeOK, ExtendsTo, RowAccepted, RowSame
<1>3. PendingIn(log', lease'[l].action, lease'[l].at)
  <2>1. PendingIn(log, lease[l].action, lease[l].at)
    BY DEF RowAccepted, PendingBefore, PendingIn
  <2>2. QED
    BY <1>2, <2>1, PendingKept
<1>4. log'[lease'[l].at] = Event("cognition.requested", l, lease'[l].action, NoEvidence)
  BY <1>2 DEF RowAccepted, ExtendsTo
<1>5. lease'[l].status \in Verdict => lease'[l].status = lease[l].status
  BY DEF RowSame, Verdict
<1>6. /\ lease'[l].status = "completed" =>
            Chain(l, "cognition.completed", "action.energy_assessed")'
      /\ lease'[l].status = "failed" =>
            Chain(l, "cognition.failed", "action.energy_assessment_failed")'
  BY <1>5, ChainKept DEF RowAccepted, Verdict
<1>7. RowAccepted(l)'
  <2>1. lease'[l].at \in 1 .. Len(log')
    BY <1>2
  <2>2. PendingBefore(lease[l].action, lease[l].at)'
    BY <1>3 DEF PendingBefore, PendingIn
  <2>3. QED
    BY <1>4, <1>6, <2>1, <2>2 DEF RowAccepted
<1>8. Covered(l)' = Covered(l)
  BY DEF Covered, RowSame, Verdict
<1>9. Covered(l) \subseteq 1 .. Len(log)
  <2>1. lease[l].status \in Verdict => lease[l].end \in 2 .. Len(log)
    BY DEF RowAccepted, Chain, Verdict
  <2>2. lease[l].status \in Verdict => lease[l].end \in 1 .. Len(log) /\ lease[l].end - 1 \in 1 .. Len(log)
    BY <1>2, <2>1
  <2>3. QED
    BY <1>2, <2>2 DEF Covered
<1>10. QED
  BY <1>7, <1>8, <1>9

\* Steps without an event.
LEMMA SilentAudit ==
    ASSUME EnergyInv, EnergyTypeOK', AuditInv, log' = log,
           \A l \in Lease : RowSame(l),
           \A a \in Action : /\ record'[a].status = record[a].status
                             /\ record'[a].phase = "none" => record[a].phase = "none"
    PROVE  AuditInv'
<1>1. ExtendsTo(log, log')
  BY DEF ExtendsTo, EnergyInv, EnergyTypeOK
<1>2. \A l \in Lease : lease'[l].status # "absent" <=> lease[l].status # "absent"
  BY DEF RowSame
<1>3. \A l \in Lease : lease'[l].status # "absent" =>
         RowAccepted(l)' /\ Covered(l)' = Covered(l)
  BY <1>1, <1>2, RowKept DEF AuditInv, AuditAccepts
<1>4. AuditAccepts'
  <2>1. \A l \in Lease : lease[l].status # "absent" => Covered(l)' = Covered(l)
    BY <1>2, <1>3
  <2>2. \A l, m \in Lease : l # m /\ lease'[l].status # "absent" /\ lease'[m].status # "absent" =>
           Covered(l)' \cap Covered(m)' = {}
    BY <1>2, <2>1 DEF AuditInv, AuditAccepts
  <2>3. \A k \in DOMAIN log' : log'[k].kind # "action.energy_requested" =>
           \E l \in Lease : lease'[l].status # "absent" /\ k \in Covered(l)'
    BY <1>2, <2>1 DEF AuditInv, AuditAccepts
  <2>4. QED
    BY <1>3, <2>2, <2>3 DEF AuditAccepts
<1>5. \A a \in Action :
         /\ record'[a].status = "pending" => PendingIn(log', a, Len(log') + 1)
         /\ record'[a].phase = "none" => \A j \in 1 .. Len(log') : log'[j].action # a
  BY DEF AuditInv
<1>6. QED
  BY <1>4, <1>5 DEF AuditInv

\* An event after which an action is still pending, or of another one.
LEMMA PendingAppended ==
    ASSUME NEW g \in Seq(EventType), NEW e \in EventType, NEW a,
           PendingIn(g, a, Len(g) + 1),
           e.action = a =>
              e.kind \notin {"action.energy_assessed", "action.energy_assessment_failed"}
    PROVE  PendingIn(Append(g, e), a, Len(Append(g, e)) + 1)
<1> DEFINE h == Append(g, e)
<1>1. /\ Len(g) \in Nat /\ Len(h) = Len(g) + 1 /\ h[Len(g) + 1] = e
      /\ \A j \in 1 .. Len(g) : h[j] = g[j]
  OBVIOUS
<1> HIDE DEF h
<1>2. 1 .. ((Len(g) + 1) - 1) = 1 .. Len(g) /\ 1 .. ((Len(h) + 1) - 1) = 1 .. (Len(g) + 1)
  BY <1>1
<1>3. PendingIn(h, a, Len(h) + 1)
  BY <1>1, <1>2 DEF PendingIn
<1>4. QED
  BY <1>3 DEF h

\* What an append does to positions.
LEMMA AppendFacts ==
    ASSUME NEW g \in Seq(EventType), NEW e \in EventType
    PROVE  /\ Append(g, e) \in Seq(EventType) /\ ExtendsTo(g, Append(g, e))
           /\ Len(g) \in Nat /\ Len(Append(g, e)) = Len(g) + 1
           /\ Append(g, e)[Len(g) + 1] = e
           /\ \A k \in DOMAIN Append(g, e) :
                 k = Len(g) + 1 \/ (k \in DOMAIN g /\ Append(g, e)[k] = g[k])
BY DEF ExtendsTo

\* A proposal is the first event of its action.
LEMMA ProposeAudit ==
    ASSUME EnergyInv, EnergyTypeOK', AuditInv, NEW a \in Action, Propose(a)
    PROVE  AuditInv'
<1> DEFINE row == [phase |-> "active", status |-> "pending", evidence |-> NoEvidence]
<1> DEFINE gone == [NoRecord EXCEPT !.phase = "evicted"]
<1> DEFINE e == Event("action.energy_requested", NoLease, a, NoEvidence)
<1>1. lease' = lease /\ record[a].phase = "none" /\ log' = Append(log, e)
  BY DEF Propose
<1>2. /\ record \in [Action -> RecordType] /\ log \in Seq(EventType)
      /\ a \notin Evictable /\ Evictable \subseteq Action
      /\ gone.phase = "evicted" /\ gone.status = "unrequested" /\ row.phase = "active"
  BY <1>1 DEF EnergyInv, EnergyTypeOK, Evictable, Held, NoRecord
<1>3. \/ record' = [record EXCEPT ![a] = row]
      \/ \E b \in Evictable : record' = [[record EXCEPT ![a] = row] EXCEPT ![b] = gone]
  BY DEF Propose
<1> HIDE DEF row, gone
<1>4. \A b \in Action :
         /\ record'[b].status = "pending" => b = a \/ record[b].status = "pending"
         /\ record'[b].phase = "none" => b # a /\ record[b].phase = "none"
  BY <1>2, <1>3
<1>5. e.action = a /\ e.kind = "action.energy_requested" /\ e \in EventType
  BY EventTyped DEF Event, Evidence, EventKind
<1> HIDE DEF e
<1>6. /\ ExtendsTo(log, log') /\ Len(log') = Len(log) + 1 /\ log'[Len(log) + 1] = e
      /\ Len(log) \in Nat
      /\ \A k \in DOMAIN log' : k = Len(log) + 1 \/ (k \in DOMAIN log /\ log'[k] = log[k])
  BY <1>1, <1>2, <1>5, AppendFacts
<1>7. \A l \in Lease : lease[l].status # "absent" => RowAccepted(l)' /\ Covered(l)' = Covered(l)
  BY <1>1, <1>6, RowKept DEF AuditInv, AuditAccepts, RowSame
<1>8. AuditAccepts'
  <2>1. \A k \in DOMAIN log' : log'[k].kind # "action.energy_requested" =>
           \E l \in Lease : lease'[l].status # "absent" /\ k \in Covered(l)'
    BY <1>1, <1>5, <1>6, <1>7 DEF AuditInv, AuditAccepts
  <2>2. QED
    BY <1>1, <1>7, <2>1 DEF AuditInv, AuditAccepts
<1>9. \A b \in Action : record'[b].status = "pending" => PendingIn(log', b, Len(log') + 1)
  <2> SUFFICES ASSUME NEW b \in Action, record'[b].status = "pending"
               PROVE  PendingIn(log', b, Len(log') + 1)
    OBVIOUS
  <2>1. CASE b = a
    <3>1. \A j \in 1 .. Len(log) : log[j].action # a /\ log'[j] = log[j]
      BY <1>1, <1>6 DEF AuditInv, ExtendsTo
    <3>2. 1 .. ((Len(log') + 1) - 1) = 1 .. (Len(log) + 1)
      BY <1>6
    <3>3. QED
      BY <1>5, <1>6, <2>1, <3>1, <3>2 DEF PendingIn
  <2>2. CASE b # a
    <3>1. PendingIn(log, b, Len(log) + 1)
      BY <1>4, <2>2 DEF AuditInv
    <3>2. QED
      BY <1>1, <1>2, <1>5, <3>1, PendingAppended
  <2>3. QED
    BY <2>1, <2>2
<1>10. \A b \in Action : record'[b].phase = "none" => \A j \in 1 .. Len(log') : log'[j].action # b
  BY <1>2, <1>4, <1>5, <1>6 DEF AuditInv, ExtendsTo
<1>11. QED
  BY <1>8, <1>9, <1>10 DEF AuditInv

\* A claim is for a pending action; its event is the new row's alone.
LEMMA ClaimAudit ==
    ASSUME EnergyInv, EnergyTypeOK', AuditInv, NEW l \in Lease, ClaimLease(l)
    PROVE  AuditInv'
<1>1. PICK a \in Candidates :
         /\ lease' = [Swept EXCEPT ![l] = NewRow(a)]
         /\ log' = Append(log, Event("cognition.requested", l, a, NoEvidence))
  BY DEF ClaimLease
<1> DEFINE e == Event("cognition.requested", l, a, NoEvidence)
<1>2. /\ a \in Action /\ record[a].status = "pending" /\ record' = record
      /\ lease[l].status = "absent" /\ log \in Seq(EventType)
      /\ lease \in [Lease -> LeaseType]
  BY DEF Candidates, Held, ClaimLease, EnergyInv, EnergyTypeOK
<1>3. e.action = a /\ e.kind = "cognition.requested" /\ e \in EventType /\ log' = Append(log, e)
  BY <1>1, <1>2, EventTyped DEF Event, Evidence, EventKind
<1>4. /\ lease'[l].status = "pending" /\ lease'[l].action = a /\ lease'[l].at = Len(log) + 1
      /\ \A m \in Lease \ {l} : RowSame(m)
  BY <1>1, <1>2 DEF Swept, NewRow, RowSame, LeaseType
<1>5. /\ ExtendsTo(log, log') /\ Len(log') = Len(log) + 1 /\ log'[Len(log) + 1] = e
      /\ Len(log) \in Nat /\ log' \in Seq(EventType)
      /\ \A k \in DOMAIN log' : k = Len(log) + 1 \/ (k \in DOMAIN log /\ log'[k] = log[k])
  BY <1>2, <1>3, AppendFacts
<1>6. \A m \in Lease \ {l} :
         /\ lease'[m].status # "absent" <=> lease[m].status # "absent"
         /\ lease[m].status # "absent" =>
               /\ RowAccepted(m)' /\ Covered(m)' = Covered(m)
               /\ Len(log) + 1 \notin Covered(m)
  <2>1. \A m \in Lease \ {l} : lease'[m].status # "absent" <=> lease[m].status # "absent"
    BY <1>4 DEF RowSame
  <2>2. \A m \in Lease \ {l} : lease[m].status # "absent" =>
           RowAccepted(m)' /\ Covered(m)' = Covered(m) /\ Covered(m) \subseteq 1 .. Len(log)
    BY <1>4, <1>5, RowKept DEF AuditInv, AuditAccepts
  <2>3. Len(log) + 1 \notin 1 .. Len(log)
    BY <1>5
  <2>4. QED
    BY <2>1, <2>2, <2>3
<1>7. RowAccepted(l)' /\ Covered(l)' = {Len(log) + 1}
  <2>1. PendingIn(log', a, Len(log) + 1)
    BY <1>2, <1>5, PendingKept DEF AuditInv
  <2>2. PendingBefore(lease[l].action, lease[l].at)'
    BY <1>4, <2>1 DEF PendingBefore, PendingIn
  <2>3. lease'[l].at \in 1 .. Len(log') /\ log'[lease'[l].at] = e
    BY <1>4, <1>5
  <2>4. QED
    BY <1>4, <2>2, <2>3 DEF RowAccepted, Covered, Verdict
<1> HIDE DEF e
<1>8. AuditAccepts'
  <2>1. \A m \in Lease : lease'[m].status # "absent" => RowAccepted(m)'
    BY <1>6, <1>7
  <2>2. \A k \in DOMAIN log' : log'[k].kind # "action.energy_requested" =>
           \E m \in Lease : lease'[m].status # "absent" /\ k \in Covered(m)'
    <3> SUFFICES ASSUME NEW k \in DOMAIN log', log'[k].kind # "action.energy_requested"
                 PROVE  \E m \in Lease : lease'[m].status # "absent" /\ k \in Covered(m)'
      OBVIOUS
    <3>1. CASE k = Len(log) + 1
      BY <1>4, <1>7, <3>1
    <3>2. CASE k \in DOMAIN log /\ log'[k] = log[k]
      <4>1. PICK m \in Lease : lease[m].status # "absent" /\ k \in Covered(m)
        BY <3>2 DEF AuditInv, AuditAccepts
      <4>2. m # l
        BY <1>2, <4>1
      <4>3. QED
        BY <1>6, <4>1, <4>2
    <3>3. QED
      BY <1>5, <3>1, <3>2
  <2>3. \A m, n \in Lease : m # n /\ lease'[m].status # "absent" /\ lease'[n].status # "absent" =>
           Covered(m)' \cap Covered(n)' = {}
    BY <1>6, <1>7 DEF AuditInv, AuditAccepts
  <2>4. QED
    BY <2>1, <2>2, <2>3 DEF AuditAccepts
<1>9. \A b \in Action : record'[b].status = "pending" => PendingIn(log', b, Len(log') + 1)
  BY <1>2, <1>3, PendingAppended DEF AuditInv
<1>10. \A b \in Action : record'[b].phase = "none" => \A j \in 1 .. Len(log') : log'[j].action # b
  <2>1. record[a].phase # "none"
    BY <1>1 DEF Candidates, Held
  <2>2. QED
    BY <1>2, <1>3, <1>5, <2>1 DEF AuditInv, ExtendsTo
<1>11. QED
  BY <1>8, <1>9, <1>10 DEF AuditInv

\* A verdict appends its chain; the action is not pending afterwards.
LEMMA DecideAudit ==
    ASSUME EnergyInv, EnergyTypeOK', AuditInv, NEW l \in Lease, NEW ev \in Evidence,
           lease[l].status = "pending", NEW cognition, NEW verdict, NEW row, NEW status,
           \/ /\ row = "completed" /\ status = "assessed"
              /\ cognition = "cognition.completed" /\ verdict = "action.energy_assessed"
           \/ /\ row = "failed" /\ status = "failed"
              /\ cognition = "cognition.failed" /\ verdict = "action.energy_assessment_failed",
           Decide(l, ev, cognition, verdict, row, status)
    PROVE  AuditInv'
<1> DEFINE a == lease[l].action
<1> DEFINE c == Event(cognition, l, a, ev)
<1> DEFINE v == Event(verdict, l, a, ev)
<1> DEFINE half == Append(log, c)
<1>1. /\ a \in Action /\ record[a].phase # "none" /\ log \in Seq(EventType)
      /\ record \in [Action -> RecordType] /\ lease \in [Lease -> LeaseType]
      /\ log' = Append(half, v)
  BY DEF EnergyInv, AnswerableLease, Assessable, Held, EnergyTypeOK, Decide
<1>2. /\ c \in EventType /\ v \in EventType /\ c.action = a /\ v.action = a
      /\ c.kind = cognition /\ v.kind = verdict
  BY <1>1, EventTyped DEF Event, EventKind
<1>3. /\ status # "pending" /\ row \in Verdict
      /\ \A b \in Action : /\ record'[b].status = "pending" => b # a /\ record[b].status = "pending"
                           /\ record'[b].phase = record[b].phase
  BY <1>1 DEF Decide, Verdict, RecordType
<1>4. /\ lease'[l].status = row /\ lease'[l].evidence = ev /\ lease'[l].action = a
      /\ lease'[l].at = lease[l].at /\ lease'[l].end = Len(log) + 2
      /\ \A m \in Lease \ {l} : lease'[m] = lease[m]
  BY <1>1 DEF Decide, LeaseType
<1> HIDE DEF a, c, v
<1>5. /\ half \in Seq(EventType) /\ log' \in Seq(EventType)
      /\ Len(log) \in Nat /\ Len(half) = Len(log) + 1 /\ Len(log') = Len(log) + 2
      /\ half[Len(log) + 1] = c /\ log'[Len(log) + 2] = v /\ log'[Len(log) + 1] = c
      /\ ExtendsTo(log, half) /\ ExtendsTo(log, log')
      /\ \A k \in DOMAIN log' : \/ k \in {Len(log) + 1, Len(log) + 2}
                                \/ k \in DOMAIN log /\ log'[k] = log[k]
  <2>1. /\ half \in Seq(EventType) /\ ExtendsTo(log, half)
        /\ Len(log) \in Nat /\ Len(half) = Len(log) + 1 /\ half[Len(log) + 1] = c
        /\ \A k \in DOMAIN half : k = Len(log) + 1 \/ (k \in DOMAIN log /\ half[k] = log[k])
    BY <1>1, <1>2, AppendFacts
  <2> HIDE DEF half
  <2>2. /\ log' \in Seq(EventType) /\ ExtendsTo(half, log')
        /\ Len(log') = Len(half) + 1 /\ log'[Len(half) + 1] = v
        /\ \A k \in DOMAIN log' : k = Len(half) + 1 \/ (k \in DOMAIN half /\ log'[k] = half[k])
    BY <1>1, <1>2, <2>1, AppendFacts
  <2>3. (Len(log) + 1) + 1 = Len(log) + 2 /\ Len(log) + 1 \in 1 .. Len(half)
    BY <2>1
  <2>4. log'[Len(log) + 1] = c
    BY <2>1, <2>2, <2>3 DEF ExtendsTo
  <2>5. ExtendsTo(log, log')
    BY <2>1, <2>2, <2>3 DEF ExtendsTo
  <2>6. QED
    BY <2>1, <2>2, <2>3, <2>4, <2>5
<1> HIDE DEF half
<1>6. \A m \in Lease : lease[m].status # "absent" =>
         Covered(m) \subseteq 1 .. Len(log) /\ (m # l => RowAccepted(m)' /\ Covered(m)' = Covered(m))
  <2>1. \A m \in Lease \ {l} : RowSame(m)
    BY <1>4 DEF RowSame
  <2>2. Covered(l) = {lease[l].at} /\ lease[l].at \in 1 .. Len(log)
    BY DEF Covered, Verdict, AuditInv, AuditAccepts, RowAccepted
  <2>3. QED
    BY <1>5, <2>1, <2>2, RowKept DEF AuditInv, AuditAccepts
<1>7. /\ lease[l].at \in 1 .. Len(log) /\ log[lease[l].at] = Event("cognition.requested", l, a, NoEvidence)
      /\ PendingIn(log, a, lease[l].at) /\ Covered(l) = {lease[l].at}
  BY DEF AuditInv, AuditAccepts, RowAccepted, Covered, Verdict, PendingBefore, PendingIn, a
<1>8. Covered(l)' = {lease[l].at, Len(log) + 1, Len(log) + 2}
  BY <1>3, <1>4, <1>5 DEF Covered
<1>9. RowAccepted(l)'
  <2>1. /\ lease'[l].at \in 1 .. Len(log') /\ lease[l].at \in 1 .. (Len(log) + 1)
        /\ log'[lease'[l].at] = log[lease[l].at]
        /\ lease'[l].end \in 2 .. Len(log') /\ lease'[l].end - 1 = Len(log) + 1
    BY <1>4, <1>5, <1>7 DEF ExtendsTo
  <2>2. PendingIn(log', a, lease[l].at)
    BY <1>1, <1>5, <1>7, <2>1, PendingKept
  <2>3. PendingBefore(lease[l].action, lease[l].at)'
    BY <1>4, <2>2 DEF PendingBefore, PendingIn
  <2>4. Chain(l, cognition, verdict)'
    BY <1>4, <1>5, <2>1 DEF Chain, c, v
  <2>5. QED
    BY <1>4, <1>7, <2>1, <2>3, <2>4 DEF RowAccepted
<1>10. AuditAccepts'
  <2>1. \A m \in Lease : lease'[m].status # "absent" => RowAccepted(m)'
    BY <1>4, <1>6, <1>9
  <2>2. \A k \in DOMAIN log' : log'[k].kind # "action.energy_requested" =>
           \E m \in Lease : lease'[m].status # "absent" /\ k \in Covered(m)'
    <3> SUFFICES ASSUME NEW k \in DOMAIN log', log'[k].kind # "action.energy_requested"
                 PROVE  \E m \in Lease : lease'[m].status # "absent" /\ k \in Covered(m)'
      OBVIOUS
    <3>1. CASE k \in {Len(log) + 1, Len(log) + 2}
      BY <1>3, <1>4, <1>8, <3>1 DEF Verdict
    <3>2. CASE k \in DOMAIN log /\ log'[k] = log[k]
      <4>1. PICK m \in Lease : lease[m].status # "absent" /\ k \in Covered(m)
        BY <3>2 DEF AuditInv, AuditAccepts
      <4>2. CASE m = l
        BY <1>3, <1>4, <1>7, <1>8, <4>1, <4>2 DEF Verdict
      <4>3. CASE m # l
        BY <1>4, <1>6, <4>1, <4>3
      <4>4. QED
        BY <4>2, <4>3
    <3>3. QED
      BY <1>5, <3>1, <3>2
  <2>3. \A m \in Lease : m # l /\ lease[m].status # "absent" => Covered(m) \cap Covered(l)' = {}
    <3>1. Len(log) + 1 \notin 1 .. Len(log) /\ Len(log) + 2 \notin 1 .. Len(log)
      BY <1>5
    <3>2. \A m \in Lease : m # l /\ lease[m].status # "absent" => Covered(m) \cap Covered(l) = {}
      BY DEF AuditInv, AuditAccepts
    <3>3. QED
      BY <1>6, <1>7, <1>8, <3>1, <3>2
  <2>4. \A m, n \in Lease : m # n /\ lease'[m].status # "absent" /\ lease'[n].status # "absent" =>
           Covered(m)' \cap Covered(n)' = {}
    <3>1. \A m, n \in Lease \ {l} : m # n /\ lease[m].status # "absent" /\ lease[n].status # "absent" =>
             Covered(m) \cap Covered(n) = {}
      BY DEF AuditInv, AuditAccepts
    <3>2. \A m \in Lease \ {l} : lease[m].status # "absent" => Covered(m)' = Covered(m)
      BY <1>6
    <3>3. QED
      BY <1>4, <2>3, <3>1, <3>2
  <2>5. QED
    BY <2>1, <2>2, <2>4 DEF AuditAccepts
<1>11. \A b \in Action : record'[b].status = "pending" => PendingIn(log', b, Len(log') + 1)
  <2> SUFFICES ASSUME NEW b \in Action, b # a, PendingIn(log, b, Len(log) + 1)
               PROVE  PendingIn(log', b, Len(log') + 1)
    BY <1>3 DEF AuditInv
  <2>1. PendingIn(half, b, Len(half) + 1)
    BY <1>1, <1>2, PendingAppended DEF half
  <2>2. QED
    BY <1>1, <1>2, <1>5, <2>1, PendingAppended
<1>12. \A b \in Action : record'[b].phase = "none" => \A j \in 1 .. Len(log') : log'[j].action # b
  BY <1>1, <1>2, <1>3, <1>5 DEF AuditInv
<1>13. QED
  BY <1>10, <1>11, <1>12 DEF AuditInv

\* Every step keeps the store auditable.
LEMMA AuditStep ==
    EnergyInv /\ EnergyInv' /\ AuditInv /\ [EnergyNext]_energyVars => AuditInv'
<1> SUFFICES ASSUME EnergyInv, EnergyTypeOK', AuditInv, [EnergyNext]_energyVars PROVE AuditInv'
  BY DEF EnergyInv
<1>1. /\ record \in [Action -> RecordType] /\ lease \in [Lease -> LeaseType]
  BY DEF EnergyInv, EnergyTypeOK
<1>2. ASSUME record' = record, log' = log, \A l \in Lease : RowSame(l) PROVE AuditInv'
  BY <1>2, SilentAudit
<1>3. ASSUME NEW a \in Action, Settle(a) PROVE AuditInv'
  <2>1. \A l \in Lease : RowSame(l)
    BY <1>3 DEF Settle, RowSame
  <2>2. \A b \in Action : /\ record'[b].status = record[b].status
                          /\ record'[b].phase = "none" => record[b].phase = "none"
    BY <1>1, <1>3 DEF Settle, RecordType
  <2>3. QED
    BY <1>3, <2>1, <2>2, SilentAudit DEF Settle
<1>4. ASSUME NEW a \in Action, Propose(a) PROVE AuditInv'
  BY <1>4, ProposeAudit
<1>5. CASE ClaimNothing
  <2>1. \A l \in Lease : RowSame(l)
    BY <1>1, <1>5 DEF ClaimNothing, Swept, RowSame, LeaseType
  <2>2. QED
    BY <1>2, <1>5, <2>1 DEF ClaimNothing
<1>6. ASSUME NEW l \in Lease, Expire(l) PROVE AuditInv'
  <2>1. \A m \in Lease : RowSame(m)
    BY <1>1, <1>6 DEF Expire, RowSame, LeaseType
  <2>2. QED
    BY <1>2, <1>6, <2>1 DEF Expire
<1>7. ASSUME NEW l \in Lease, TooLate(l), Supersede(l) PROVE AuditInv'
  <2>1. \A m \in Lease : RowSame(m)
    BY <1>1, <1>7 DEF Supersede, TooLate, RowSame, LeaseType
  <2>2. QED
    BY <1>2, <1>7, <2>1 DEF Supersede
<1>8. ASSUME NEW l \in Lease, ClaimLease(l) PROVE AuditInv'
  BY <1>8, ClaimAudit
<1>9. ASSUME NEW l \in Lease, NEW choice \in Choice, Complete(l, choice) PROVE AuditInv'
  <2>1. CASE InTime(l) /\ Decide(l, choice, "cognition.completed", "action.energy_assessed",
                                 "completed", "assessed")
    BY <2>1, DecideAudit DEF InTime, Evidence
  <2>2. QED
    BY <1>7, <1>9, <2>1 DEF Complete
<1>10. ASSUME NEW l \in Lease, NEW code \in FailureCode, Fail(l, code) PROVE AuditInv'
  <2>1. CASE InTime(l) /\ Decide(l, code, "cognition.failed", "action.energy_assessment_failed",
                                 "failed", "failed")
    BY <2>1, DecideAudit DEF InTime, Evidence
  <2>2. QED
    BY <1>7, <1>10, <2>1 DEF Fail
<1>11. CASE UNCHANGED energyVars
  <2>1. \A l \in Lease : RowSame(l)
    BY <1>11 DEF energyVars, RowSame
  <2>2. QED
    BY <1>2, <1>11, <2>1 DEF energyVars
<1>12. QED
  BY <1>3, <1>4, <1>5, <1>6, <1>8, <1>9, <1>10, <1>11 DEF EnergyNext

\* The empty store passes the audit.
LEMMA AuditInit == EnergyInit => AuditInv
BY DEF EnergyInit, AuditInv, AuditAccepts, NoRecord, NoRow

\* Whatever was proposed, claimed, expired, answered late, repeated or evicted,
\* the next start accepts the lease table and the event log together.
THEOREM AuditAlwaysAccepts == EnergySpec => []AuditAccepts
<1>1. AuditInv => AuditAccepts
  BY DEF AuditInv
<1>2. EnergyInit => EnergyInv /\ AuditInv
  BY InitHolds, AuditInit
<1>3. EnergyInv /\ AuditInv /\ [EnergyNext]_energyVars => (EnergyInv /\ AuditInv)'
  BY StepHolds, AuditStep
<1>4. QED
  BY <1>1, <1>2, <1>3, PTL DEF EnergySpec


-----------------------------------------------------------------------------
(* The workers and their calls *)


\* The evidence that a completion and a failure carry.
Sound(x) ==
    \/ x.op = "complete" /\ x.lease \in Lease /\ x.evidence \in Choice
    \/ x.op = "fail" /\ x.lease \in Lease /\ x.evidence \in FailureCode

WorkersSound ==
    /\ worker \in [Worker -> WorkerType]
    /\ \A w \in Worker :
          /\ worker[w].pc = "assessing" => worker[w].job \in Lease
          /\ worker[w].intent.op # "none" => Sound(worker[w].intent)

InboxSound ==
    /\ inbox \subseteq RequestType
    /\ \A r \in inbox : r.op # "claim" => Sound(r)

ReplySound ==
    /\ reply \in [Worker -> ReplyType]
    /\ \A w \in Worker : reply[w].code = "claimed" => reply[w].lease \in Lease

CallInv == WorkersSound /\ InboxSound /\ ReplySound /\ faults \in 0 .. MaxFaults

\* The answers the store can give.
LEMMA TerminalCodeTyped ==
    ASSUME NEW l \in Lease, NEW row \in {"completed", "failed"}, NEW e
    PROVE  TerminalCode(l, row, e) \in
              {"completed", "failed", "superseded"} \cup Refusal
BY DEF TerminalCode, Refusal, InTime, TooLate

\* The state of a restarted worker and the null records are typed.
LEMMA FreshTyped == Fresh \in WorkerType /\ Fresh.pc = "idle" /\ Fresh.intent = NoIntent
                    /\ NoIntent.op = "none" /\ NoIntent \in IntentType
                    /\ NoReply \in ReplyType /\ NoReply.code = "none"
BY DEF Fresh, WorkerType, IntentType, NoIntent, Evidence, NoReply, ReplyType

\* No call is open at the start.
LEMMA CallInit == Init => CallInv
<1> SUFFICES ASSUME Init PROVE CallInv
  OBVIOUS
<1>1. WorkersSound
  BY FreshTyped DEF Init, WorkersSound
<1>2. InboxSound /\ ReplySound
  BY FreshTyped DEF Init, InboxSound, ReplySound
<1>3. faults \in 0 .. MaxFaults
  BY WorkerAssumption DEF Init
<1>4. QED
  BY <1>1, <1>2, <1>3 DEF CallInv

\* A request carries the intent of its worker, which is sound.
LEMMA BeginCalls == ASSUME CallInv, NEW w \in Worker, Begin(w) PROVE CallInv'
<1> USE DEF CallInv
<1>1. /\ worker[w] \in WorkerType /\ worker[w].intent \in IntentType
      /\ worker' = [worker EXCEPT ![w].pc = "waiting"]
      /\ inbox' = inbox \cup {RequestOf(w)} /\ reply' = reply /\ faults' = faults
  BY DEF Begin, WorkersSound, WorkerType
<1>2. RequestOf(w) \in RequestType
  BY <1>1 DEF RequestOf, RequestType, IntentType
<1>3. RequestOf(w).op # "claim" => Sound(RequestOf(w))
  BY <1>1 DEF RequestOf, Sound, WorkersSound
<1>4. InboxSound'
  BY <1>1, <1>2, <1>3 DEF InboxSound
<1>5. WorkersSound'
  BY <1>1 DEF WorkersSound, WorkerType, Sound
<1>6. QED
  BY <1>1, <1>4, <1>5 DEF ReplySound

\* An assessment is of the lease in hand, which exists.
LEMMA AssessCalls == ASSUME CallInv, NEW w \in Worker, Assess(w) PROVE CallInv'
<1> USE DEF CallInv
<1>1. PICK i \in {[op |-> "complete", lease |-> worker[w].job, evidence |-> c] : c \in Choice}
               \cup {[op |-> "fail", lease |-> worker[w].job, evidence |-> f] : f \in FailureCode} :
         worker' = [worker EXCEPT ![w] = [Fresh EXCEPT !.intent = i]]
  BY DEF Assess
<1>2. worker[w].job \in Lease
  BY DEF Assess, WorkersSound
<1>3. i \in IntentType /\ Sound(i)
  BY <1>1, <1>2 DEF IntentType, Sound, Evidence
<1> DEFINE row == [Fresh EXCEPT !.intent = i]
<1>4. row \in WorkerType /\ row.pc = "idle" /\ row.intent = i
  BY <1>3 DEF Fresh, WorkerType
<1> HIDE DEF row
<1>5. worker' = [worker EXCEPT ![w] = row]
  BY <1>1 DEF row
<1>6. WorkersSound'
  BY <1>3, <1>4, <1>5 DEF WorkersSound
<1>7. QED
  BY <1>6 DEF Assess, InboxSound, ReplySound

\* A claimed lease exists; a refusal keeps a sound intent.
LEMMA ReceiveCalls == ASSUME CallInv, NEW w \in Worker, Receive(w) PROVE CallInv'
<1> USE DEF CallInv
<1>1. /\ reply' = [reply EXCEPT ![w] = NoReply] /\ inbox' = inbox /\ faults' = faults
      /\ worker[w] \in WorkerType /\ reply[w] \in ReplyType
  BY DEF Receive, WorkersSound, ReplySound
<1> DEFINE busy == [Fresh EXCEPT !.pc = "assessing", !.job = reply[w].lease]
<1> DEFINE again == [worker[w] EXCEPT !.pc = "idle"]
<1>2. worker' = [worker EXCEPT ![w] = CASE reply[w].code = "claimed" -> busy
                                        [] reply[w].code \in Refusal -> again
                                        [] OTHER -> Fresh]
  BY DEF Receive
<1>3. again \in WorkerType /\ again.pc = "idle" /\ again.intent = worker[w].intent
  BY <1>1 DEF WorkerType
<1>4. reply[w].code = "claimed" =>
         busy \in WorkerType /\ busy.job \in Lease /\ busy.intent = NoIntent
  BY FreshTyped DEF ReplySound, Fresh, WorkerType
<1> HIDE DEF busy, again
<1>5. \/ worker' = [worker EXCEPT ![w] = busy] /\ reply[w].code = "claimed"
      \/ worker' = [worker EXCEPT ![w] = again]
      \/ worker' = [worker EXCEPT ![w] = Fresh]
  BY <1>2 DEF Refusal
<1>6. WorkersSound'
  <2>1. CASE worker' = [worker EXCEPT ![w] = busy] /\ reply[w].code = "claimed"
    BY <2>1, <1>4, FreshTyped DEF WorkersSound
  <2>2. CASE worker' = [worker EXCEPT ![w] = again]
    BY <2>2, <1>3 DEF WorkersSound
  <2>3. CASE worker' = [worker EXCEPT ![w] = Fresh]
    BY <2>3, FreshTyped DEF WorkersSound
  <2>4. QED
    BY <1>5, <2>1, <2>2, <2>3
<1>7. ReplySound'
  BY <1>1, FreshTyped DEF ReplySound
<1>8. QED
  BY <1>1, <1>6, <1>7 DEF InboxSound

\* An abandoned request is as sound as before.
LEMMA AbandonCalls ==
    ASSUME CallInv, NEW w \in Worker, Abandon(w)
    PROVE  InboxSound' /\ ReplySound'
<1>1. \A r \in inbox : LET q == [r EXCEPT !.live = FALSE] IN
         q \in RequestType /\ (q.op # "claim" => Sound(q))
  BY DEF CallInv, InboxSound, RequestType, Sound
<1>2. InboxSound'
  BY <1>1 DEF CallInv, InboxSound, Abandon
<1>3. ReplySound'
  BY FreshTyped DEF CallInv, ReplySound, Abandon
<1>4. QED
  BY <1>2, <1>3

\* A fault stays within the budget.
LEMMA FaultBounded == ASSUME CallInv, Fault PROVE faults' \in 0 .. MaxFaults
BY WorkerAssumption DEF CallInv, Fault

\* Lost calls and crashes.
LEMMA LossCalls ==
    ASSUME CallInv, NEW w \in Worker, CallLost(w) \/ Crash(w)
    PROVE  CallInv'
<1>1. Abandon(w) /\ Fault
  BY DEF CallLost, Crash
<1>2. WorkersSound'
  <2>1. CASE worker' = [worker EXCEPT ![w].pc = "idle"]
    BY <2>1 DEF CallInv, WorkersSound, WorkerType
  <2>2. CASE worker' = [worker EXCEPT ![w] = Fresh]
    BY <2>2, FreshTyped DEF CallInv, WorkersSound
  <2>3. QED
    BY <2>1, <2>2 DEF CallLost, Crash
<1>3. QED
  BY <1>1, <1>2, AbandonCalls, FaultBounded DEF CallInv

\* A typed answer is a sound reply.
LEMMA AnswerCalls ==
    ASSUME CallInv, NEW r \in inbox, NEW code, NEW l \in Lease \cup {NoLease},
           [code |-> code, lease |-> l] \in ReplyType, code = "claimed" => l \in Lease,
           Answer(r, code, l)
    PROVE  CallInv'
<1>1. r.from \in Worker
  BY DEF CallInv, InboxSound, RequestType
<1>2. InboxSound'
  BY DEF Answer, CallInv, InboxSound
<1>3. ReplySound'
  BY <1>1 DEF Answer, CallInv, ReplySound
<1>4. QED
  BY <1>2, <1>3 DEF Answer, CallInv, WorkersSound

-----------------------------------------------------------------------------
(* Every step of the daemon is a step of the store or changes nothing in it *)

\* Serving a sound request is a step of EnergyLeases or leaves the store alone.
LEMMA ServeHolds ==
    ASSUME CallInv, NEW r \in inbox, Serve(r)
    PROVE  CallInv' /\ [EnergyNext]_energyVars
<1>1. CASE ServeClaim(r)
  <2>1. CASE ClaimNothing /\ Answer(r, "nothing", NoLease)
    <3>1. [code |-> "nothing", lease |-> NoLease] \in ReplyType
      BY DEF ReplyType
    <3>2. QED
      BY <2>1, <3>1, AnswerCalls DEF EnergyNext
  <2>2. ASSUME NEW l \in Lease, ClaimLease(l), Answer(r, "claimed", l)
        PROVE  CallInv' /\ [EnergyNext]_energyVars
    <3>1. [code |-> "claimed", lease |-> l] \in ReplyType
      BY DEF ReplyType
    <3>2. CallInv'
      BY <2>2, <3>1, AnswerCalls
    <3>3. QED
      BY <2>2, <3>2 DEF EnergyNext
  <2>3. QED
    BY <1>1, <2>1, <2>2 DEF ServeClaim
<1>2. ASSUME NEW row \in {"completed", "failed"},
             Answer(r, TerminalCode(r.lease, row, r.evidence), NoLease), r.lease \in Lease
      PROVE  CallInv'
  <2>1. TerminalCode(r.lease, row, r.evidence) \in {"completed", "failed", "superseded"} \cup Refusal
    BY <1>2, TerminalCodeTyped
  <2>2. [code |-> TerminalCode(r.lease, row, r.evidence), lease |-> NoLease] \in ReplyType
    BY <2>1 DEF ReplyType
  <2>3. TerminalCode(r.lease, row, r.evidence) # "claimed"
    BY <2>1 DEF Refusal
  <2>4. QED
    BY <1>2, <2>2, <2>3, AnswerCalls
<1>3. CASE ServeComplete(r)
  <2>1. r.lease \in Lease /\ r.evidence \in Choice
    BY <1>3 DEF ServeComplete, CallInv, InboxSound, Sound
  <2>2. CallInv'
    BY <1>2, <1>3, <2>1 DEF ServeComplete
  <2>3. QED
    BY <1>3, <2>1, <2>2 DEF ServeComplete, Settled, EnergyNext
<1>4. CASE ServeFail(r)
  <2>1. r.lease \in Lease /\ r.evidence \in FailureCode
    BY <1>4 DEF ServeFail, CallInv, InboxSound, Sound
  <2>2. CallInv'
    BY <1>2, <1>4, <2>1 DEF ServeFail
  <2>3. QED
    BY <1>4, <2>1, <2>2 DEF ServeFail, Settled, EnergyNext
<1>5. QED
  BY <1>1, <1>3, <1>4 DEF Serve

\* Every step keeps the calls sound and refines a step of EnergyLeases.
LEMMA CallStep == CallInv /\ [Next]_vars => CallInv' /\ [EnergyNext]_energyVars
<1> SUFFICES ASSUME CallInv, [Next]_vars PROVE CallInv' /\ [EnergyNext]_energyVars
  OBVIOUS
<1>1. ASSUME NEW w \in Worker, WorkerNext(w) PROVE CallInv' /\ UNCHANGED energyVars
  <2>1. UNCHANGED energyVars
    BY <1>1 DEF WorkerNext, Begin, Assess, Receive, CallLost, Crash
  <2>2. CallInv'
    BY <1>1, BeginCalls, AssessCalls, ReceiveCalls, LossCalls DEF WorkerNext
  <2>3. QED
    BY <2>1, <2>2
<1>2. ASSUME NEW r \in inbox, Serve(r) PROVE CallInv' /\ [EnergyNext]_energyVars
  BY <1>2, ServeHolds
<1>3. ASSUME NEW r \in inbox, Discard(r) PROVE CallInv' /\ UNCHANGED energyVars
  BY <1>3 DEF Discard, CallInv, WorkersSound, InboxSound, ReplySound
<1>4. ASSUME UNCHANGED callVars, faults' \in 0 .. MaxFaults PROVE CallInv'
  BY <1>4 DEF CallInv, callVars, WorkersSound, InboxSound, ReplySound
<1>5. ASSUME NEW a \in Action, Observe(a) PROVE CallInv' /\ EnergyNext
  BY <1>4, <1>5 DEF Observe, EnergyNext, CallInv
<1>6. ASSUME NEW l \in Lease, ExpireOrphan(l) PROVE CallInv' /\ EnergyNext
  BY <1>4, <1>6 DEF ExpireOrphan, EnergyNext, CallInv
<1>7. ASSUME NEW l \in Lease, ExpireInHand(l) PROVE CallInv' /\ EnergyNext
  <2>1. faults' \in 0 .. MaxFaults
    BY <1>7, FaultBounded DEF ExpireInHand
  <2>2. QED
    BY <1>4, <1>7, <2>1 DEF ExpireInHand, EnergyNext
<1>8. CASE UNCHANGED vars
  BY <1>4, <1>8 DEF vars, callVars, CallInv
<1>9. QED
  BY <1>1, <1>2, <1>3, <1>5, <1>6, <1>7, <1>8 DEF Next

\* The workers, with their retries, abandoned calls and crashes, use the store
\* only as EnergyLeases describes: every theorem about it holds for them.
THEOREM WorkersUseTheStore == Spec => EnergySpec
<1>1. Init => EnergyInit /\ CallInv
  BY CallInit DEF Init
<1>2. QED
  BY <1>1, CallStep, PTL DEF Spec, EnergySpec

\* The store, the workers, their calls and the fault budget keep their types,
\* for any number of workers, actions and faults.
THEOREM WorkersTypeCorrect == Spec => []TypeOK
<1>1. Init => CallInv
  BY CallInit
<1>2. CallInv /\ EnergyTypeOK => TypeOK
  BY DEF CallInv, WorkersSound, InboxSound, ReplySound, TypeOK
<1>3. Spec => []CallInv
  BY <1>1, CallStep, PTL DEF Spec
<1>4. Spec => []EnergyTypeOK
  BY WorkersUseTheStore, EnergyTypeCorrect, PTL
<1>5. QED
  BY <1>2, <1>3, <1>4, PTL

\* Whatever the workers retry and whichever calls are served late, an action
\* gets one verdict, and an answer in time is never refused.
THEOREM WorkersDecideOnce == Spec => [](DecidedOnce /\ OnePending /\ AnswerableLease)
BY WorkersUseTheStore, EveryActionDecidedOnce, PendingLeaseAnswerable, PTL

-----------------------------------------------------------------------------
(* What is asked of the host, and what is submitted for it *)

IntentOf(r) == [op |-> r.op, lease |-> r.lease, evidence |-> r.evidence]

\* The answers of the host that a worker retains or that are on their way, the
\* abandoned calls included.
Submissions ==
    {i \in {worker[w].intent : w \in Worker} \cup {IntentOf(r) : r \in inbox} :
       i.op \in {"complete", "fail"}}

\* The lease that worker w has its host assess now or next.
Asked(w) == {worker[w].job, reply[w].lease}

Hands(w) == Asked(w) \cup {worker[w].intent.lease}

RowOf(op) == IF op = "complete" THEN "completed" ELSE "failed"

\* No lease is in the hands of two workers.
HeldOnce == \A w, v \in Worker : \A l \in Lease : l \in Hands(w) /\ l \in Hands(v) => w = v

\* Nobody holds or submits what was never claimed.
Known ==
    /\ \A w \in Worker : \A l \in Lease : l \in Hands(w) => lease[l].status # "absent"
    /\ \A i \in Submissions : lease[i.lease].status # "absent"

\* A lease that is still to be assessed has no answer anywhere.
Unanswered ==
    \A w \in Worker : \A l \in Lease : l \in Asked(w) =>
        /\ \A i \in Submissions : i.lease # l
        /\ lease[l].status \notin Verdict

\* There is one answer per lease, and a verdict is that answer.
OneAnswer ==
    /\ \A i, j \in Submissions : i.lease = j.lease => i = j
    /\ \A i \in Submissions : lease[i.lease].status \in Verdict =>
          lease[i.lease].status = RowOf(i.op) /\ lease[i.lease].evidence = i.evidence

\* A call that is waited for carries the intent of its worker and is not answered
\* yet; an answer is to that intent.
CallState(w) ==
    /\ worker[w].pc # "assessing" => worker[w].job = NoLease
    /\ reply[w] # NoReply => worker[w].pc = "waiting"
    /\ \A r \in inbox : r.from = w /\ r.live =>
          worker[w].pc = "waiting" /\ reply[w] = NoReply /\ r = RequestOf(w)
    /\ reply[w].code \notin Refusal
    /\ worker[w].intent.op # "none" /\ reply[w] # NoReply =>
          /\ lease[worker[w].intent.lease].status \in Verdict \cup {"superseded"}
          /\ reply[w].code \in Verdict =>
                /\ lease[worker[w].intent.lease].status = reply[w].code
                /\ lease[worker[w].intent.lease].evidence = worker[w].intent.evidence

AskInv == HeldOnce /\ Known /\ Unanswered /\ OneAnswer /\ \A w \in Worker : CallState(w)

\* Steps that hand nothing out, submit nothing new and give no verdict.
LEMMA QuietStep ==
    ASSUME CallInv, CallInv', HeldOnce, Known, Unanswered, OneAnswer,
           Submissions' \subseteq Submissions,
           \A w \in Worker : Asked(w)' \subseteq Asked(w) /\ Hands(w)' \subseteq Hands(w),
           \A l \in Lease : /\ lease[l].status # "absent" => lease'[l].status # "absent"
                            /\ lease'[l].status \in Verdict => lease'[l] = lease[l]
    PROVE  HeldOnce' /\ Known' /\ Unanswered' /\ OneAnswer'
<1>1. \A i \in Submissions : i.lease \in Lease
  BY DEF Submissions, IntentOf, CallInv, WorkersSound, InboxSound, Sound
<1>2. HeldOnce'
  BY DEF HeldOnce
<1>3. Known'
  BY <1>1 DEF Known
<1>4. Unanswered'
  BY DEF Unanswered
<1>5. OneAnswer'
  BY <1>1 DEF OneAnswer
<1>6. QED
  BY <1>2, <1>3, <1>4, <1>5

\* The state of a call that the step leaves alone.
LEMMA CallKept ==
    ASSUME CallInv, EnergyInv, NEW w \in Worker, CallState(w),
           worker'[w] = worker[w], reply'[w] = reply[w],
           \A r \in inbox' : r.from = w /\ r.live => r \in inbox,
           \A l \in Lease : lease[l].status \in Verdict \cup {"superseded"} => lease'[l] = lease[l]
    PROVE  CallState(w)'
<1>1. worker[w].intent.op # "none" => worker[w].intent.lease \in Lease
  BY DEF CallInv, WorkersSound, Sound
<1>2. RequestOf(w)' = RequestOf(w)
  BY DEF RequestOf
<1>3. QED
  BY <1>1, <1>2 DEF CallState

\* A worker submits what it retains.
LEMMA BeginAsk ==
    ASSUME CallInv, CallInv', EnergyInv, AskInv, NEW w \in Worker, Begin(w)
    PROVE  AskInv'
<1>1. /\ worker[w].pc = "idle" /\ worker[w].intent \in IntentType /\ worker[w] \in WorkerType
      /\ worker' = [worker EXCEPT ![w].pc = "waiting"] /\ reply' = reply
      /\ inbox' = inbox \cup {RequestOf(w)} /\ lease' = lease
  BY DEF Begin, CallInv, WorkersSound, WorkerType, energyVars
<1>2. /\ worker'[w].pc = "waiting" /\ worker'[w].job = worker[w].job
      /\ \A v \in Worker : worker'[v].intent = worker[v].intent /\ worker'[v].job = worker[v].job
      /\ \A v \in Worker : v # w => worker'[v] = worker[v]
  BY <1>1 DEF CallInv, WorkersSound, WorkerType
<1>3. Submissions' \subseteq Submissions
  <2>1. RequestOf(w).op \in {"complete", "fail"} => IntentOf(RequestOf(w)) = worker[w].intent
    BY <1>1 DEF RequestOf, IntentOf, IntentType
  <2>2. IntentOf(RequestOf(w)).op = RequestOf(w).op
    BY DEF IntentOf
  <2>3. QED
    BY <1>1, <1>2, <2>1, <2>2 DEF Submissions
<1>4. \A v \in Worker : Asked(v)' = Asked(v) /\ Hands(v)' = Hands(v)
  BY <1>1, <1>2 DEF Asked, Hands
<1>5. HeldOnce' /\ Known' /\ Unanswered' /\ OneAnswer'
  BY <1>1, <1>3, <1>4, QuietStep DEF AskInv
<1>6. CallState(w)'
  <2>1. RequestOf(w)' = RequestOf(w)
    BY <1>2 DEF RequestOf
  <2>2. \A r \in inbox : ~(r.from = w /\ r.live)
    BY <1>1 DEF AskInv, CallState
  <2>3. reply[w] = NoReply /\ reply[w].code \notin Refusal
    BY <1>1 DEF AskInv, CallState
  <2>4. worker[w].job = NoLease
    BY <1>1 DEF AskInv, CallState
  <2>5. QED
    BY <1>1, <1>2, <2>1, <2>2, <2>3, <2>4 DEF CallState
<1>7. \A v \in Worker : v # w => CallState(v)'
  <2>1. RequestOf(w).from = w
    BY DEF RequestOf
  <2>2. QED
    BY <1>1, <1>2, <2>1, CallKept DEF AskInv
<1>8. QED
  BY <1>5, <1>6, <1>7 DEF AskInv

\* The host answers: the answer is about a lease that had none.
LEMMA AssessAsk ==
    ASSUME CallInv, CallInv', EnergyInv, AskInv, NEW w \in Worker, Assess(w)
    PROVE  AskInv'
<1>1. PICK i \in {[op |-> "complete", lease |-> worker[w].job, evidence |-> c] : c \in Choice}
               \cup {[op |-> "fail", lease |-> worker[w].job, evidence |-> f] : f \in FailureCode} :
         worker' = [worker EXCEPT ![w] = [Fresh EXCEPT !.intent = i]]
  BY DEF Assess
<1>2. /\ i.lease = worker[w].job /\ worker[w].job \in Lease /\ worker[w].pc = "assessing"
      /\ reply' = reply /\ inbox' = inbox /\ lease' = lease /\ worker \in [Worker -> WorkerType]
  BY <1>1 DEF Assess, CallInv, WorkersSound, energyVars
<1>3. /\ worker'[w].pc = "idle" /\ worker'[w].job = NoLease /\ worker'[w].intent = i
      /\ \A v \in Worker : v # w => worker'[v] = worker[v]
  BY <1>1, <1>2 DEF Fresh
<1>4. Submissions' \subseteq Submissions \cup {i}
  BY <1>2, <1>3 DEF Submissions
<1>5. /\ \A v \in Worker : v # w => Asked(v)' = Asked(v) /\ Hands(v)' = Hands(v)
      /\ Asked(w)' = {NoLease, reply[w].lease} /\ Hands(w)' = {NoLease, reply[w].lease, i.lease}
      /\ i.lease \in Asked(w) /\ reply[w].lease \in Asked(w)
      /\ \A v \in Worker : Asked(v) \subseteq Hands(v)
  BY <1>2, <1>3 DEF Asked, Hands
<1>6. reply[w] = NoReply /\ NoReply.lease = NoLease /\ reply[w].code \notin Refusal
  BY <1>2 DEF AskInv, CallState, NoReply
<1>7. \A v \in Worker : \A l \in Lease : l \in Hands(v)' => l \in Hands(v)
  <2>1. \A l \in Lease : l \in Hands(w)' => l \in Hands(w)
    BY <1>5, LeaseAssumption
  <2>2. QED
    BY <1>5, <2>1
<1>8. HeldOnce' /\ Known'
  <2>1. HeldOnce'
    BY <1>7 DEF AskInv, HeldOnce
  <2>2. lease[i.lease].status # "absent"
    BY <1>2, <1>5 DEF AskInv, Known
  <2>3. Known'
    BY <1>2, <1>4, <1>7, <2>2 DEF AskInv, Known
  <2>4. QED
    BY <2>1, <2>3
<1>9. Unanswered'
  <2>1. \A v \in Worker : \A l \in Lease : l \in Asked(v)' => l # i.lease
    BY <1>2, <1>5, <1>6, LeaseAssumption DEF AskInv, HeldOnce
  <2>2. \A v \in Worker : \A l \in Lease : l \in Asked(v)' => l \in Asked(v)
    BY <1>5, LeaseAssumption
  <2>3. QED
    BY <1>2, <1>4, <2>1, <2>2 DEF AskInv, Unanswered
<1>10. OneAnswer'
  BY <1>2, <1>4, <1>5 DEF AskInv, OneAnswer, Unanswered
<1>11. CallState(w)'
  BY <1>2, <1>3, <1>6 DEF CallState, AskInv
<1>12. \A v \in Worker : v # w => CallState(v)'
  BY <1>2, <1>3, CallKept DEF AskInv
<1>13. QED
  BY <1>8, <1>9, <1>10, <1>11, <1>12 DEF AskInv

\* An answer is received: a claimed lease goes from the reply to the job.
LEMMA ReceiveAsk ==
    ASSUME CallInv, CallInv', EnergyInv, AskInv, NEW w \in Worker, Receive(w)
    PROVE  AskInv'
<1>1. /\ worker[w].pc = "waiting" /\ reply[w] # NoReply /\ worker \in [Worker -> WorkerType]
      /\ reply' = [reply EXCEPT ![w] = NoReply] /\ inbox' = inbox /\ lease' = lease
      /\ reply \in [Worker -> ReplyType] /\ reply[w].code \notin Refusal
  BY DEF Receive, CallInv, WorkersSound, ReplySound, energyVars, AskInv, CallState
<1> DEFINE busy == [Fresh EXCEPT !.pc = "assessing", !.job = reply[w].lease]
<1>2. /\ busy.pc = "assessing" /\ busy.job = reply[w].lease /\ busy.intent = NoIntent
      /\ Fresh.pc = "idle" /\ Fresh.job = NoLease /\ Fresh.intent = NoIntent
      /\ NoIntent.op = "none" /\ NoIntent.lease = NoLease
      /\ NoReply.lease = NoLease /\ NoReply.code = "none"
  BY DEF Fresh, NoIntent, NoReply
<1>3. worker' = [worker EXCEPT ![w] = IF reply[w].code = "claimed" THEN busy ELSE Fresh]
  BY <1>1 DEF Receive
<1> HIDE DEF busy
<1>4. /\ worker'[w] \in {busy, Fresh} /\ reply'[w] = NoReply
      /\ \A v \in Worker : v # w => worker'[v] = worker[v] /\ reply'[v] = reply[v]
  BY <1>1, <1>3
<1>5. Submissions' \subseteq Submissions
  BY <1>1, <1>2, <1>4 DEF Submissions
<1>6. /\ \A v \in Worker : v # w => Asked(v)' = Asked(v) /\ Hands(v)' = Hands(v)
      /\ Asked(w)' \subseteq Asked(w) \cup {NoLease} /\ Hands(w)' \subseteq Hands(w) \cup {NoLease}
  BY <1>2, <1>4 DEF Asked, Hands
<1>7. worker[w].job = NoLease
  BY <1>1 DEF AskInv, CallState
<1>8. \A v \in Worker : Asked(v)' \subseteq Asked(v) /\ Hands(v)' \subseteq Hands(v)
  BY <1>6, <1>7 DEF Asked, Hands
<1>9. HeldOnce' /\ Known' /\ Unanswered' /\ OneAnswer'
  BY <1>1, <1>5, <1>8, QuietStep DEF AskInv
<1>10. CallState(w)'
  <2>1. \A r \in inbox : ~(r.from = w /\ r.live)
    BY <1>1 DEF AskInv, CallState
  <2>2. QED
    BY <1>1, <1>2, <1>4, <2>1 DEF CallState, Refusal
<1>11. \A v \in Worker : v # w => CallState(v)'
  BY <1>1, <1>4, CallKept DEF AskInv
<1>12. QED
  BY <1>9, <1>10, <1>11 DEF AskInv

\* A lost call or a crash hands nothing out; the requests stay, without a waiter.
LEMMA LossAsk ==
    ASSUME CallInv, CallInv', EnergyInv, AskInv, NEW w \in Worker, CallLost(w) \/ Crash(w)
    PROVE  AskInv'
<1>1. /\ Abandon(w) /\ lease' = lease /\ worker \in [Worker -> WorkerType]
      /\ reply \in [Worker -> ReplyType] /\ inbox \subseteq RequestType
      /\ \/ worker[w].pc = "waiting" /\ worker' = [worker EXCEPT ![w].pc = "idle"]
         \/ worker' = [worker EXCEPT ![w] = Fresh]
  BY DEF CallLost, Crash, CallInv, WorkersSound, ReplySound, InboxSound, energyVars
<1>2. /\ Fresh.pc = "idle" /\ Fresh.job = NoLease /\ Fresh.intent = NoIntent
      /\ NoIntent.op = "none" /\ NoIntent.lease = NoLease
      /\ NoReply.lease = NoLease /\ NoReply.code = "none"
  BY DEF Fresh, NoIntent, NoReply
<1>3. /\ worker'[w].pc = "idle" /\ worker'[w].job = NoLease
      /\ worker'[w].intent \in {worker[w].intent, NoIntent}
      /\ reply'[w] = NoReply
      /\ \A v \in Worker : v # w => worker'[v] = worker[v] /\ reply'[v] = reply[v]
  <2>1. worker[w].pc = "waiting" => worker[w].job = NoLease
    BY DEF AskInv, CallState
  <2>2. QED
    BY <1>1, <1>2, <2>1 DEF Abandon, WorkerType
<1>4. \A r \in inbox' : \E q \in inbox :
         /\ IntentOf(r) = IntentOf(q) /\ r.from = q.from
         /\ r.from = w => ~r.live
         /\ r.from # w => r = q
  BY <1>1 DEF Abandon, IntentOf, RequestType
<1>5. Submissions' \subseteq Submissions
  BY <1>2, <1>3, <1>4 DEF Submissions
<1>6. /\ \A v \in Worker : v # w => Asked(v)' = Asked(v) /\ Hands(v)' = Hands(v)
      /\ Asked(w)' = {NoLease} /\ Hands(w)' \subseteq {NoLease, worker[w].intent.lease}
  BY <1>2, <1>3 DEF Asked, Hands
<1>7. HeldOnce' /\ Known' /\ Unanswered' /\ OneAnswer'
  <2>1. \A v \in Worker : \A l \in Lease : /\ l \in Asked(v)' => l \in Asked(v)
                                           /\ l \in Hands(v)' => l \in Hands(v)
    BY <1>6, LeaseAssumption DEF Hands
  <2>2. \A i \in Submissions : i.lease \in Lease
    BY DEF Submissions, IntentOf, CallInv, WorkersSound, InboxSound, Sound
  <2>3. HeldOnce'
    BY <2>1 DEF AskInv, HeldOnce
  <2>4. Known'
    BY <1>1, <1>5, <2>1 DEF AskInv, Known
  <2>5. Unanswered'
    BY <1>1, <1>5, <2>1 DEF AskInv, Unanswered
  <2>6. OneAnswer'
    BY <1>1, <1>5 DEF AskInv, OneAnswer
  <2>7. QED
    BY <2>3, <2>4, <2>5, <2>6
<1>8. CallState(w)'
  BY <1>2, <1>3, <1>4 DEF CallState, Refusal
<1>9. \A v \in Worker : v # w => CallState(v)'
  BY <1>1, <1>3, <1>4, CallKept DEF AskInv
<1>10. QED
  BY <1>7, <1>8, <1>9 DEF AskInv

\* A claim hands out a lease that nobody knows of.
LEMMA ServeClaimAsk ==
    ASSUME CallInv, CallInv', EnergyInv, AskInv, NEW r \in inbox, ServeClaim(r),
           \A l \in Lease : lease[l].status \in Verdict \cup {"superseded"} => lease'[l] = lease[l],
           \A l \in Lease : /\ lease[l].status # "absent" => lease'[l].status # "absent"
                            /\ lease'[l].status \in Verdict => lease'[l] = lease[l]
    PROVE  AskInv'
<1>1. /\ r.op = "claim" /\ r.from \in Worker /\ worker' = worker /\ inbox' = inbox \ {r}
      /\ reply \in [Worker -> ReplyType]
  BY DEF ServeClaim, Answer, CallInv, InboxSound, RequestType, ReplySound
<1>2. Submissions' \subseteq Submissions
  BY <1>1 DEF Submissions
<1>3. \A w \in Worker : reply'[w] = reply[w] => CallState(w)'
  BY <1>1, CallKept DEF AskInv
<1>4. /\ worker[r.from].intent.op \in {"none", "complete", "fail"}
      /\ worker[r.from].job = worker'[r.from].job
  BY <1>1 DEF CallInv, WorkersSound, WorkerType, IntentType
<1>5. r.live => /\ worker[r.from].pc = "waiting" /\ worker[r.from].intent.op = "none"
                /\ worker[r.from].job = NoLease /\ reply[r.from] = NoReply
                /\ \A q \in inbox' : ~(q.from = r.from /\ q.live)
  <2> SUFFICES ASSUME r.live
               PROVE  /\ worker[r.from].pc = "waiting" /\ worker[r.from].intent.op = "none"
                      /\ worker[r.from].job = NoLease /\ reply[r.from] = NoReply
                      /\ \A q \in inbox' : ~(q.from = r.from /\ q.live)
    OBVIOUS
  <2>1. /\ worker[r.from].pc = "waiting" /\ reply[r.from] = NoReply /\ r = RequestOf(r.from)
        /\ \A q \in inbox : q.from = r.from /\ q.live => q = r
    BY <1>1 DEF AskInv, CallState
  <2>2. RequestOf(r.from).op = IF worker[r.from].intent.op = "none" THEN "claim"
                                                                    ELSE worker[r.from].intent.op
    BY DEF RequestOf
  <2>3. worker[r.from].job = NoLease
    BY <1>1, <2>1 DEF AskInv, CallState
  <2>4. QED
    BY <1>1, <1>4, <2>1, <2>2, <2>3
<1>6. ASSUME NEW code, code \in {"nothing", "claimed"}, NEW l, Answer(r, code, l)
      PROVE  \A w \in Worker : CallState(w)'
  <2>1. CASE r.live
    <3>1. reply' = [reply EXCEPT ![r.from] = [code |-> code, lease |-> l]]
      BY <1>6, <2>1 DEF Answer
    <3>2. CallState(r.from)'
      BY <1>1, <1>5, <1>6, <2>1, <3>1 DEF CallState, Refusal
    <3>3. QED
      BY <1>1, <1>3, <3>1, <3>2
  <2>2. CASE ~r.live
    BY <1>3, <1>6, <2>2 DEF Answer
  <2>3. QED
    BY <2>1, <2>2
<1>7. CASE ClaimNothing /\ Answer(r, "nothing", NoLease)
  <2>1. \A w \in Worker : \A l \in Lease : /\ l \in Asked(w)' => l \in Asked(w)
                                           /\ l \in Hands(w)' => l \in Hands(w)
    BY <1>1, <1>7, LeaseAssumption DEF Answer, Asked, Hands
  <2>2. \A i \in Submissions : i.lease \in Lease
    BY DEF Submissions, IntentOf, CallInv, WorkersSound, InboxSound, Sound
  <2>3. HeldOnce' /\ Known'
    BY <1>2, <2>1, <2>2 DEF AskInv, HeldOnce, Known
  <2>4. Unanswered' /\ OneAnswer'
    BY <1>2, <2>1, <2>2 DEF AskInv, Unanswered, OneAnswer
  <2>5. QED
    BY <1>6, <1>7, <2>3, <2>4 DEF AskInv
<1>8. ASSUME NEW l \in Lease, ClaimLease(l), Answer(r, "claimed", l)
      PROVE  AskInv'
  <2>1. lease[l].status = "absent" /\ lease'[l].status = "pending"
    <3>1. lease[l].status = "absent" /\ lease \in [Lease -> LeaseType]
      BY <1>8 DEF ClaimLease, EnergyInv, EnergyTypeOK
    <3>2. PICK a \in Candidates : lease' = [Swept EXCEPT ![l] = NewRow(a)]
      BY <1>8 DEF ClaimLease
    <3>3. QED
      BY <3>1, <3>2 DEF Swept, NewRow
  <2>2. /\ \A w \in Worker : l \notin Hands(w) /\ l \notin Asked(w)
        /\ \A i \in Submissions : i.lease # l
    BY <2>1 DEF AskInv, Known, Hands
  <2>3. \A w \in Worker : \A m \in Lease :
           /\ m \in Asked(w)' => m \in Asked(w) \/ (m = l /\ w = r.from)
           /\ m \in Hands(w)' => m \in Hands(w) \/ (m = l /\ w = r.from)
    BY <1>1, <1>8 DEF Answer, Asked, Hands
  <2>4. \A i \in Submissions : i.lease \in Lease
    BY DEF Submissions, IntentOf, CallInv, WorkersSound, InboxSound, Sound
  <2>5. HeldOnce'
    BY <2>2, <2>3 DEF AskInv, HeldOnce
  <2>6. Known'
    BY <1>2, <2>1, <2>3, <2>4 DEF AskInv, Known
  <2>7. Unanswered'
    BY <1>2, <2>1, <2>2, <2>3, <2>4 DEF AskInv, Unanswered, Verdict
  <2>8. OneAnswer'
    BY <1>2, <2>4 DEF AskInv, OneAnswer
  <2>9. QED
    BY <1>6, <1>8, <2>5, <2>6, <2>7, <2>8 DEF AskInv
<1>9. QED
  BY <1>7, <1>8 DEF ServeClaim

\* A submission meets its lease: what it is told is what the store holds then.
LEMMA TerminalAnswer ==
    ASSUME CallInv, EnergyInv, AskInv, NEW i \in Submissions, NEW l \in Lease, l = i.lease,
           NEW row, row = RowOf(i.op),
           NEW cognition, NEW verdict, NEW status,
           \/ InTime(l) /\ Decide(l, i.evidence, cognition, verdict, row, status)
           \/ TooLate(l) /\ Supersede(l)
           \/ ~InTime(l) /\ ~TooLate(l) /\ UNCHANGED energyVars
    PROVE  /\ TerminalCode(l, row, i.evidence) \in {row, "superseded"}
           /\ lease'[l].status \in Verdict \cup {"superseded"}
           /\ TerminalCode(l, row, i.evidence) \in Verdict =>
                 lease'[l].status = TerminalCode(l, row, i.evidence)
           /\ lease'[l].status \in Verdict =>
                 lease'[l].status = row /\ lease'[l].evidence = i.evidence
           /\ \A m \in Lease : m # l => lease'[m] = lease[m]
<1>1. /\ lease \in [Lease -> LeaseType] /\ row \in Verdict
      /\ lease[l].status \in {"pending", "completed", "failed", "superseded"}
      /\ lease[l].term \in {"running", "over"}
      /\ lease[l].status = "pending" => InTime(l) \/ TooLate(l)
  BY DEF EnergyInv, EnergyTypeOK, LeaseType, RowOf, Verdict, AskInv, Known, InTime, TooLate,
         AnswerableLease
<1>2. CASE InTime(l) /\ Decide(l, i.evidence, cognition, verdict, row, status)
  <2>1. lease[l].status = "pending" /\ ~TooLate(l)
    BY <1>2 DEF InTime, TooLate
  <2>2. TerminalCode(l, row, i.evidence) = row
    BY <1>1, <1>2, <2>1 DEF TerminalCode, Verdict
  <2>3. /\ lease'[l].status = row /\ lease'[l].evidence = i.evidence
        /\ \A m \in Lease : m # l => lease'[m] = lease[m]
    BY <1>1, <1>2 DEF Decide, LeaseType
  <2>4. QED
    BY <1>1, <2>2, <2>3
<1>3. CASE TooLate(l) /\ Supersede(l)
  <2>1. lease[l].status = "pending" /\ ~InTime(l)
    BY <1>3 DEF TooLate, InTime
  <2>2. TerminalCode(l, row, i.evidence) = "superseded"
    BY <1>1, <1>3, <2>1 DEF TerminalCode, Verdict
  <2>3. lease'[l].status = "superseded" /\ \A m \in Lease : m # l => lease'[m] = lease[m]
    BY <1>1, <1>3 DEF Supersede, LeaseType
  <2>4. QED
    BY <2>2, <2>3 DEF Verdict
<1>4. CASE ~InTime(l) /\ ~TooLate(l) /\ UNCHANGED energyVars
  <2>1. lease' = lease /\ lease[l].status \in Verdict \cup {"superseded"}
    BY <1>1, <1>4 DEF energyVars, Verdict
  <2>2. lease[l].status \in Verdict => lease[l].status = row /\ lease[l].evidence = i.evidence
    BY DEF AskInv, OneAnswer
  <2>3. CASE lease[l].status = "superseded"
    <3>1. TerminalCode(l, row, i.evidence) = "superseded"
      BY <1>1, <1>4, <2>3 DEF TerminalCode, Verdict
    <3>2. QED
      BY <2>1, <2>3, <3>1 DEF Verdict
  <2>4. CASE lease[l].status \in Verdict
    <3>1. TerminalCode(l, row, i.evidence) = row
      BY <1>1, <1>4, <2>2, <2>4 DEF TerminalCode, Verdict
    <3>2. QED
      BY <1>1, <2>1, <2>2, <2>4, <3>1
  <2>5. QED
    BY <2>1, <2>3, <2>4
<1>5. QED
  BY <1>2, <1>3, <1>4

\* An answer is served: the submissions about its lease are the one that it met.
LEMMA ServeAnswerAsk ==
    ASSUME CallInv, CallInv', EnergyInv, AskInv, NEW r \in inbox, ServeComplete(r) \/ ServeFail(r),
           \A l \in Lease : lease[l].status \in Verdict \cup {"superseded"} => lease'[l] = lease[l]
    PROVE  AskInv'
<1> DEFINE i == IntentOf(r)
<1> DEFINE row == RowOf(r.op)
<1> DEFINE code == TerminalCode(r.lease, row, r.evidence)
<1>1. /\ r.op \in {"complete", "fail"} /\ r.from \in Worker /\ r.lease \in Lease
      /\ i.op = r.op /\ i.lease = r.lease /\ i.evidence = r.evidence
      /\ reply \in [Worker -> ReplyType]
  BY DEF ServeComplete, ServeFail, CallInv, InboxSound, ReplySound, Sound, RequestType, IntentOf
<1>2. i \in Submissions /\ \A j \in Submissions : j.lease \in Lease
  BY <1>1 DEF Submissions, IntentOf, CallInv, WorkersSound, InboxSound, Sound
<1>3. Answer(r, code, NoLease)
  BY <1>1 DEF ServeComplete, ServeFail, RowOf
<1>4. /\ code \in {row, "superseded"}
      /\ lease'[r.lease].status \in Verdict \cup {"superseded"}
      /\ code \in Verdict => lease'[r.lease].status = code
      /\ lease'[r.lease].status \in Verdict =>
            lease'[r.lease].status = row /\ lease'[r.lease].evidence = r.evidence
      /\ \A m \in Lease : m # r.lease => lease'[m] = lease[m]
  <2>1. CASE ServeComplete(r)
    <3>1. r.op = "complete" /\ row = "completed" /\ row = RowOf(i.op)
      BY <1>1, <2>1 DEF ServeComplete, RowOf
    <3>2. \/ InTime(r.lease) /\ Decide(r.lease, i.evidence, "cognition.completed",
                                       "action.energy_assessed", row, "assessed")
          \/ TooLate(r.lease) /\ Supersede(r.lease)
          \/ ~InTime(r.lease) /\ ~TooLate(r.lease) /\ UNCHANGED energyVars
      BY <1>1, <2>1, <3>1 DEF ServeComplete, Complete, Settled
    <3> HIDE DEF i, row
    <3>3. /\ TerminalCode(r.lease, row, i.evidence) \in {row, "superseded"}
          /\ lease'[r.lease].status \in Verdict \cup {"superseded"}
          /\ TerminalCode(r.lease, row, i.evidence) \in Verdict =>
                lease'[r.lease].status = TerminalCode(r.lease, row, i.evidence)
          /\ lease'[r.lease].status \in Verdict =>
                lease'[r.lease].status = row /\ lease'[r.lease].evidence = i.evidence
          /\ \A m \in Lease : m # r.lease => lease'[m] = lease[m]
      BY ONLY CallInv, EnergyInv, AskInv, <1>1, <1>2, <3>1, <3>2, TerminalAnswer
    <3>4. QED
      BY <1>1, <3>3
  <2>2. CASE ServeFail(r)
    <3>1. r.op = "fail" /\ row = "failed" /\ row = RowOf(i.op)
      BY <1>1, <2>2 DEF ServeFail, RowOf
    <3>2. \/ InTime(r.lease) /\ Decide(r.lease, i.evidence, "cognition.failed",
                                       "action.energy_assessment_failed", row, "failed")
          \/ TooLate(r.lease) /\ Supersede(r.lease)
          \/ ~InTime(r.lease) /\ ~TooLate(r.lease) /\ UNCHANGED energyVars
      BY <1>1, <2>2, <3>1 DEF ServeFail, Fail, Settled
    <3> HIDE DEF i, row
    <3>3. /\ TerminalCode(r.lease, row, i.evidence) \in {row, "superseded"}
          /\ lease'[r.lease].status \in Verdict \cup {"superseded"}
          /\ TerminalCode(r.lease, row, i.evidence) \in Verdict =>
                lease'[r.lease].status = TerminalCode(r.lease, row, i.evidence)
          /\ lease'[r.lease].status \in Verdict =>
                lease'[r.lease].status = row /\ lease'[r.lease].evidence = i.evidence
          /\ \A m \in Lease : m # r.lease => lease'[m] = lease[m]
      BY ONLY CallInv, EnergyInv, AskInv, <1>1, <1>2, <3>1, <3>2, TerminalAnswer
    <3>4. QED
      BY <1>1, <3>3
  <2>3. QED
    BY <2>1, <2>2
<1> HIDE DEF i, row, code
<1>5. /\ worker' = worker /\ inbox' = inbox \ {r}
      /\ Submissions' \subseteq Submissions
  BY <1>3 DEF Answer, Submissions
<1>6. \A w \in Worker : \A l \in Lease : /\ l \in Asked(w)' => l \in Asked(w)
                                         /\ l \in Hands(w)' => l \in Hands(w)
  BY <1>1, <1>3, LeaseAssumption DEF Answer, Asked, Hands
<1>7. \A w \in Worker : r.lease \notin Asked(w)
  BY <1>1, <1>2 DEF AskInv, Unanswered
<1>8. HeldOnce' /\ Known'
  BY <1>2, <1>4, <1>5, <1>6 DEF AskInv, HeldOnce, Known, Verdict
<1>9. Unanswered'
  BY <1>4, <1>5, <1>6, <1>7 DEF AskInv, Unanswered
<1>10. OneAnswer'
  <2>1. \A j \in Submissions : j.lease = r.lease => j = i
    BY <1>1, <1>2 DEF AskInv, OneAnswer
  <2>2. \A j, k \in Submissions' : j.lease = k.lease => j = k
    BY <1>5 DEF AskInv, OneAnswer
  <2>3. ASSUME NEW j \in Submissions', lease'[j.lease].status \in Verdict
        PROVE  lease'[j.lease].status = RowOf(j.op) /\ lease'[j.lease].evidence = j.evidence
    <3>1. CASE j.lease = r.lease
      BY <1>1, <1>4, <1>5, <2>1, <2>3, <3>1 DEF row
    <3>2. CASE j.lease # r.lease
      BY <1>2, <1>4, <1>5, <2>3, <3>2 DEF AskInv, OneAnswer
    <3>3. QED
      BY <3>1, <3>2
  <2>4. QED
    BY <2>2, <2>3 DEF OneAnswer
<1>11. \A w \in Worker : reply'[w] = reply[w] => CallState(w)'
  BY <1>5, CallKept DEF AskInv
<1>12. r.live => CallState(r.from)'
  <2> SUFFICES ASSUME r.live PROVE CallState(r.from)'
    OBVIOUS
  <2>1. /\ worker[r.from].pc = "waiting" /\ r = RequestOf(r.from)
        /\ worker[r.from].job = NoLease
        /\ \A q \in inbox : q.from = r.from /\ q.live => q = r
    BY <1>1 DEF AskInv, CallState
  <2>2. worker[r.from].intent.lease = r.lease /\ worker[r.from].intent.evidence = r.evidence
    BY <2>1 DEF RequestOf
  <2>3. reply'[r.from] = [code |-> code, lease |-> NoLease]
    BY <1>1, <1>3 DEF Answer
  <2>4. row \in Verdict /\ code \notin Refusal
    BY <1>4 DEF row, RowOf, Verdict, Refusal
  <2>5. \A q \in inbox' : ~(q.from = r.from /\ q.live)
    BY <1>5, <2>1
  <2>6. QED
    BY <1>4, <1>5, <2>1, <2>2, <2>3, <2>4, <2>5 DEF CallState
<1>13. \A w \in Worker : CallState(w)'
  BY <1>1, <1>3, <1>11, <1>12 DEF Answer
<1>14. QED
  BY <1>8, <1>9, <1>10, <1>13 DEF AskInv

\* What a step of the store does to leases, whoever takes it.
LEMMA LeaseStep ==
    ASSUME EnergyInv, [EnergyNext]_energyVars
    PROVE  /\ \A l \in Lease : lease[l].status \in Verdict \cup {"superseded"} => lease'[l] = lease[l]
           /\ \A l \in Lease : lease[l].status # "absent" => lease'[l].status # "absent"
<1>1. lease \in [Lease -> LeaseType]
  BY DEF EnergyInv, EnergyTypeOK
<1>2. \A l \in Lease : lease[l].status \in Verdict \cup {"superseded"} => lease'[l] = lease[l]
  BY KeptStep DEF LeaseKept, energyVars
<1>3. \A l \in Lease : lease[l].status # "absent" => lease'[l].status # "absent"
  <2>1. CASE UNCHANGED energyVars
    BY <2>1 DEF energyVars
  <2>2. ASSUME NEW a \in Action, Propose(a) \/ Settle(a)
        PROVE  lease' = lease
    BY <2>2 DEF Propose, Settle
  <2>3. CASE ClaimNothing
    BY <1>1, <2>3 DEF ClaimNothing, Swept, LeaseType
  <2>4. ASSUME NEW l \in Lease, Expire(l) \/ ClaimLease(l), NEW m \in Lease, lease[m].status # "absent"
        PROVE  lease'[m].status # "absent"
    BY <1>1, <2>4 DEF Expire, ClaimLease, Swept, NewRow, LeaseType
  <2>5. ASSUME NEW l \in Lease, NEW e, NEW cognition, NEW verdict, NEW row \in Verdict, NEW status,
               Decide(l, e, cognition, verdict, row, status) \/ Supersede(l),
               NEW m \in Lease, lease[m].status # "absent"
        PROVE  lease'[m].status # "absent"
    BY <1>1, <2>5, ZenonT(40) DEF Decide, Supersede, LeaseType, Verdict
  <2>6. ASSUME NEW l \in Lease, NEW c \in Choice, Complete(l, c), NEW m \in Lease,
               lease[m].status # "absent"
        PROVE  lease'[m].status # "absent"
    BY <2>5, <2>6 DEF Complete, Verdict
  <2>7. ASSUME NEW l \in Lease, NEW f \in FailureCode, Fail(l, f), NEW m \in Lease,
               lease[m].status # "absent"
        PROVE  lease'[m].status # "absent"
    BY <2>5, <2>7 DEF Fail, Verdict
  <2>8. QED
    BY <2>1, <2>2, <2>3, <2>4, <2>6, <2>7 DEF EnergyNext
<1>4. QED
  BY <1>2, <1>3

\* Expiry, observation and the discarding of abandoned requests.
LEMMA RestAsk ==
    ASSUME CallInv, CallInv', EnergyInv, AskInv, UNCHANGED <<worker, reply>>, inbox' \subseteq inbox,
           lease \in [Lease -> LeaseType],
           \A l \in Lease : lease'[l].status = lease[l].status /\ lease'[l].evidence = lease[l].evidence
    PROVE  AskInv'
<1>1. Submissions' \subseteq Submissions
  BY DEF Submissions
<1>2. \A w \in Worker : Asked(w)' = Asked(w) /\ Hands(w)' = Hands(w) /\ RequestOf(w)' = RequestOf(w)
  BY DEF Asked, Hands, RequestOf
<1>3. \A i \in Submissions : i.lease \in Lease
  BY DEF Submissions, IntentOf, CallInv, WorkersSound, InboxSound, Sound
<1>4. HeldOnce' /\ Known' /\ Unanswered' /\ OneAnswer'
  BY <1>1, <1>2, <1>3 DEF AskInv, HeldOnce, Known, Unanswered, OneAnswer
<1>5. \A w \in Worker : CallState(w)'
  <2> SUFFICES ASSUME NEW w \in Worker PROVE CallState(w)'
    OBVIOUS
  <2>1. worker[w].intent.op # "none" => worker[w].intent.lease \in Lease
    BY DEF CallInv, WorkersSound, Sound
  <2>2. CallState(w)
    BY DEF AskInv
  <2>3. QED
    BY <1>2, <2>1, <2>2 DEF CallState
<1>6. QED
  BY <1>4, <1>5 DEF AskInv

\* Every step keeps what is asked and answered in order.
LEMMA AskStep ==
    ASSUME CallInv, CallInv', EnergyInv, AskInv, [EnergyNext]_energyVars, [Next]_vars
    PROVE  AskInv'
<1>1. lease \in [Lease -> LeaseType]
  BY DEF EnergyInv, EnergyTypeOK
<1>2. ASSUME NEW w \in Worker, WorkerNext(w) PROVE AskInv'
  BY <1>2, BeginAsk, AssessAsk, ReceiveAsk, LossAsk DEF WorkerNext
<1>3. ASSUME NEW r \in inbox, ServeClaim(r) PROVE AskInv'
  <2>1. \A l \in Lease : lease'[l].status \in Verdict => lease'[l] = lease[l]
    <3>1. ASSUME lease' = Swept PROVE \A l \in Lease : lease'[l].status \in Verdict => lease'[l] = lease[l]
      BY <1>1, <3>1 DEF Swept, Verdict, LeaseType
    <3>2. ASSUME NEW l \in Lease, ClaimLease(l)
          PROVE  \A m \in Lease : lease'[m].status \in Verdict => lease'[m] = lease[m]
      BY <1>1, <3>2 DEF ClaimLease, Swept, NewRow, Verdict, LeaseType
    <3>3. QED
      BY <1>3, <3>1, <3>2 DEF ServeClaim, ClaimNothing
  <2>2. QED
    BY <1>3, <2>1, LeaseStep, ServeClaimAsk
<1>4. ASSUME NEW r \in inbox, ServeComplete(r) \/ ServeFail(r) PROVE AskInv'
  BY <1>4, LeaseStep, ServeAnswerAsk
<1>5. ASSUME NEW r \in inbox, Discard(r) PROVE AskInv'
  BY <1>1, <1>5, RestAsk DEF Discard, energyVars
<1>6. ASSUME NEW a \in Action, Observe(a) PROVE AskInv'
  BY <1>1, <1>6, RestAsk DEF Observe, Propose, Settle, callVars
<1>7. ASSUME NEW l \in Lease, ExpireOrphan(l) \/ ExpireInHand(l) PROVE AskInv'
  <2>1. \A m \in Lease : lease'[m].status = lease[m].status /\ lease'[m].evidence = lease[m].evidence
    BY <1>1, <1>7 DEF ExpireOrphan, ExpireInHand, Expire, LeaseType
  <2>2. QED
    BY <1>1, <1>7, <2>1, RestAsk DEF ExpireOrphan, ExpireInHand, callVars
<1>8. CASE UNCHANGED vars
  BY <1>1, <1>8, RestAsk DEF vars, callVars, energyVars
<1>9. QED
  BY <1>2, <1>3, <1>4, <1>5, <1>6, <1>7, <1>8 DEF Next, Serve

\* Nothing is asked at the start.
LEMMA AskInit == Init => AskInv
<1> SUFFICES ASSUME Init PROVE AskInv
  OBVIOUS
<1>1. \A w \in Worker : worker[w] = Fresh /\ reply[w] = NoReply
  BY DEF Init
<1>2. /\ Fresh.pc = "idle" /\ Fresh.job = NoLease /\ Fresh.intent = NoIntent
      /\ NoIntent.op = "none" /\ NoIntent.lease = NoLease
      /\ NoReply.lease = NoLease /\ NoReply.code = "none"
  BY DEF Fresh, NoIntent, NoReply
<1>3. Submissions = {} /\ \A w \in Worker : Hands(w) = {NoLease} /\ Asked(w) = {NoLease}
  BY <1>1, <1>2 DEF Init, Submissions, Hands, Asked
<1>4. HeldOnce /\ Known /\ Unanswered /\ OneAnswer
  BY <1>3, LeaseAssumption DEF HeldOnce, Known, Unanswered, OneAnswer
<1>5. \A w \in Worker : CallState(w)
  BY <1>1, <1>2 DEF Init, CallState, Refusal
<1>6. QED
  BY <1>4, <1>5 DEF AskInv

\* What is in the hands of the workers and on the way to the daemon is in order
\* in every reachable state.
LEMMA AskHolds == Spec => [](CallInv /\ EnergyInv /\ AskInv)
<1>1. Init => CallInv /\ AskInv
  BY CallInit, AskInit
<1>2. Spec => []EnergyInv
  BY WorkersUseTheStore, EnergyLeasesCorrect, PTL
<1>3. CallInv /\ EnergyInv /\ AskInv /\ [Next]_vars => CallInv' /\ AskInv'
  BY CallStep, AskStep
<1>4. QED
  BY <1>1, <1>2, <1>3, PTL DEF Spec

\* The host is asked once per lease: no two workers have the same lease, in
\* their hands or on its way to them, whatever calls were abandoned.
THEOREM OneAssessor == Spec => []OneAssessorPerLease
<1>1. CallInv /\ AskInv => OneAssessorPerLease
  BY DEF CallInv, WorkersSound, WorkerType, AskInv, HeldOnce, Hands, Asked, OneAssessorPerLease
<1>2. QED
  BY <1>1, AskHolds, PTL

\* A retained answer is never refused, so no worker submits one for ever.
THEOREM IntentsAreTaken == Spec => []NoIntentIsRefused
<1>1. AskInv => NoIntentIsRefused
  BY DEF AskInv, CallState, NoIntentIsRefused
<1>2. QED
  BY <1>1, AskHolds, PTL

\* A worker that hears a verdict has its own evidence in the store; otherwise its
\* lease is superseded.
THEOREM AnswersAreStored == Spec => []AcknowledgedIsStored
<1>1. AskInv => AcknowledgedIsStored
  BY DEF AskInv, CallState, AcknowledgedIsStored, Verdict
<1>2. QED
  BY <1>1, AskHolds, PTL

\* A daemon that starts again accepts what these workers made the store write.
THEOREM WorkersPassTheAudit == Spec => []AuditAccepts
BY WorkersUseTheStore, AuditAlwaysAccepts, PTL

=============================================================================
