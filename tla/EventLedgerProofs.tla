-------------------------- MODULE EventLedgerProofs --------------------------
(***************************************************************************)
(* Theorems about the ledger of a brain and its engines, and about the     *)
(* schedulers that append through them, for any number of engines and      *)
(* events and any outcome of the transactions.                             *)
(***************************************************************************)
EXTENDS PulseScheduler, SequenceTheorems, WellFoundedInduction, FiniteSetTheorems, TLAPS

\* A ledger that can be audited, whose events have distinct IDs.
SoundLog == Replayable /\ StoredOnce

\* Everything else that holds events holds a prefix of the ledger.
ViewsArePrefixes ==
    /\ \A s \in snapshots : IsPrefix(s, log)
    /\ IsPrefix(audited, log)
    /\ EnginesFollowLedger

\* The event under an engine's lock is acceptable in its state, and the lock keeps
\* that state.
CheckedAccepted ==
    \A e \in Engine :
        engine[e].checked # None => Accepts(engine[e].state, engine[e].checked)

LedgerInv == LedgerTypeOK /\ SoundLog /\ ViewsArePrefixes /\ CheckedAccepted /\ AnswersHold

-----------------------------------------------------------------------------
(* ViewsArePrefixes *)

\* A prefix, element by element.
LEMMA PrefixElements ==
  ASSUME NEW S, NEW s \in Seq(S), NEW t \in Seq(S)
  PROVE  IsPrefix(s, t) <=> /\ Len(s) <= Len(t)
                            /\ \A k \in 1 .. Len(s) : s[k] = t[k]
<1>1. ASSUME Len(s) <= Len(t)
      PROVE  SubSeq(s, 1, Len(s)) = SubSeq(t, 1, Len(s)) <=> \A k \in 1 .. Len(s) : s[k] = t[k]
  <2>1. /\ SubSeq(s, 1, Len(s)) \in Seq(S) /\ Len(SubSeq(s, 1, Len(s))) = Len(s)
        /\ \A k \in 1 .. Len(s) : SubSeq(s, 1, Len(s))[k] = s[k]
    BY SubSeqProperties
  <2>2. /\ SubSeq(t, 1, Len(s)) \in Seq(S) /\ Len(SubSeq(t, 1, Len(s))) = Len(s)
        /\ \A k \in 1 .. Len(s) : SubSeq(t, 1, Len(s))[k] = t[k]
    BY <1>1, SubSeqProperties
  <2>3. ASSUME \A k \in 1 .. Len(s) : s[k] = t[k]
        PROVE  SubSeq(s, 1, Len(s)) = SubSeq(t, 1, Len(s))
    BY <2>1, <2>2, <2>3, SeqEqual
  <2>4. ASSUME SubSeq(s, 1, Len(s)) = SubSeq(t, 1, Len(s)), NEW k \in 1 .. Len(s)
        PROVE  s[k] = t[k]
    BY <2>1, <2>2, <2>4
  <2> QED
    BY <2>3, <2>4
<1> QED
  BY <1>1 DEF IsPrefix

\* A sequence is a prefix of itself.
LEMMA OwnPrefix ==
  ASSUME NEW S, NEW t \in Seq(S)
  PROVE  IsPrefix(t, t)
<1>1. Len(t) \in Nat
  OBVIOUS
<1> QED
  BY <1>1, PrefixElements

\* ViewsArePrefixes of a sequence remain prefixes when it grows; it is one of itself; a
\* prefix of the same length is the sequence.
LEMMA PrefixFacts ==
  ASSUME NEW S, NEW s \in Seq(S), NEW t \in Seq(S), NEW x \in S
  PROVE  /\ IsPrefix(s, t) => IsPrefix(s, Append(t, x))
         /\ IsPrefix(t, t)
         /\ IsPrefix(s, t) /\ Len(s) = Len(t) => s = t
<1>1. /\ Append(t, x) \in Seq(S) /\ Len(Append(t, x)) = Len(t) + 1
      /\ \A k \in 1 .. Len(t) : Append(t, x)[k] = t[k]
      /\ Len(t) \in Nat /\ Len(s) \in Nat
  OBVIOUS
<1>2. IsPrefix(s, t) => IsPrefix(s, Append(t, x))
  <2> SUFFICES ASSUME IsPrefix(s, t) PROVE IsPrefix(s, Append(t, x))
    OBVIOUS
  <2>1. Len(s) <= Len(t) /\ \A k \in 1 .. Len(s) : s[k] = t[k]
    BY PrefixElements
  <2>2. Len(s) <= Len(Append(t, x)) /\ \A k \in 1 .. Len(s) : s[k] = Append(t, x)[k]
    BY <1>1, <2>1
  <2> QED
    BY <1>1, <2>2, PrefixElements
<1>3. IsPrefix(t, t)
  BY <1>1, PrefixElements
<1>4. IsPrefix(s, t) /\ Len(s) = Len(t) => s = t
  BY PrefixElements, SeqEqual
<1> QED
  BY <1>2, <1>3, <1>4

\* The events before an event do not change when the sequence grows.
LEMMA BeforeKept ==
  ASSUME NEW S, NEW t \in Seq(S), NEW x \in S, NEW i \in 1 .. Len(t) + 1
  PROVE  /\ SubSeq(Append(t, x), 1, i - 1) = SubSeq(t, 1, i - 1)
         /\ SubSeq(t, 1, Len(t)) = t
<1>1. /\ Append(t, x) \in Seq(S) /\ Len(Append(t, x)) = Len(t) + 1
      /\ \A k \in 1 .. Len(t) : Append(t, x)[k] = t[k]
      /\ Len(t) \in Nat
  OBVIOUS
<1>2. /\ SubSeq(Append(t, x), 1, i - 1) \in Seq(S)
      /\ Len(SubSeq(Append(t, x), 1, i - 1)) = i - 1
      /\ \A k \in 1 .. i - 1 : SubSeq(Append(t, x), 1, i - 1)[k] = t[k]
  BY <1>1, SubSeqProperties
<1>3. /\ SubSeq(t, 1, i - 1) \in Seq(S) /\ Len(SubSeq(t, 1, i - 1)) = i - 1
      /\ \A k \in 1 .. i - 1 : SubSeq(t, 1, i - 1)[k] = t[k]
  BY <1>1, SubSeqProperties
<1>4. SubSeq(Append(t, x), 1, i - 1) = SubSeq(t, 1, i - 1)
  BY <1>2, <1>3, SeqEqual
<1>5. /\ SubSeq(t, 1, Len(t)) \in Seq(S) /\ Len(SubSeq(t, 1, Len(t))) = Len(t)
      /\ \A k \in 1 .. Len(t) : SubSeq(t, 1, Len(t))[k] = t[k]
  BY <1>1, SubSeqProperties
<1>6. SubSeq(t, 1, Len(t)) = t
  BY <1>5, SeqEqual
<1> QED
  BY <1>4, <1>6

\* A prefix and the rest make the sequence.
LEMMA PrefixAndRest ==
  ASSUME NEW S, NEW s \in Seq(S), NEW t \in Seq(S), IsPrefix(s, t)
  PROVE  s \o SubSeq(t, Len(s) + 1, Len(t)) = t
<1>1. /\ Len(s) \in Nat /\ Len(t) \in Nat /\ Len(s) <= Len(t)
      /\ \A k \in 1 .. Len(s) : s[k] = t[k]
  BY PrefixElements
<1> DEFINE r == SubSeq(t, Len(s) + 1, Len(t))
<1>2. /\ r \in Seq(S) /\ Len(r) = Len(t) - Len(s)
      /\ \A k \in 1 .. Len(t) - Len(s) : r[k] = t[Len(s) + k]
  BY <1>1, SubSeqProperties
<1> HIDE DEF r
<1>3. /\ s \o r \in Seq(S) /\ Len(s \o r) = Len(t)
      /\ \A k \in 1 .. Len(t) : (s \o r)[k] = IF k <= Len(s) THEN s[k] ELSE r[k - Len(s)]
  BY <1>1, <1>2, ConcatProperties
<1>4. ASSUME NEW k \in 1 .. Len(t)
      PROVE  (s \o r)[k] = t[k]
  <2>1. CASE k <= Len(s)
    BY <1>1, <1>3, <2>1
  <2>2. CASE ~(k <= Len(s))
    <3>1. k - Len(s) \in 1 .. Len(t) - Len(s) /\ Len(s) + (k - Len(s)) = k
      BY <1>1, <2>2
    <3> QED
      BY <1>2, <1>3, <2>2, <3>1
  <2> QED
    BY <2>1, <2>2
<1> QED
  BY <1>3, <1>4, SeqEqual DEF r

-----------------------------------------------------------------------------
(* Replay *)

\* A bounded set of sequences has a longest one.
LEMMA LongestExists ==
  ASSUME NEW S, NEW T \in SUBSET Seq(S), T # {}, NEW bound \in Nat,
         \A s \in T : Len(s) <= bound
  PROVE  \E s \in T : \A t \in T : Len(t) <= Len(s)
<1> DEFINE R == OpToRel(<, Nat)
           D == {bound - Len(s) : s \in T}
<1>1. D \subseteq Nat /\ D # {}
  <2>1. ASSUME NEW s \in T PROVE bound - Len(s) \in Nat
    <3>1. Len(s) \in Nat
      OBVIOUS
    <3> QED
      BY <3>1
  <2> QED
    BY <2>1
<1>2. \A a, b \in Nat : a < b => <<a, b>> \in R
  BY DEF OpToRel
<1>3. IsWellFoundedOn(R, Nat)
  BY NatLessThanWellFounded
<1> HIDE DEF R, D
<1>4. PICK x \in D : \A y \in D : ~(<<y, x>> \in R)
  BY <1>1, <1>3, WFMin
<1>5. PICK s \in T : x = bound - Len(s)
  BY <1>4 DEF D
<1>6. ASSUME NEW t \in T PROVE Len(t) <= Len(s)
  <2>1. bound - Len(t) \in D
    BY DEF D
  <2>2. ~(bound - Len(t) < x)
    BY <1>1, <1>2, <1>4, <2>1
  <2>3. Len(s) \in Nat /\ Len(t) \in Nat
    OBVIOUS
  <2> QED
    BY <1>5, <2>2, <2>3
<1> QED
  BY <1>6

\* An engine that opens starts from the whole ledger, whether it takes the state
\* of the audit or replays from the latest snapshot.
LEMMA OpensAtHead ==
  ASSUME LedgerTypeOK, ViewsArePrefixes
  PROVE  Replay = log /\ Bootstrap = log
<1>1. /\ log \in Seq(Event) /\ audited \in Seq(Event)
      /\ snapshots \in SUBSET Seq(Event) /\ Len(log) \in Nat
  BY DEF LedgerTypeOK
<1>2. CASE snapshots = {}
  <2>1. Replay = log
    BY <1>2 DEF Replay
  <2> QED
    BY <1>1, <2>1, PrefixElements, SeqEqual DEF Bootstrap, ViewsArePrefixes
<1>3. CASE snapshots # {}
  <2>1. \A s \in snapshots : Len(s) <= Len(log)
    BY DEF ViewsArePrefixes, IsPrefix
  <2>2. \E s \in snapshots : \A t \in snapshots : Len(t) <= Len(s)
    BY <1>1, <1>3, <2>1, LongestExists
  <2>3. Latest \in snapshots
    BY <2>2 DEF Latest
  <2>4. Latest \o SubSeq(log, Len(Latest) + 1, Len(log)) = log
    BY <1>1, <2>3, PrefixAndRest DEF ViewsArePrefixes
  <2>5. Replay = log
    BY <1>3, <2>4 DEF Replay
  <2> QED
    BY <1>1, <2>5, PrefixElements, SeqEqual DEF Bootstrap, ViewsArePrefixes
<1> QED
  BY <1>2, <1>3

-----------------------------------------------------------------------------
(* One event is added *)

\* The ledger stays sound when an event is added that is new and acceptable, and
\* whatever was a prefix of it remains one.
LEMMA Extended ==
  ASSUME LedgerTypeOK, SoundLog, NEW v \in Event, ~Stored(v), Accepts(log, v),
         log' = Append(log, v)
  PROVE  /\ SoundLog'
         /\ log' \in Seq(Event) /\ Len(log') = Len(log) + 1
         /\ log'[Len(log) + 1] = v
         /\ \A k \in 1 .. Len(log) : log'[k] = log[k]
         /\ \A s \in Seq(Event) : IsPrefix(s, log) => IsPrefix(s, log')
<1>1. /\ log \in Seq(Event) /\ Len(log) \in Nat
      /\ log' \in Seq(Event) /\ Len(log') = Len(log) + 1
      /\ log'[Len(log) + 1] = v
      /\ \A k \in 1 .. Len(log) : log'[k] = log[k]
  BY DEF LedgerTypeOK
<1>2. Replayable'
  <2> SUFFICES ASSUME NEW i \in 1 .. Len(log) + 1
               PROVE  Accepts(SubSeq(log', 1, i - 1), log'[i])
    BY <1>1 DEF Replayable
  <2>1. /\ SubSeq(log', 1, i - 1) = SubSeq(log, 1, i - 1)
        /\ SubSeq(log, 1, Len(log)) = log
    BY <1>1, BeforeKept
  <2>2. CASE i = Len(log) + 1
    <3>1. i - 1 = Len(log)
      BY <1>1, <2>2
    <3>2. SubSeq(log', 1, i - 1) = log /\ log'[i] = v
      BY <1>1, <2>1, <2>2, <3>1
    <3> QED
      BY <3>2
  <2>3. CASE i \in 1 .. Len(log)
    BY <1>1, <2>1, <2>3 DEF SoundLog, Replayable
  <2> QED
    BY <1>1, <2>2, <2>3
<1>3. StoredOnce'
  <2> SUFFICES ASSUME NEW i \in 1 .. Len(log) + 1, NEW j \in 1 .. Len(log) + 1,
                      log'[i].id = log'[j].id
               PROVE  i = j
    BY <1>1 DEF StoredOnce
  <2>1. CASE i \in 1 .. Len(log) /\ j \in 1 .. Len(log)
    BY <1>1, <2>1 DEF SoundLog, StoredOnce
  <2>2. CASE i = Len(log) + 1 /\ j \in 1 .. Len(log)
    BY <1>1, <2>2 DEF Stored
  <2>3. CASE j = Len(log) + 1 /\ i \in 1 .. Len(log)
    BY <1>1, <2>3 DEF Stored
  <2>4. CASE i = Len(log) + 1 /\ j = Len(log) + 1
    BY <2>4
  <2> QED
    BY <1>1, <2>1, <2>2, <2>3, <2>4
<1>4. \A s \in Seq(Event) : IsPrefix(s, log) => IsPrefix(s, log')
  BY <1>1, PrefixFacts
<1> QED
  BY <1>1, <1>2, <1>3, <1>4 DEF SoundLog

-----------------------------------------------------------------------------
(* The operations preserve the invariant *)

\* An empty ledger without engines is sound.
LEMMA InitHolds == LedgerInit => LedgerInv
<1> SUFFICES ASSUME LedgerInit PROVE LedgerInv
  OBVIOUS
<1>1. /\ log = <<>> /\ snapshots = {} /\ audited = <<>> /\ answered = {} /\ faults = 0
      /\ engine = [e \in Engine |-> Closed]
  BY DEF LedgerInit
<1>2. LedgerTypeOK
  BY <1>1, LedgerAssumption DEF LedgerTypeOK, EngineType, Closed
<1>3. \A e \in Engine : engine[e].state = <<>> /\ engine[e].checked = None
  BY <1>1 DEF Closed
<1>4. SoundLog
  BY <1>1 DEF SoundLog, Replayable, StoredOnce
<1>5. IsPrefix(<<>>, log)
  BY <1>1 DEF IsPrefix
<1>6. ViewsArePrefixes /\ CheckedAccepted /\ AnswersHold
  BY <1>1, <1>3, <1>5 DEF ViewsArePrefixes, EnginesFollowLedger, CheckedAccepted, AnswersHold
<1> QED
  BY <1>2, <1>4, <1>6 DEF LedgerInv

\* The engine e is the only one to change, to a row of the right shape.
LEMMA EngineTyped ==
  ASSUME LedgerTypeOK, NEW e \in Engine, NEW row \in EngineType,
         row.checked # None => row.open /\ ~row.diverged,
         engine' = [engine EXCEPT ![e] = row]
  PROVE  /\ engine' \in [Engine -> EngineType]
         /\ \A f \in Engine : engine'[f].checked # None => engine'[f].open /\ ~engine'[f].diverged
         /\ engine'[e] = row
         /\ \A f \in Engine : f # e => engine'[f] = engine[f]
BY DEF LedgerTypeOK

\* Marking an engine as diverged, or giving its lock back with a state, gives such
\* a row.
LEMMA RowFacts ==
  ASSUME LedgerTypeOK, NEW e \in Engine, NEW s \in Seq(Event)
  PROVE  /\ engine[e] \in EngineType
         /\ Diverge(e) => \E row \in EngineType :
                /\ engine' = [engine EXCEPT ![e] = row]
                /\ row.checked = None /\ row.state = engine[e].state
         /\ Publish(e, s) => \E row \in EngineType :
                /\ engine' = [engine EXCEPT ![e] = row]
                /\ row.checked = None /\ row.state = s
<1>1. engine[e] \in EngineType
  BY DEF LedgerTypeOK
<1>2. ASSUME Diverge(e)
      PROVE  \E row \in EngineType : /\ engine' = [engine EXCEPT ![e] = row]
                                     /\ row.checked = None /\ row.state = engine[e].state
  <2> DEFINE row == [engine[e] EXCEPT !.diverged = TRUE, !.checked = None]
  <2>1. row \in EngineType /\ row.checked = None /\ row.state = engine[e].state
    BY <1>1 DEF EngineType
  <2>2. engine' = [engine EXCEPT ![e] = row]
    BY <1>2 DEF Diverge
  <2> HIDE DEF row
  <2> QED
    BY <2>1, <2>2
<1>3. ASSUME Publish(e, s)
      PROVE  \E row \in EngineType : /\ engine' = [engine EXCEPT ![e] = row]
                                     /\ row.checked = None /\ row.state = s
  <2> DEFINE row == [engine[e] EXCEPT !.state = s, !.checked = None]
  <2>1. row \in EngineType /\ row.checked = None /\ row.state = s
    BY <1>1 DEF EngineType
  <2>2. engine' = [engine EXCEPT ![e] = row]
    BY <1>3 DEF Publish
  <2> HIDE DEF row
  <2> QED
    BY <2>1, <2>2
<1> QED
  BY <1>1, <1>2, <1>3

\* One engine gets a new row whose state is a prefix of the ledger, which keeps its
\* prefixes: every engine still follows the ledger.
LEMMA EngineFollows ==
  ASSUME LedgerTypeOK, ViewsArePrefixes, CheckedAccepted,
         NEW e \in Engine, NEW row \in EngineType,
         row.checked # None =>
            row.open /\ ~row.diverged /\ Accepts(row.state, row.checked),
         engine' = [engine EXCEPT ![e] = row],
         \A s \in Seq(Event) : IsPrefix(s, log) => IsPrefix(s, log'),
         IsPrefix(row.state, log')
  PROVE  /\ engine' \in [Engine -> EngineType]
         /\ \A f \in Engine : engine'[f].checked # None => engine'[f].open /\ ~engine'[f].diverged
         /\ EnginesFollowLedger'
         /\ CheckedAccepted'
<1>1. /\ engine' \in [Engine -> EngineType]
      /\ \A f \in Engine : engine'[f].checked # None => engine'[f].open /\ ~engine'[f].diverged
      /\ engine'[e] = row
      /\ \A f \in Engine : f # e => engine'[f] = engine[f]
  BY EngineTyped
<1>2. \A f \in Engine : engine[f].state \in Seq(Event) /\ IsPrefix(engine[f].state, log)
  BY DEF LedgerTypeOK, EngineType, ViewsArePrefixes, EnginesFollowLedger
<1>3. ASSUME NEW f \in Engine
      PROVE  /\ IsPrefix(engine'[f].state, log')
             /\ engine'[f].checked # None => Accepts(engine'[f].state, engine'[f].checked)
  <2>1. CASE f = e
    BY <1>1, <2>1
  <2>2. CASE f # e
    BY <1>1, <1>2, <2>2 DEF CheckedAccepted
  <2> QED
    BY <2>1, <2>2
<1> QED
  BY <1>1, <1>3 DEF EnginesFollowLedger, CheckedAccepted

\* When the ledger does not change, neither do its prefixes.
LEMMA SameLog ==
  ASSUME LedgerTypeOK, SoundLog, log' = log
  PROVE  /\ SoundLog'
         /\ log' \in Seq(Event) /\ Len(log') = Len(log)
         /\ \A k \in 1 .. Len(log) : log'[k] = log[k]
         /\ \A s \in Seq(Event) : IsPrefix(s, log) => IsPrefix(s, log')
BY DEF LedgerTypeOK, SoundLog, Replayable, StoredOnce

\* The parts that no engine changes follow the ledger when it keeps its rows and
\* stays in its bound.
LEMMA RestFollows ==
  ASSUME LedgerInv,
         SoundLog', log' \in Seq(Event), Len(log') \in Len(log) .. MaxLog,
         \A k \in 1 .. Len(log) : log'[k] = log[k],
         \A s \in Seq(Event) : IsPrefix(s, log) => IsPrefix(s, log'),
         engine' \in [Engine -> EngineType],
         \A f \in Engine : engine'[f].checked # None => engine'[f].open /\ ~engine'[f].diverged,
         EnginesFollowLedger', CheckedAccepted',
         snapshots' \subseteq Seq(Event), \A s \in snapshots' : IsPrefix(s, log'),
         audited' = audited \/ audited' = log,
         answered' \subseteq Event \X Nat,
         \A a \in answered' : a \in answered \/ (a[2] \in 1 .. Len(log') /\ log'[a[2]] = a[1]),
         faults' \in 0 .. MaxFaults
  PROVE  LedgerInv'
<1>1. /\ log \in Seq(Event) /\ Len(log) \in Nat /\ Len(log') \in Nat /\ audited \in Seq(Event)
      /\ Len(log') <= MaxLog /\ MaxLog \in Nat
  BY LedgerAssumption DEF LedgerInv, LedgerTypeOK
<1>2. LedgerTypeOK'
  BY <1>1 DEF LedgerTypeOK
<1>3. IsPrefix(audited', log')
  <2>1. IsPrefix(audited, log) /\ IsPrefix(log, log)
    BY <1>1, PrefixElements DEF LedgerInv, ViewsArePrefixes
  <2> QED
    BY <1>1, <2>1
<1>4. AnswersHold'
  <2> SUFFICES ASSUME NEW a \in answered'
               PROVE  a[2] \in 1 .. Len(log') /\ log'[a[2]] = a[1]
    BY DEF AnswersHold
  <2>1. CASE a \in answered
    BY <1>1, <2>1 DEF LedgerInv, AnswersHold
  <2> QED
    BY <2>1
<1> QED
  BY <1>2, <1>3, <1>4 DEF LedgerInv, ViewsArePrefixes

\* The audit finds nothing wrong, and closes the engines.
LEMMA RestartHolds == LedgerInv /\ Restart => LedgerInv'
<1> SUFFICES ASSUME LedgerInv, Restart PROVE LedgerInv'
  OBVIOUS
<1>1. LedgerTypeOK /\ SoundLog /\ ViewsArePrefixes /\ log' = log
  BY DEF LedgerInv, Restart
<1>2. engine' = [f \in Engine |-> Closed] /\ Closed \in EngineType
  BY DEF Restart, EngineType, Closed
<1>3. \A f \in Engine : engine'[f].state = <<>> /\ engine'[f].checked = None
  BY <1>2 DEF Closed
<1>4. IsPrefix(<<>>, log')
  BY DEF IsPrefix
<1>5. EnginesFollowLedger' /\ CheckedAccepted'
  BY <1>3, <1>4 DEF EnginesFollowLedger, CheckedAccepted
<1>6. faults' \in 0 .. MaxFaults
  BY <1>1, LedgerAssumption DEF Restart, Fault, LedgerTypeOK
<1>7. Len(log') \in Len(log) .. MaxLog
  BY <1>1, LedgerAssumption DEF LedgerTypeOK
<1>8. /\ snapshots' = snapshots /\ answered' = answered /\ audited' = log
      /\ snapshots \subseteq Seq(Event) /\ answered \subseteq Event \X Nat
      /\ \A s \in snapshots : IsPrefix(s, log)
  BY <1>1 DEF Restart, LedgerTypeOK, ViewsArePrefixes
<1> QED
  BY <1>1, <1>2, <1>3, <1>5, <1>6, <1>7, <1>8, SameLog, RestFollows

\* An engine opens with the whole ledger as its state.
LEMMA OpenHolds == ASSUME NEW e \in Engine PROVE LedgerInv /\ Open(e) => LedgerInv'
<1> SUFFICES ASSUME LedgerInv, Open(e) PROVE LedgerInv'
  OBVIOUS
<1>1. LedgerTypeOK /\ SoundLog /\ ViewsArePrefixes /\ CheckedAccepted /\ log' = log
  BY DEF LedgerInv, Open
<1>2. Bootstrap = log /\ log \in Seq(Event) /\ IsPrefix(log, log)
  BY <1>1, OpensAtHead, PrefixElements DEF LedgerTypeOK
<1> DEFINE row == [Closed EXCEPT !.open = TRUE, !.state = Bootstrap]
<1>3. row \in EngineType /\ row.checked = None /\ row.state = log
  BY <1>2 DEF EngineType, Closed
<1>4. engine' = [engine EXCEPT ![e] = row]
  BY DEF Open
<1> HIDE DEF row
<1>5. /\ engine' \in [Engine -> EngineType]
      /\ \A f \in Engine : engine'[f].checked # None => engine'[f].open /\ ~engine'[f].diverged
      /\ EnginesFollowLedger' /\ CheckedAccepted'
  BY <1>1, <1>2, <1>3, <1>4, SameLog, EngineFollows
<1>6. Len(log') \in Len(log) .. MaxLog
  BY <1>1, LedgerAssumption DEF LedgerTypeOK
<1>7. /\ snapshots' = snapshots /\ answered' = answered /\ audited' = audited /\ faults' = faults
      /\ snapshots \subseteq Seq(Event) /\ answered \subseteq Event \X Nat
      /\ faults \in 0 .. MaxFaults /\ \A s \in snapshots : IsPrefix(s, log)
  BY <1>1 DEF Open, LedgerTypeOK, ViewsArePrefixes
<1> QED
  BY <1>1, <1>5, <1>6, <1>7, SameLog, RestFollows

\* An engine whose state is not longer or shorter than the ledger has its rows.
LEMMA AtHead ==
  ASSUME LedgerInv, NEW e \in Engine, Len(log) = Len(engine[e].state)
  PROVE  engine[e].state = log
<1>1. /\ engine[e].state \in Seq(Event) /\ log \in Seq(Event)
      /\ IsPrefix(engine[e].state, log)
  BY DEF LedgerInv, LedgerTypeOK, EngineType, ViewsArePrefixes, EnginesFollowLedger
<1> QED
  BY <1>1, PrefixElements, SeqEqual

\* A row found under an event's ID is one of the ledger.
LEMMA RowOfStored ==
  ASSUME NEW v \in Event, Stored(v)
  PROVE  Row(v) \in 1 .. Len(log) /\ log[Row(v)].id = v.id
BY DEF Stored, Row

\* Steps that leave the ledger alone and give one engine a row with the state it
\* had, or leave the engines alone too.
LEMMA LedgerUntouched ==
  ASSUME LedgerInv, NEW e \in Engine, log' = log,
         \/ engine' = engine
         \/ \E row \in EngineType :
               /\ engine' = [engine EXCEPT ![e] = row]
               /\ row.state = engine[e].state
               /\ row.checked # None =>
                     row.open /\ ~row.diverged /\ Accepts(row.state, row.checked),
         snapshots' = snapshots \/ (/\ snapshots' = snapshots \cup {engine[e].state}
                                   /\ Len(log) = Len(engine[e].state)),
         audited' = audited,
         answered' \subseteq Event \X Nat,
         \A a \in answered' : a \in answered \/ (a[2] \in 1 .. Len(log) /\ log[a[2]] = a[1]),
         faults' \in 0 .. MaxFaults
  PROVE  LedgerInv'
<1>1. LedgerTypeOK /\ SoundLog /\ ViewsArePrefixes /\ CheckedAccepted
  BY DEF LedgerInv
<1>2. /\ SoundLog' /\ log' \in Seq(Event)
      /\ \A k \in 1 .. Len(log) : log'[k] = log[k]
      /\ \A s \in Seq(Event) : IsPrefix(s, log) => IsPrefix(s, log')
      /\ Len(log') \in Len(log) .. MaxLog
  BY <1>1, SameLog, LedgerAssumption DEF LedgerTypeOK
<1>3. engine[e].state \in Seq(Event) /\ IsPrefix(engine[e].state, log)
  BY <1>1 DEF LedgerTypeOK, EngineType, ViewsArePrefixes, EnginesFollowLedger
<1>4. /\ engine' \in [Engine -> EngineType]
      /\ \A f \in Engine : engine'[f].checked # None => engine'[f].open /\ ~engine'[f].diverged
      /\ EnginesFollowLedger' /\ CheckedAccepted'
  <2>1. CASE engine' = engine
    BY <1>1, <2>1 DEF LedgerTypeOK, ViewsArePrefixes, EnginesFollowLedger, CheckedAccepted
  <2>2. CASE engine' # engine
    <3>1. PICK row \in EngineType :
            /\ engine' = [engine EXCEPT ![e] = row]
            /\ row.state = engine[e].state
            /\ row.checked # None =>
                 row.open /\ ~row.diverged /\ Accepts(row.state, row.checked)
      BY <2>2
    <3>2. IsPrefix(row.state, log')
      BY <1>3, <3>1
    <3> QED
      BY <1>1, <1>2, <3>1, <3>2, EngineFollows
  <2> QED
    BY <2>1, <2>2
<1>5. snapshots' \subseteq Seq(Event) /\ \A s \in snapshots' : IsPrefix(s, log')
  BY <1>1, <1>3 DEF LedgerTypeOK, ViewsArePrefixes
<1>6. \A a \in answered' : a \in answered \/ (a[2] \in 1 .. Len(log') /\ log'[a[2]] = a[1])
  OBVIOUS
<1> QED
  BY <1>2, <1>4, <1>5, <1>6, RestFollows

\* The first half of append: an engine behind the ledger is marked, a stored event
\* is answered with its row, an acceptable one is locked.
LEMMA CheckHolds ==
  ASSUME NEW e \in Engine, NEW v \in Event
  PROVE  LedgerInv /\ Check(e, v) => LedgerInv'
<1> SUFFICES ASSUME LedgerInv, Check(e, v) PROVE LedgerInv'
  OBVIOUS
<1>1. /\ LedgerTypeOK /\ log' = log /\ snapshots' = snapshots
      /\ audited' = audited /\ faults' = faults
      /\ engine[e].open /\ ~engine[e].diverged /\ engine[e].checked = None
  BY DEF LedgerInv, Check
<1>2. /\ answered \subseteq Event \X Nat /\ faults' \in 0 .. MaxFaults
      /\ engine[e] \in EngineType /\ engine[e].state \in Seq(Event)
  BY <1>1 DEF LedgerTypeOK, EngineType
<1>3. CASE Len(log) # Len(engine[e].state)
  <2>1. Diverge(e) /\ answered' = answered
    BY <1>3 DEF Check
  <2>2. PICK row \in EngineType : /\ engine' = [engine EXCEPT ![e] = row]
                                  /\ row.checked = None /\ row.state = engine[e].state
    BY <1>1, <1>2, <2>1, RowFacts
  <2> QED
    BY <1>1, <1>2, <2>1, <2>2, LedgerUntouched
<1>4. CASE Len(log) = Len(engine[e].state) /\ Stored(v)
  <2>1. /\ engine' = engine
        /\ answered' = IF Exact(v) THEN answered \cup {<<v, Row(v)>>} ELSE answered
    BY <1>4 DEF Check
  <2>2. Row(v) \in 1 .. Len(log) /\ Row(v) \in Nat
    BY <1>4, RowOfStored
  <2>3. \A a \in answered' : a \in answered \/ (a[2] \in 1 .. Len(log) /\ log[a[2]] = a[1])
    BY <2>1, <2>2 DEF Exact
  <2>4. answered' \subseteq Event \X Nat
    BY <1>2, <2>1, <2>2
  <2> QED
    BY <1>1, <1>2, <2>1, <2>3, <2>4, LedgerUntouched
<1>5. CASE Len(log) = Len(engine[e].state) /\ ~Stored(v)
  <2>1. /\ Accepts(engine[e].state, v) /\ answered' = answered
        /\ engine' = [engine EXCEPT ![e].checked = v]
    BY <1>5 DEF Check
  <2> DEFINE row == [engine[e] EXCEPT !.checked = v]
  <2>2. /\ row \in EngineType /\ row.checked = v /\ row.state = engine[e].state
        /\ row.open = engine[e].open /\ row.diverged = engine[e].diverged
    BY <1>2 DEF EngineType
  <2>3. engine' = [engine EXCEPT ![e] = row]
    BY <2>1
  <2> HIDE DEF row
  <2>4. row.checked # None => row.open /\ ~row.diverged /\ Accepts(row.state, row.checked)
    BY <1>1, <2>1, <2>2
  <2> QED
    BY <1>1, <1>2, <2>1, <2>2, <2>3, <2>4, LedgerUntouched
<1> QED
  BY <1>3, <1>4, <1>5

\* An event is added at the head and its engine publishes, is marked or keeps its
\* state; its caller may have been answered.
LEMMA LedgerGrows ==
  ASSUME LedgerInv, NEW e \in Engine, NEW v \in Event, ~Stored(v),
         Len(log) = Len(engine[e].state), Accepts(engine[e].state, v),
         Len(log) < MaxLog, log' = Append(log, v),
         \E row \in EngineType :
               /\ engine' = [engine EXCEPT ![e] = row]
               /\ row.checked = None
               /\ row.state = engine[e].state \/ row.state = Append(engine[e].state, v),
         snapshots' = snapshots, audited' = audited,
         answered' = answered \/ answered' = answered \cup {<<v, Len(engine[e].state) + 1>>},
         faults' \in 0 .. MaxFaults
  PROVE  LedgerInv'
<1>1. LedgerTypeOK /\ SoundLog /\ ViewsArePrefixes /\ CheckedAccepted /\ engine[e].state = log
  BY AtHead DEF LedgerInv
<1>2. /\ log \in Seq(Event) /\ Len(log) \in Nat /\ MaxLog \in Nat
      /\ snapshots \subseteq Seq(Event) /\ answered \subseteq Event \X Nat
  BY <1>1, LedgerAssumption DEF LedgerTypeOK
<1>3. /\ SoundLog' /\ log' \in Seq(Event) /\ Len(log') = Len(log) + 1
      /\ log'[Len(log) + 1] = v
      /\ \A k \in 1 .. Len(log) : log'[k] = log[k]
      /\ \A s \in Seq(Event) : IsPrefix(s, log) => IsPrefix(s, log')
  BY <1>1, Extended
<1>4. PICK row \in EngineType :
          /\ engine' = [engine EXCEPT ![e] = row]
          /\ row.checked = None
          /\ row.state = engine[e].state \/ row.state = Append(engine[e].state, v)
  OBVIOUS
<1>5. IsPrefix(row.state, log')
  <2>1. IsPrefix(log, log) /\ IsPrefix(log', log')
    BY <1>2, <1>3, OwnPrefix
  <2> QED
    BY <1>1, <1>2, <1>3, <1>4, <2>1
<1>6. /\ engine' \in [Engine -> EngineType]
      /\ \A f \in Engine : engine'[f].checked # None => engine'[f].open /\ ~engine'[f].diverged
      /\ EnginesFollowLedger' /\ CheckedAccepted'
  BY <1>1, <1>3, <1>4, <1>5, EngineFollows
<1>7. /\ answered' \subseteq Event \X Nat
      /\ \A a \in answered' : a \in answered \/ (a[2] \in 1 .. Len(log') /\ log'[a[2]] = a[1])
  BY <1>1, <1>2, <1>3
<1>8. \A s \in snapshots' : IsPrefix(s, log')
  BY <1>1, <1>2, <1>3 DEF ViewsArePrefixes
<1>9. Len(log') \in Len(log) .. MaxLog
  BY <1>2, <1>3
<1> QED
  BY <1>2, <1>3, <1>6, <1>7, <1>8, <1>9, RestFollows

\* The second half of append.  What it inserts goes exactly after its state; what
\* it adopts was stored there by another engine.
LEMMA StoreHolds == ASSUME NEW e \in Engine PROVE LedgerInv /\ Store(e) => LedgerInv'
<1> SUFFICES ASSUME LedgerInv, Store(e) PROVE LedgerInv'
  OBVIOUS
<1> DEFINE v == engine[e].checked
           s == engine[e].state
<1>1. /\ LedgerTypeOK /\ v # None /\ Len(log') <= MaxLog
      /\ snapshots' = snapshots /\ audited' = audited /\ faults' = faults
  BY DEF LedgerInv, Store
<1>2. /\ engine[e] \in EngineType /\ v \in Event /\ s \in Seq(Event)
      /\ log \in Seq(Event) /\ Len(log) \in Nat /\ Len(s) \in Nat /\ MaxLog \in Nat
      /\ answered \subseteq Event \X Nat /\ faults' \in 0 .. MaxFaults
      /\ IsPrefix(s, log) /\ Accepts(s, v)
  BY <1>1, LedgerAssumption
  DEF LedgerTypeOK, EngineType, LedgerInv, ViewsArePrefixes, EnginesFollowLedger, CheckedAccepted
<1>3. Append(s, v) \in Seq(Event)
  BY <1>2
<1>4. CASE Insertable(e)
  <2>1. log' = Append(log, v) /\ Publish(e, Append(s, v)) /\ answered' = answered \cup {<<v, Len(s) + 1>>}
    BY <1>4 DEF Store
  <2>2. PICK row \in EngineType : /\ engine' = [engine EXCEPT ![e] = row]
                                  /\ row.checked = None /\ row.state = Append(s, v)
    BY <1>1, <1>3, <2>1, RowFacts
  <2>3. ~Stored(v) /\ Len(log) = Len(s) /\ Len(log) < MaxLog
    BY <1>1, <1>2, <1>4, <2>1 DEF Insertable
  <2> QED
    BY <1>1, <1>2, <2>1, <2>2, <2>3, LedgerGrows
<1>5. CASE ~Insertable(e) /\ Adoptable(e)
  <2>1. log' = log /\ Publish(e, Append(s, v)) /\ answered' = answered \cup {<<v, Len(s) + 1>>}
    BY <1>5 DEF Store
  <2>2. PICK row \in EngineType : /\ engine' = [engine EXCEPT ![e] = row]
                                  /\ row.checked = None /\ row.state = Append(s, v)
    BY <1>1, <1>3, <2>1, RowFacts
  <2>3. log[Len(log)] = v /\ Len(log) = Len(s) + 1
    BY <1>5 DEF Adoptable, Exact
  <2>4. IsPrefix(Append(s, v), log)
    <3>1. \A k \in 1 .. Len(s) : s[k] = log[k]
      BY <1>2, PrefixElements
    <3>2. /\ Len(Append(s, v)) = Len(s) + 1 /\ Append(s, v)[Len(s) + 1] = v
          /\ \A k \in 1 .. Len(s) : Append(s, v)[k] = s[k]
      BY <1>2
    <3>3. \A k \in 1 .. Len(s) + 1 : Append(s, v)[k] = log[k]
      BY <1>2, <2>3, <3>1, <3>2
    <3>4. Len(Append(s, v)) <= Len(log)
      BY <1>2, <2>3, <3>2
    <3>5. \A k \in 1 .. Len(Append(s, v)) : Append(s, v)[k] = log[k]
      BY <3>2, <3>3
    <3> DEFINE w == Append(s, v)
    <3>6. w \in Seq(Event)
      BY <1>3
    <3> HIDE DEF w
    <3>7. IsPrefix(w, log)
      BY <1>2, <3>4, <3>5, <3>6, PrefixElements DEF w
    <3> QED
      BY <3>7 DEF w
  <2>5. /\ SoundLog' /\ log' \in Seq(Event) /\ Len(log') = Len(log)
        /\ \A k \in 1 .. Len(log) : log'[k] = log[k]
        /\ \A t \in Seq(Event) : IsPrefix(t, log) => IsPrefix(t, log')
    BY <1>1, <2>1, SameLog DEF LedgerInv
  <2>6. /\ engine' \in [Engine -> EngineType]
        /\ \A f \in Engine : engine'[f].checked # None => engine'[f].open /\ ~engine'[f].diverged
        /\ EnginesFollowLedger' /\ CheckedAccepted'
    BY <2>1, <2>2, <2>4, <2>5, EngineFollows DEF LedgerInv
  <2>7. /\ answered' \subseteq Event \X Nat
        /\ \A a \in answered' : a \in answered \/ (a[2] \in 1 .. Len(log') /\ log'[a[2]] = a[1])
    BY <1>2, <2>1, <2>3
  <2>8. snapshots' \subseteq Seq(Event) /\ \A t \in snapshots' : IsPrefix(t, log')
    BY <1>1, <2>1 DEF LedgerInv, LedgerTypeOK, ViewsArePrefixes
  <2>9. Len(log') \in Len(log) .. MaxLog
    BY <1>1, <1>2, <2>5
  <2> QED
    BY <1>1, <1>2, <2>5, <2>6, <2>7, <2>8, <2>9, RestFollows
<1>6. CASE ~Insertable(e) /\ ~Adoptable(e) /\ Refusable(e)
  <2>1. /\ engine' = [engine EXCEPT ![e].checked = None]
        /\ log' = log /\ answered' = answered
    BY <1>6 DEF Store
  <2> DEFINE row == [engine[e] EXCEPT !.checked = None]
  <2>2. row \in EngineType /\ row.checked = None /\ row.state = s
    BY <1>2 DEF EngineType
  <2>3. engine' = [engine EXCEPT ![e] = row]
    BY <2>1
  <2> HIDE DEF row
  <2> QED
    BY <1>1, <1>2, <2>1, <2>2, <2>3, LedgerUntouched
<1>7. CASE ~Insertable(e) /\ ~Adoptable(e) /\ ~Refusable(e)
  <2>1. Diverge(e) /\ log' = log /\ answered' = answered
    BY <1>7 DEF Store
  <2>2. PICK row \in EngineType : /\ engine' = [engine EXCEPT ![e] = row]
                                  /\ row.checked = None /\ row.state = engine[e].state
    BY <1>1, <1>2, <2>1, RowFacts
  <2> QED
    BY <1>1, <1>2, <2>1, <2>2, LedgerUntouched
<1> QED
  BY <1>4, <1>5, <1>6, <1>7

\* The insert raises, with or without its commit: the engine keeps its state and
\* finds out later.
LEMMA StoreRaisesHolds ==
  ASSUME NEW e \in Engine PROVE LedgerInv /\ StoreRaises(e) => LedgerInv'
<1> SUFFICES ASSUME LedgerInv, StoreRaises(e) PROVE LedgerInv'
  OBVIOUS
<1> DEFINE v == engine[e].checked
           s == engine[e].state
           row == [engine[e] EXCEPT !.checked = None]
<1>1. /\ LedgerTypeOK /\ v # None /\ engine' = [engine EXCEPT ![e] = row]
      /\ snapshots' = snapshots /\ audited' = audited /\ answered' = answered
  BY DEF LedgerInv, StoreRaises
<1>2. /\ engine[e] \in EngineType /\ v \in Event /\ s \in Seq(Event)
      /\ answered \subseteq Event \X Nat /\ Accepts(s, v)
  BY <1>1 DEF LedgerTypeOK, EngineType, LedgerInv, CheckedAccepted
<1>3. row \in EngineType /\ row.checked = None /\ row.state = s
  BY <1>2 DEF EngineType
<1> HIDE DEF row
<1>4. faults' \in 0 .. MaxFaults
  BY <1>1, LedgerAssumption DEF StoreRaises, Fault, LedgerTypeOK
<1>5. CASE log' = log
  BY <1>1, <1>2, <1>3, <1>4, <1>5, LedgerUntouched
<1>6. CASE log' # log
  <2>1. ~Stored(v) /\ Len(log) = Len(s) /\ Len(log) < MaxLog /\ log' = Append(log, v)
    BY <1>6 DEF StoreRaises, Insertable
  <2> QED
    BY <1>1, <1>2, <1>3, <1>4, <2>1, LedgerGrows
<1> QED
  BY <1>5, <1>6

\* A batch is stored only at the exact head; when its outcome is unknown the engine
\* is marked, whether it was stored or not.
LEMMA CommitHolds ==
  ASSUME NEW e \in Engine, NEW v \in Event
  PROVE  LedgerInv /\ Commit(e, v) => LedgerInv'
<1> SUFFICES ASSUME LedgerInv, Commit(e, v) PROVE LedgerInv'
  OBVIOUS
<1> DEFINE s == engine[e].state
<1>1. LedgerTypeOK /\ snapshots' = snapshots /\ audited' = audited
  BY DEF LedgerInv, Commit
<1>2. /\ engine[e] \in EngineType /\ s \in Seq(Event) /\ Append(s, v) \in Seq(Event)
      /\ answered \subseteq Event \X Nat /\ faults \in 0 .. MaxFaults
      /\ log \in Seq(Event)
  BY <1>1 DEF LedgerTypeOK, EngineType
<1>3. ASSUME Diverge(e)
      PROVE  \E row \in EngineType : /\ engine' = [engine EXCEPT ![e] = row]
                                     /\ row.checked = None /\ row.state = s
  BY <1>1, <1>2, <1>3, RowFacts
<1>4. CASE Len(log) # Len(s)
  <2>1. Diverge(e) /\ log' = log /\ answered' = answered /\ faults' = faults
    BY <1>4 DEF Commit
  <2>2. PICK row \in EngineType : /\ engine' = [engine EXCEPT ![e] = row]
                                  /\ row.checked = None /\ row.state = s
    BY <1>3, <2>1
  <2> QED
    BY <1>1, <1>2, <2>1, <2>2, LedgerUntouched
<1>5. CASE Len(log) = Len(s)
  <2>1. ~Stored(v) /\ Accepts(s, v) /\ Len(log) < MaxLog
    BY <1>5 DEF Commit
  <2>2. CASE /\ log' = Append(log, v) /\ Publish(e, Append(s, v))
             /\ answered' = answered \cup {<<v, Len(s) + 1>>} /\ faults' = faults
    <3>1. PICK row \in EngineType : /\ engine' = [engine EXCEPT ![e] = row]
                                    /\ row.checked = None /\ row.state = Append(s, v)
      BY <1>1, <1>2, <2>2, RowFacts
    <3> QED
      BY <1>1, <1>2, <1>5, <2>1, <2>2, <3>1, LedgerGrows
  <2>3. CASE Fault /\ log' \in {log, Append(log, v)} /\ Diverge(e) /\ answered' = answered
    <3>1. PICK row \in EngineType : /\ engine' = [engine EXCEPT ![e] = row]
                                    /\ row.checked = None /\ row.state = s
      BY <1>3, <2>3
    <3>2. faults' \in 0 .. MaxFaults
      BY <1>2, <2>3, LedgerAssumption DEF Fault
    <3>3. CASE log' = log
      BY <1>1, <1>2, <2>3, <3>1, <3>2, <3>3, LedgerUntouched
    <3>4. CASE log' = Append(log, v)
      BY <1>1, <1>2, <1>5, <2>1, <2>3, <3>1, <3>2, <3>4, LedgerGrows
    <3> QED
      BY <2>3, <3>3, <3>4
  <2> QED
    BY <1>5, <2>2, <2>3 DEF Commit
<1> QED
  BY <1>4, <1>5

\* A snapshot is taken only of the exact head.
LEMMA CheckpointHolds ==
  ASSUME NEW e \in Engine PROVE LedgerInv /\ Checkpoint(e) => LedgerInv'
<1> SUFFICES ASSUME LedgerInv, Checkpoint(e) PROVE LedgerInv'
  OBVIOUS
<1> DEFINE s == engine[e].state
<1>1. LedgerTypeOK /\ log' = log /\ audited' = audited /\ answered' = answered
  BY DEF LedgerInv, Checkpoint
<1>2. /\ engine[e] \in EngineType /\ s \in Seq(Event)
      /\ answered \subseteq Event \X Nat /\ faults \in 0 .. MaxFaults
  BY <1>1 DEF LedgerTypeOK, EngineType
<1>3. CASE /\ Len(log) = Len(s) /\ snapshots' = snapshots \cup {s}
           /\ engine' = engine /\ faults' = faults
  BY <1>1, <1>2, <1>3, LedgerUntouched
<1>4. CASE Diverge(e) /\ snapshots' = snapshots /\ faults' = faults
  <2>1. PICK row \in EngineType : /\ engine' = [engine EXCEPT ![e] = row]
                                  /\ row.checked = None /\ row.state = s
    BY <1>1, <1>2, <1>4, RowFacts
  <2> QED
    BY <1>1, <1>2, <1>4, <2>1, LedgerUntouched
<1>5. CASE /\ Fault /\ engine' = engine
           /\ \/ snapshots' = snapshots
              \/ Len(log) = Len(s) /\ snapshots' = snapshots \cup {s}
  <2>1. faults' \in 0 .. MaxFaults
    BY <1>2, <1>5, LedgerAssumption DEF Fault
  <2> QED
    BY <1>1, <1>2, <1>5, <2>1, LedgerUntouched
<1> QED
  BY <1>3, <1>4, <1>5 DEF Checkpoint

\* Every step preserves the invariant.
LEMMA StepHolds == LedgerInv /\ [LedgerNext]_ledgerVars => LedgerInv'
<1> SUFFICES ASSUME LedgerInv, [LedgerNext]_ledgerVars PROVE LedgerInv'
  OBVIOUS
<1>1. CASE Restart
  BY <1>1, RestartHolds
<1>2. ASSUME NEW e \in Engine, Open(e) \/ Store(e) \/ StoreRaises(e) \/ Checkpoint(e)
      PROVE  LedgerInv'
  BY <1>2, OpenHolds, StoreHolds, StoreRaisesHolds, CheckpointHolds
<1>3. ASSUME NEW e \in Engine, NEW v \in Event, Check(e, v) \/ Commit(e, v)
      PROVE  LedgerInv'
  BY <1>3, CheckHolds, CommitHolds
<1>4. CASE UNCHANGED ledgerVars
  BY <1>4 DEF ledgerVars, LedgerInv, LedgerTypeOK, SoundLog, Replayable, StoredOnce,
     ViewsArePrefixes, EnginesFollowLedger, CheckedAccepted, AnswersHold
<1> QED
  BY <1>1, <1>2, <1>3, <1>4 DEF LedgerNext

-----------------------------------------------------------------------------
(* Theorems *)

\* The invariant, from which the others follow: the ledger is sound and whatever
\* else holds events holds a prefix of it.
THEOREM LedgerInvariant == LedgerSpec => []LedgerInv
BY InitHolds, StepHolds, PTL DEF LedgerSpec

\* The audit at startup accepts whatever any engine wrote (store.py, the audit of
\* initialize; engine.py, append and commit).
THEOREM LedgerAlwaysReopens == LedgerSpec => []AlwaysReopens
<1>1. LedgerInv => AlwaysReopens
  BY DEF LedgerInv, SoundLog, ViewsArePrefixes, AlwaysReopens, Auditable
<1> QED
  BY <1>1, LedgerInvariant, PTL

\* No engine shows a state that is not stored (engine.py, append and commit).
THEOREM EnginesAlwaysFollow == LedgerSpec => []EnginesFollowLedger
<1>1. LedgerInv => EnginesFollowLedger
  BY DEF LedgerInv, ViewsArePrefixes
<1> QED
  BY <1>1, LedgerInvariant, PTL

\* An event is stored under one sequence, however often and through whatever
\* engine it is sent.
THEOREM EventStoredOnce == LedgerSpec => []StoredOnce
<1>1. LedgerInv => StoredOnce
  BY DEF LedgerInv, SoundLog
<1> QED
  BY <1>1, LedgerInvariant, PTL

\* The sequence a caller was given is where its event is.
THEOREM AnswersAlwaysHold == LedgerSpec => []AnswersHold
<1>1. LedgerInv => AnswersHold
  BY DEF LedgerInv
<1> QED
  BY <1>1, LedgerInvariant, PTL

\* An operation leaves every engine alone that is marked, for it runs on an engine
\* that is not.
LEMMA MarkedIsLeftAlone ==
  ASSUME LedgerTypeOK, NEW e \in Engine,
         Open(e) \/ Store(e) \/ StoreRaises(e) \/ Checkpoint(e)
            \/ \E v \in Event : Check(e, v) \/ Commit(e, v),
         NEW f \in Engine, engine[f].open, engine[f].diverged
  PROVE  engine'[f] = engine[f]
<1>1. f # e
  <2>1. CASE Open(e)
    BY <2>1 DEF Open
  <2>2. CASE Store(e) \/ StoreRaises(e)
    BY <2>2 DEF Store, StoreRaises, LedgerTypeOK
  <2>3. CASE Checkpoint(e)
    BY <2>3 DEF Checkpoint
  <2>4. CASE \E v \in Event : Check(e, v) \/ Commit(e, v)
    BY <2>4 DEF Check, Commit
  <2> QED
    BY <2>1, <2>2, <2>3, <2>4
<1>2. engine' = engine \/ \E row : engine' = [engine EXCEPT ![e] = row]
  <2>1. ASSUME Diverge(e) \/ \E s : Publish(e, s)
        PROVE  \E row : engine' = [engine EXCEPT ![e] = row]
    BY <2>1 DEF Diverge, Publish
  <2>2. CASE Open(e)
    BY <2>2 DEF Open
  <2>3. CASE Store(e)
    BY <2>1, <2>3 DEF Store
  <2>4. CASE StoreRaises(e)
    BY <2>4 DEF StoreRaises
  <2>5. CASE Checkpoint(e)
    BY <2>1, <2>5 DEF Checkpoint
  <2>6. ASSUME NEW v \in Event, Check(e, v)
        PROVE  engine' = engine \/ \E row : engine' = [engine EXCEPT ![e] = row]
    BY <2>1, <2>6 DEF Check
  <2>7. ASSUME NEW v \in Event, Commit(e, v)
        PROVE  engine' = engine \/ \E row : engine' = [engine EXCEPT ![e] = row]
    BY <2>1, <2>7 DEF Commit
  <2> QED
    BY <2>2, <2>3, <2>4, <2>5, <2>6, <2>7
<1> QED
  BY <1>1, <1>2 DEF LedgerTypeOK

\* An engine that was found behind the ledger shows nothing newer and stays marked
\* until the process opens the ledger again.
THEOREM DivergedStaysIdle == LedgerSpec => DivergedIsIdle
<1> DEFINE Idle == \A e \in Engine :
                     engine[e].open /\ engine[e].diverged /\ engine'[e].open
                        => engine'[e].diverged /\ engine'[e].state = engine[e].state
<1>1. LedgerInv /\ [LedgerNext]_ledgerVars => [Idle]_ledgerVars
  <2> SUFFICES ASSUME LedgerInv, LedgerNext, NEW f \in Engine,
                      engine[f].open, engine[f].diverged, engine'[f].open
               PROVE  engine'[f].diverged /\ engine'[f].state = engine[f].state
    OBVIOUS
  <2>1. CASE Restart
    BY <2>1 DEF Restart, Closed
  <2>2. ASSUME ~Restart PROVE engine'[f] = engine[f]
    BY <2>2, MarkedIsLeftAlone DEF LedgerNext, LedgerInv
  <2> QED
    BY <2>1, <2>2
<1> QED
  BY <1>1, LedgerInvariant, PTL DEF LedgerSpec, DivergedIsIdle

-----------------------------------------------------------------------------
(* The scheduler uses the ledger *)

\* Every step of the schedulers, their clients and restarts is a step of the
\* ledger, or leaves it alone.
LEMMA PulseIsLedgerStep == [PulseNext]_pulseVars => [LedgerNext]_ledgerVars
<1> SUFFICES ASSUME [PulseNext]_pulseVars PROVE [LedgerNext]_ledgerVars
  OBVIOUS
<1>1. CASE UNCHANGED pulseVars
  BY <1>1 DEF pulseVars
<1>2. CASE PulseRestart
  BY <1>2 DEF PulseRestart, LedgerNext
<1>3. ASSUME NEW e \in Engine, Open(e)
      PROVE  LedgerNext
  BY <1>3 DEF LedgerNext
<1>4. ASSUME NEW e \in Engine, Start(e) \/ Wake(e) \/ Stop(e) \/ Exit(e)
      PROVE  UNCHANGED ledgerVars
  BY <1>4 DEF Start, Wake, Stop, Exit
<1>5. ASSUME NEW e \in Engine, AppendCheck(e)
      PROVE  [LedgerNext]_ledgerVars
  <2>1. CASE UNCHANGED ledgerVars
    BY <2>1
  <2>2. CASE ~UNCHANGED ledgerVars
    <3>1. PICK v \in StageEvents(e) : Check(e, v)
      BY <1>5, <2>2 DEF AppendCheck
    <3>2. v \in Event
      BY DEF StageEvents
    <3> QED
      BY <3>1, <3>2 DEF LedgerNext
  <2> QED
    BY <2>1, <2>2
<1>6. ASSUME NEW e \in Engine, AppendStore(e)
      PROVE  LedgerNext
  BY <1>6 DEF AppendStore, LedgerNext
<1>7. ASSUME NEW e \in Engine, Client(e)
      PROVE  LedgerNext
  BY <1>7 DEF Client, LedgerNext
<1> QED
  BY <1>1, <1>2, <1>3, <1>4, <1>5, <1>6, <1>7 DEF PulseNext

\* The scheduler is one of the users of the ledger: what is proved of the ledger
\* holds while it appends (scheduler.py, _step; engine.py, append).
THEOREM SchedulerUsesTheLedger == PulseSpec => LedgerSpec
<1>1. PulseInit => LedgerInit
  BY DEF PulseInit
<1> QED
  BY <1>1, PulseIsLedgerStep, PTL DEF PulseSpec, LedgerSpec

-----------------------------------------------------------------------------
(* What an engine does to its state and to the ledger *)

\* Of the engines only e changes; it stays open.
OnlyEngine(e) ==
    /\ \A f \in Engine : f # e => engine'[f] = engine[f]
    /\ engine'[e].open = engine[e].open

\* Engine e takes v into its state or not, and v is stored after that state or not.
Takes(e, v) ==
    /\ OnlyEngine(e) /\ engine'[e].checked = None
    /\ engine'[e].state \in {engine[e].state, Append(engine[e].state, v)}
    /\ log' = log \/ (log = engine[e].state /\ log' = Append(log, v))

\* Marking an engine leaves its state, publishing replaces it.
LEMMA RowChanges ==
  ASSUME LedgerTypeOK, NEW e \in Engine
  PROVE  /\ Diverge(e) => /\ OnlyEngine(e) /\ engine'[e].checked = None
                          /\ engine'[e].state = engine[e].state
         /\ \A s : Publish(e, s) => /\ OnlyEngine(e) /\ engine'[e].checked = None
                                    /\ engine'[e].state = s
<1>1. engine \in [Engine -> EngineType] /\ engine[e] \in EngineType
  BY DEF LedgerTypeOK
<1>2. ASSUME Diverge(e)
      PROVE  /\ OnlyEngine(e) /\ engine'[e].checked = None
             /\ engine'[e].state = engine[e].state
  BY <1>1, <1>2 DEF Diverge, OnlyEngine, EngineType
<1>3. ASSUME NEW s, Publish(e, s)
      PROVE  OnlyEngine(e) /\ engine'[e].checked = None /\ engine'[e].state = s
  BY <1>1, <1>3 DEF Publish, OnlyEngine, EngineType
<1> QED
  BY <1>2, <1>3

\* The first half of append only locks the event, or not.
LEMMA CheckLocks ==
  ASSUME LedgerInv, NEW e \in Engine, NEW v \in Event, Check(e, v)
  PROVE  /\ OnlyEngine(e) /\ log' = log /\ engine'[e].state = engine[e].state
         /\ engine'[e].checked \in {None, v}
<1>1. /\ LedgerTypeOK /\ log' = log /\ engine[e].checked = None
      /\ engine \in [Engine -> EngineType] /\ engine[e] \in EngineType
  BY DEF LedgerInv, Check, LedgerTypeOK
<1>2. CASE Diverge(e)
  BY <1>1, <1>2, RowChanges
<1>3. CASE engine' = engine
  BY <1>1, <1>3 DEF OnlyEngine
<1>4. CASE engine' = [engine EXCEPT ![e].checked = v]
  BY <1>1, <1>4 DEF OnlyEngine, EngineType
<1> QED
  BY <1>2, <1>3, <1>4 DEF Check

\* The second half takes the event into state and ledger, or not.
LEMMA StoreTakes ==
  ASSUME LedgerInv, NEW e \in Engine, Store(e) \/ StoreRaises(e)
  PROVE  engine[e].checked \in Event /\ Takes(e, engine[e].checked)
<1> DEFINE v == engine[e].checked
           s == engine[e].state
<1>1. /\ LedgerTypeOK /\ v \in Event /\ engine \in [Engine -> EngineType]
      /\ engine[e] \in EngineType
  BY DEF LedgerInv, LedgerTypeOK, EngineType, Store, StoreRaises
<1>2. Insertable(e) => log = s
  BY AtHead DEF Insertable
<1>3. ASSUME engine' = [engine EXCEPT ![e].checked = None]
      PROVE  OnlyEngine(e) /\ engine'[e].checked = None /\ engine'[e].state = s
  BY <1>1, <1>3 DEF OnlyEngine, EngineType
<1>4. CASE Store(e)
  <2>1. CASE Insertable(e) \/ Adoptable(e)
    <3>1. Publish(e, Append(s, v)) /\ log' = IF Insertable(e) THEN Append(log, v) ELSE log
      BY <1>4, <2>1 DEF Store
    <3> QED
      BY <1>1, <1>2, <3>1, RowChanges DEF Takes
  <2>2. CASE ~(Insertable(e) \/ Adoptable(e))
    <3>1. log' = log /\ (Diverge(e) \/ engine' = [engine EXCEPT ![e].checked = None])
      BY <1>4, <2>2 DEF Store
    <3> QED
      BY <1>1, <1>3, <3>1, RowChanges DEF Takes
  <2> QED
    BY <2>1, <2>2
<1>5. CASE StoreRaises(e)
  <2>1. /\ engine' = [engine EXCEPT ![e].checked = None]
        /\ log' = log \/ (Insertable(e) /\ log' = Append(log, v))
    BY <1>5 DEF StoreRaises
  <2> QED
    BY <1>1, <1>2, <1>3, <2>1 DEF Takes
<1> QED
  BY <1>1, <1>4, <1>5

\* So does a batch.
LEMMA CommitTakes ==
  ASSUME LedgerInv, NEW e \in Engine, NEW v \in Event, Commit(e, v)
  PROVE  Takes(e, v)
<1>1. LedgerTypeOK
  BY DEF LedgerInv
<1>2. CASE Len(log) # Len(engine[e].state)
  <2>1. Diverge(e) /\ log' = log
    BY <1>2 DEF Commit
  <2> QED
    BY <1>1, <2>1, RowChanges DEF Takes
<1>3. CASE Len(log) = Len(engine[e].state)
  <2>1. log = engine[e].state
    BY <1>3, AtHead
  <2>2. CASE log' = Append(log, v) /\ Publish(e, Append(engine[e].state, v))
    BY <1>1, <2>1, <2>2, RowChanges DEF Takes
  <2>3. CASE log' \in {log, Append(log, v)} /\ Diverge(e)
    BY <1>1, <2>1, <2>3, RowChanges DEF Takes
  <2> QED
    BY <1>3, <2>2, <2>3 DEF Commit
<1> QED
  BY <1>2, <1>3

-----------------------------------------------------------------------------
(* The invariant of the schedulers *)

\* The events of a kind in a sequence.
OfKind(s, k) == {i \in 1 .. Len(s) : s[i].kind = k}

\* As many ticks as broadcasts, and no reflection of a cycle that did not come.
Balanced(s) ==
    /\ Cardinality(OfKind(s, "broadcast")) <= Cardinality(OfKind(s, "tick"))
    /\ \A i \in OfKind(s, "reflected") : s[i].data <= Cycle(s)

\* PulseOrder of any sequence.
Ordered(s) ==
    \A i \in 1 .. Len(s) :
        LET before(k) == {j \in 1 .. i - 1 : s[j].kind = k}
        IN /\ s[i].kind = "broadcast" =>
                  Cardinality(before("broadcast")) < Cardinality(before("tick"))
           /\ s[i].kind = "reflected" =>
                  /\ s[i].data = Cardinality(before("broadcast"))
                  /\ \A j \in before("reflected") : s[j].data # s[i].data

\* The engine row x and the scheduler row c agree: the event under the lock is that
\* of the stage, ...
StageChecked(x, c) ==
    x.checked # None =>
        /\ c.pc \in Stage /\ x.checked.kind = c.pc
        /\ c.pc = "reflected" => x.checked.data = Cycle(x.state)

\* ... the state lacks the event of the stage, ...
StageDue(x, c) ==
    /\ c.pc = "broadcast" =>
           Cardinality(OfKind(x.state, "broadcast")) < Cardinality(OfKind(x.state, "tick"))
    /\ c.pc = "reflected" =>
           \A i \in OfKind(x.state, "reflected") : x.state[i].data # Cycle(x.state)

\* ... and a step that began healthy is healthy until it fails.
StageHealth(x, c) ==
    /\ c.pc \in {"tick", "broadcast", "reflected"} /\ ~c.was =>
           ~c.volatile /\ ~DegradedState(x.state)
    /\ c.pc = "waiting" =>
           /\ (c.volatile \/ DegradedState(x.state)) <=> c.failed
           /\ c.failed /\ c.persisted => DegradedState(x.state)

PulseRow(x, c) ==
    /\ c.pc # "down" => x.open
    /\ Balanced(x.state)
    /\ StageChecked(x, c)
    /\ StageDue(x, c)
    /\ StageHealth(x, c)

PulseInv ==
    /\ LedgerInv
    /\ sched \in [Engine -> SchedType]
    /\ Balanced(log) /\ Ordered(log)
    /\ \A e \in Engine : PulseRow(engine[e], sched[e])

-----------------------------------------------------------------------------
(* Counting the events of a kind *)

\* The events of a kind are finitely many; broadcasts count the cycles.
LEMMA Counted ==
  ASSUME NEW s \in Seq(Event), NEW k
  PROVE  /\ IsFiniteSet(OfKind(s, k)) /\ Cardinality(OfKind(s, k)) \in Nat
         /\ OfKind(s, k) \subseteq 1 .. Len(s)
         /\ Cycle(s) = Cardinality(OfKind(s, "broadcast"))
<1>1. IsFiniteSet(1 .. Len(s)) /\ OfKind(s, k) \subseteq 1 .. Len(s)
  BY FS_Interval DEF OfKind
<1>2. IsFiniteSet(OfKind(s, k))
  BY <1>1, FS_Subset
<1> QED
  BY <1>1, <1>2, FS_CardinalityType DEF Cycle, OfKind

\* One more event is one more of its kind and none more of the others.
LEMMA OneMore ==
  ASSUME NEW s \in Seq(Event), NEW v \in Event, NEW k
  PROVE  /\ OfKind(Append(s, v), k) =
               OfKind(s, k) \cup (IF v.kind = k THEN {Len(s) + 1} ELSE {})
         /\ Cardinality(OfKind(Append(s, v), k)) =
               Cardinality(OfKind(s, k)) + (IF v.kind = k THEN 1 ELSE 0)
<1>1. /\ Append(s, v) \in Seq(Event) /\ Len(Append(s, v)) = Len(s) + 1 /\ Len(s) \in Nat
      /\ Append(s, v)[Len(s) + 1] = v
      /\ \A i \in 1 .. Len(s) : Append(s, v)[i] = s[i]
  OBVIOUS
<1>2. OfKind(Append(s, v), k) = OfKind(s, k) \cup (IF v.kind = k THEN {Len(s) + 1} ELSE {})
  BY <1>1 DEF OfKind
<1>3. Len(s) + 1 \notin OfKind(s, k)
  BY <1>1 DEF OfKind
<1>4. IsFiniteSet(OfKind(s, k)) /\ Cardinality(OfKind(s, k)) \in Nat
  BY Counted
<1>5. CASE v.kind = k
  BY <1>2, <1>3, <1>4, <1>5, FS_AddElement
<1>6. CASE v.kind # k
  BY <1>2, <1>4, <1>6
<1> QED
  BY <1>2, <1>5, <1>6

\* The events of a kind before a row are those of the rows before it, also when
\* the sequence grows.
LEMMA StaysOrdered ==
  ASSUME NEW s \in Seq(Event), NEW v \in Event, Ordered(s),
         v.kind = "broadcast" =>
            Cardinality(OfKind(s, "broadcast")) < Cardinality(OfKind(s, "tick")),
         v.kind = "reflected" =>
            /\ v.data = Cycle(s)
            /\ \A i \in OfKind(s, "reflected") : s[i].data # Cycle(s)
  PROVE  Ordered(Append(s, v))
<1> DEFINE t == Append(s, v)
<1>1. /\ Len(t) = Len(s) + 1 /\ Len(s) \in Nat /\ t[Len(s) + 1] = v
      /\ \A i \in 1 .. Len(s) : t[i] = s[i]
  OBVIOUS
<1> HIDE DEF t
<1>2. ASSUME NEW i \in 1 .. Len(s), NEW k
      PROVE  {j \in 1 .. i - 1 : t[j].kind = k} = {j \in 1 .. i - 1 : s[j].kind = k}
  BY <1>1
<1>3. ASSUME NEW k
      PROVE  {j \in 1 .. Len(s) : t[j].kind = k} = OfKind(s, k)
  BY <1>1 DEF OfKind
<1>4. \A i \in OfKind(s, "reflected") : i \in 1 .. Len(s) /\ t[i] = s[i]
  BY <1>1 DEF OfKind
<1>5. Cycle(s) = Cardinality(OfKind(s, "broadcast"))
  BY Counted
<1>6. Ordered(t)
  <2> SUFFICES ASSUME NEW i \in 1 .. Len(s) + 1
               PROVE  /\ t[i].kind = "broadcast" =>
                           Cardinality({j \in 1 .. i - 1 : t[j].kind = "broadcast"})
                              < Cardinality({j \in 1 .. i - 1 : t[j].kind = "tick"})
                      /\ t[i].kind = "reflected" =>
                           /\ t[i].data = Cardinality({j \in 1 .. i - 1 : t[j].kind = "broadcast"})
                           /\ \A j \in {h \in 1 .. i - 1 : t[h].kind = "reflected"} :
                                 t[j].data # t[i].data
    BY <1>1 DEF Ordered
  <2>1. CASE i = Len(s) + 1
    <3>1. i - 1 = Len(s) /\ t[i] = v
      BY <1>1, <2>1
    <3>2. \A j \in {h \in 1 .. Len(s) : t[h].kind = "reflected"} :
             j \in OfKind(s, "reflected") /\ t[j].data = s[j].data
      BY <1>3, <1>4
    <3> QED
      BY <1>3, <1>5, <3>1, <3>2
  <2>2. CASE i \in 1 .. Len(s)
    <3>1. /\ s[i].kind = "broadcast" =>
              Cardinality({j \in 1 .. i - 1 : s[j].kind = "broadcast"})
                 < Cardinality({j \in 1 .. i - 1 : s[j].kind = "tick"})
          /\ s[i].kind = "reflected" =>
              /\ s[i].data = Cardinality({j \in 1 .. i - 1 : s[j].kind = "broadcast"})
              /\ \A j \in {h \in 1 .. i - 1 : s[h].kind = "reflected"} :
                    s[j].data # s[i].data
      BY <2>2 DEF Ordered
    <3>2. \A j \in {h \in 1 .. i - 1 : s[h].kind = "reflected"} : t[j] = s[j]
      BY <1>1, <2>2
    <3>3. t[i] = s[i]
      BY <1>1, <2>2
    <3> QED
      BY <1>2, <2>2, <3>1, <3>2, <3>3
  <2> QED
    BY <1>1, <2>1, <2>2
<1> QED
  BY <1>6 DEF t

\* A failure degrades, a recovery heals, and nothing else changes the health.
LEMMA HealthAfter ==
  ASSUME NEW s \in Seq(Event), NEW v \in Event
  PROVE  DegradedState(Append(s, v)) <=>
            v.kind = "failure" \/ (DegradedState(s) /\ v.kind # "recovered")
<1> DEFINE t == Append(s, v)
<1>1. /\ Len(t) = Len(s) + 1 /\ Len(s) \in Nat /\ t[Len(s) + 1] = v
      /\ \A i \in 1 .. Len(s) : t[i] = s[i]
  OBVIOUS
<1> HIDE DEF t
<1>2. ASSUME v.kind = "failure" PROVE DegradedState(t)
  <2>1. Len(s) + 1 \in 1 .. Len(t) /\ t[Len(s) + 1].kind = "failure"
    BY <1>1, <1>2
  <2>2. \A j \in (Len(s) + 1) + 1 .. Len(t) : t[j].kind # "recovered"
    BY <1>1
  <2> QED
    BY <2>1, <2>2 DEF DegradedState
<1>3. ASSUME DegradedState(s), v.kind # "recovered" PROVE DegradedState(t)
  <2>1. PICK i \in 1 .. Len(s) : /\ s[i].kind = "failure"
                                 /\ \A j \in i + 1 .. Len(s) : s[j].kind # "recovered"
    BY <1>3 DEF DegradedState
  <2>2. i \in 1 .. Len(t) /\ t[i].kind = "failure"
    BY <1>1, <2>1
  <2>3. ASSUME NEW j \in i + 1 .. Len(t) PROVE t[j].kind # "recovered"
    <3>1. j = Len(s) + 1 \/ (j \in i + 1 .. Len(s) /\ j \in 1 .. Len(s))
      BY <1>1
    <3> QED
      BY <1>1, <1>3, <2>1, <3>1
  <2> QED
    BY <2>2, <2>3 DEF DegradedState
<1>4. ASSUME DegradedState(t), v.kind # "failure"
      PROVE  DegradedState(s) /\ v.kind # "recovered"
  <2>1. PICK i \in 1 .. Len(t) : /\ t[i].kind = "failure"
                                 /\ \A j \in i + 1 .. Len(t) : t[j].kind # "recovered"
    BY <1>4 DEF DegradedState
  <2>2. i \in 1 .. Len(s) /\ s[i].kind = "failure"
    BY <1>1, <1>4, <2>1
  <2>3. \A j \in i + 1 .. Len(s) : j \in i + 1 .. Len(t) /\ t[j] = s[j]
    BY <1>1, <2>2
  <2>4. Len(s) + 1 \in i + 1 .. Len(t)
    BY <1>1, <2>2
  <2> QED
    BY <1>1, <2>1, <2>2, <2>3, <2>4 DEF DegradedState
<1> QED
  BY <1>2, <1>3, <1>4 DEF t

-----------------------------------------------------------------------------
(* The steps of the schedulers *)

\* A sequence stays balanced if a broadcast follows a tick of its own and a
\* reflection is of the current cycle.
LEMMA StaysBalanced ==
  ASSUME NEW s \in Seq(Event), NEW v \in Event, Balanced(s),
         v.kind = "broadcast" =>
            Cardinality(OfKind(s, "broadcast")) < Cardinality(OfKind(s, "tick")),
         v.kind = "reflected" => v.data = Cycle(s)
  PROVE  Balanced(Append(s, v))
<1> DEFINE t == Append(s, v)
<1>1. /\ t \in Seq(Event) /\ Len(s) \in Nat /\ t[Len(s) + 1] = v
      /\ \A i \in 1 .. Len(s) : t[i] = s[i]
  OBVIOUS
<1>2. /\ Cardinality(OfKind(t, "broadcast")) =
            Cardinality(OfKind(s, "broadcast")) + (IF v.kind = "broadcast" THEN 1 ELSE 0)
      /\ Cardinality(OfKind(t, "tick")) =
            Cardinality(OfKind(s, "tick")) + (IF v.kind = "tick" THEN 1 ELSE 0)
      /\ OfKind(t, "reflected") =
            OfKind(s, "reflected") \cup (IF v.kind = "reflected" THEN {Len(s) + 1} ELSE {})
  BY OneMore
<1>3. /\ Cardinality(OfKind(s, "broadcast")) \in Nat /\ Cardinality(OfKind(s, "tick")) \in Nat
      /\ Cycle(s) = Cardinality(OfKind(s, "broadcast"))
      /\ OfKind(s, "reflected") \subseteq 1 .. Len(s)
  BY Counted
<1> HIDE DEF t
<1>4. Cycle(t) = Cardinality(OfKind(t, "broadcast"))
  BY <1>1, Counted
<1>5. Cardinality(OfKind(t, "broadcast")) <= Cardinality(OfKind(t, "tick"))
  <2>1. CASE v.kind = "broadcast"
    BY <1>2, <1>3, <2>1
  <2>2. CASE v.kind # "broadcast"
    BY <1>2, <1>3, <2>2 DEF Balanced
  <2> QED
    BY <2>1, <2>2
<1>6. ASSUME NEW i \in OfKind(t, "reflected") PROVE t[i].data <= Cycle(t)
  <2>1. Cycle(s) <= Cycle(t) /\ Cycle(s) \in Nat /\ Cycle(t) \in Nat
    BY <1>2, <1>3, <1>4
  <2>2. CASE i \in OfKind(s, "reflected")
    <3>1. t[i] = s[i] /\ s[i] \in Event
      BY <1>1, <1>3, <2>2
    <3>2. s[i].data \in Nat /\ s[i].data <= Cycle(s)
      BY <2>2, <3>1, LedgerAssumption DEF Balanced, Event
    <3> QED
      BY <2>1, <3>1, <3>2
  <2>3. CASE i \notin OfKind(s, "reflected")
    <3>1. v.kind = "reflected" /\ i = Len(s) + 1
      BY <1>2, <2>3
    <3> QED
      BY <1>1, <2>1, <3>1
  <2> QED
    BY <2>2, <2>3
<1>7. Balanced(t)
  BY <1>5, <1>6 DEF Balanced
<1> QED
  BY <1>7 DEF t

\* What an engine takes keeps its state balanced and the ledger balanced and in
\* order, if it is due in that state.
LEMMA LedgerStaysOrdered ==
  ASSUME PulseInv, NEW e \in Engine, NEW v \in Event, Takes(e, v),
         v.kind = "broadcast" =>
            Cardinality(OfKind(engine[e].state, "broadcast"))
               < Cardinality(OfKind(engine[e].state, "tick")),
         v.kind = "reflected" =>
            /\ v.data = Cycle(engine[e].state)
            /\ \A i \in OfKind(engine[e].state, "reflected") :
                  engine[e].state[i].data # Cycle(engine[e].state)
  PROVE  Balanced(log') /\ Ordered(log') /\ Balanced(engine'[e].state)
<1>1. /\ engine[e].state \in Seq(Event) /\ Balanced(engine[e].state)
      /\ Balanced(log) /\ Ordered(log)
  BY DEF PulseInv, PulseRow, LedgerInv, LedgerTypeOK, EngineType
<1>2. Balanced(Append(engine[e].state, v))
  BY <1>1, StaysBalanced
<1>3. CASE log' = log
  BY <1>1, <1>2, <1>3 DEF Takes
<1>4. CASE log = engine[e].state /\ log' = Append(log, v)
  <2>1. Ordered(Append(engine[e].state, v))
    BY <1>1, <1>4, StaysOrdered
  <2> QED
    BY <1>1, <1>2, <1>4, <2>1 DEF Takes
<1> QED
  BY <1>3, <1>4 DEF Takes

\* One engine and its scheduler change.
LEMMA OneRowChanges ==
  ASSUME PulseInv, LedgerInv', NEW e \in Engine, NEW row \in SchedType,
         \A f \in Engine : f # e => engine'[f] = engine[f],
         sched' = [sched EXCEPT ![e] = row],
         Balanced(log'), Ordered(log'), PulseRow(engine'[e], row)
  PROVE  PulseInv'
<1>1. /\ sched' \in [Engine -> SchedType] /\ sched'[e] = row
      /\ \A f \in Engine : f # e => sched'[f] = sched[f]
  BY DEF PulseInv
<1>2. \A f \in Engine : PulseRow(engine'[f], sched'[f])
  BY <1>1 DEF PulseInv
<1> QED
  BY <1>1, <1>2 DEF PulseInv

\* The types of one engine and its scheduler.
LEMMA RowTypes ==
  ASSUME PulseInv, NEW e \in Engine
  PROVE  /\ engine[e] \in EngineType /\ engine[e].state \in Seq(Event)
         /\ sched[e] \in SchedType /\ sched \in [Engine -> SchedType]
         /\ PulseRow(engine[e], sched[e])
         /\ Balanced(log) /\ Ordered(log) /\ log \in Seq(Event)
BY DEF PulseInv, LedgerInv, LedgerTypeOK, EngineType

\* After an append that raised, whatever became of the state short of the event of
\* the stage.
LEMMA RaisedHolds ==
  ASSUME PulseInv, LedgerInv', NEW e \in Engine, sched[e].pc \in Stage, Raised(e),
         OnlyEngine(e), engine'[e].checked = None, engine'[e].state = engine[e].state,
         Balanced(log'), Ordered(log')
  PROVE  PulseInv'
<1>1. /\ sched[e] \in SchedType /\ sched \in [Engine -> SchedType]
      /\ PulseRow(engine[e], sched[e])
  BY RowTypes
<1>2. sched[e].pc # "down"
  BY DEF Stage
<1>3. engine'[e].open
  BY <1>1, <1>2 DEF OnlyEngine, PulseRow
<1> DEFINE row == IF sched[e].pc # "failure"
                     THEN [sched[e] EXCEPT !.pc = "failure", !.volatile = TRUE]
                  ELSE [sched[e] EXCEPT !.pc = "waiting", !.volatile = TRUE,
                                        !.persisted = FALSE, !.failed = TRUE]
<1>4. sched' = [sched EXCEPT ![e] = row]
  BY <1>1 DEF Raised
<1>5. row \in SchedType /\ row.pc \in {"failure", "waiting"}
  BY <1>1 DEF SchedType, Stage
<1>6. row.pc = "waiting" => row.volatile /\ row.failed /\ ~row.persisted
  BY <1>1 DEF SchedType
<1> HIDE DEF row
<1>7. StageHealth(engine'[e], row)
  BY <1>5, <1>6 DEF StageHealth
<1>8. PulseRow(engine'[e], row)
  BY <1>1, <1>3, <1>5, <1>7 DEF PulseRow, StageChecked, StageDue
<1> QED
  BY <1>4, <1>5, <1>8, OneRowChanges DEF OnlyEngine

\* After an append that returned the next event is due.
LEMMA ReturnedHolds ==
  ASSUME PulseInv, LedgerInv', NEW e \in Engine, sched[e].pc \in Stage, Returned(e),
         NEW v \in Event, v.kind = sched[e].pc,
         OnlyEngine(e), engine'[e].checked = None,
         engine'[e].state = Append(engine[e].state, v),
         Balanced(log'), Ordered(log'), Balanced(engine'[e].state)
  PROVE  PulseInv'
<1> DEFINE s == engine[e].state
           c == sched[e]
           t == Append(s, v)
<1>1. /\ c \in SchedType /\ sched \in [Engine -> SchedType]
      /\ PulseRow(engine[e], c) /\ s \in Seq(Event)
  BY RowTypes
<1>2. engine'[e].open
  BY <1>1 DEF OnlyEngine, PulseRow, Stage
<1>3. DegradedState(t) <=> v.kind = "failure" \/ (DegradedState(s) /\ v.kind # "recovered")
  BY <1>1, HealthAfter
<1>4. CASE NextStage(e) # "waiting"
  <2> DEFINE row == [c EXCEPT !.pc = NextStage(e)]
  <2>1. /\ c.pc = "tick" => NextStage(e) = "broadcast"
        /\ c.pc = "broadcast" => NextStage(e) = "reflected"
        /\ c.pc \notin {"tick", "broadcast"} =>
              c.pc = "reflected" /\ NextStage(e) = "recovered"
    BY <1>4 DEF NextStage
  <2>2. sched' = [sched EXCEPT ![e] = row]
    BY <1>1, <1>4 DEF Returned
  <2>3. NextStage(e) \in Stage
    BY <2>1 DEF Stage
  <2>4. row \in SchedType /\ row.pc = NextStage(e) /\ row.was = c.was /\ row.volatile = c.volatile
    BY <1>1, <2>3 DEF SchedType
  <2> HIDE DEF row
  <2>5. ASSUME row.pc = "broadcast"
        PROVE  Cardinality(OfKind(t, "broadcast")) < Cardinality(OfKind(t, "tick"))
    <3>1. v.kind = "tick"
      BY <2>1, <2>4, <2>5
    <3>2. /\ Cardinality(OfKind(t, "broadcast")) = Cardinality(OfKind(s, "broadcast")) + 0
          /\ Cardinality(OfKind(t, "tick")) = Cardinality(OfKind(s, "tick")) + 1
      BY <1>1, <3>1, OneMore
    <3>3. /\ Cardinality(OfKind(s, "broadcast")) \in Nat
          /\ Cardinality(OfKind(s, "tick")) \in Nat
      BY <1>1, Counted
    <3>4. Cardinality(OfKind(s, "broadcast")) <= Cardinality(OfKind(s, "tick"))
      BY <1>1 DEF PulseRow, Balanced
    <3> QED
      BY <3>2, <3>3, <3>4
  <2>6. ASSUME row.pc = "reflected", NEW i \in OfKind(t, "reflected")
        PROVE  t[i].data # Cycle(t)
    <3>1. v.kind = "broadcast"
      BY <2>1, <2>4, <2>6
    <3>2. Cardinality(OfKind(t, "broadcast")) = Cardinality(OfKind(s, "broadcast")) + 1
      BY <1>1, <3>1, OneMore
    <3> DEFINE more(k) == IF v.kind = k THEN {Len(s) + 1} ELSE {}
    <3>3. OfKind(t, "reflected") = OfKind(s, "reflected") \cup more("reflected")
      BY <1>1, OneMore
    <3>4. more("reflected") = {}
      BY <3>1
    <3>5. /\ Cardinality(OfKind(s, "broadcast")) \in Nat /\ t \in Seq(Event)
          /\ OfKind(s, "reflected") \subseteq 1 .. Len(s)
      BY <1>1, Counted
    <3>6. /\ Cycle(s) = Cardinality(OfKind(s, "broadcast"))
          /\ Cycle(t) = Cardinality(OfKind(t, "broadcast"))
      BY <1>1, <3>5, Counted
    <3>7. i \in OfKind(s, "reflected") /\ i \in 1 .. Len(s)
      BY <2>6, <3>3, <3>4, <3>5
    <3>8. t[i] = s[i] /\ s[i] \in Event
      BY <1>1, <3>7
    <3>9. s[i].data \in Nat /\ s[i].data <= Cycle(s)
      BY <1>1, <3>7, <3>8, LedgerAssumption DEF PulseRow, Balanced, Event
    <3> QED
      BY <3>2, <3>5, <3>6, <3>8, <3>9
  <2>7. StageDue(engine'[e], row)
    BY <2>5, <2>6 DEF StageDue
  <2>8. StageHealth(engine'[e], row)
    <3>1. row.pc # "waiting"
      BY <1>4, <2>4
    <3>2. ASSUME row.pc \in {"tick", "broadcast", "reflected"}, ~row.was
          PROVE  ~row.volatile /\ ~DegradedState(t)
      <4>1. c.pc \in {"tick", "broadcast"}
        BY <2>1, <2>4, <3>2
      <4>2. ~c.volatile /\ ~DegradedState(s)
        BY <1>1, <2>4, <3>2, <4>1 DEF PulseRow, StageHealth
      <4>3. ~DegradedState(t)
        BY <1>3, <4>1, <4>2
      <4> QED
        BY <2>4, <4>2, <4>3
    <3> QED
      BY <3>1, <3>2 DEF StageHealth
  <2>9. PulseRow(engine'[e], row)
    BY <1>2, <2>7, <2>8 DEF PulseRow, StageChecked
  <2> QED
    BY <2>2, <2>4, <2>9, OneRowChanges DEF OnlyEngine
<1>5. CASE NextStage(e) = "waiting"
  <2> DEFINE row == [c EXCEPT !.pc = "waiting", !.volatile = FALSE, !.persisted = TRUE,
                              !.failed = c.pc = "failure"]
  <2>1. c.pc \notin {"tick", "broadcast"} /\ ~(c.pc = "reflected" /\ c.was)
    BY <1>5 DEF NextStage
  <2>2. c.pc \in {"reflected", "recovered", "failure"}
    BY <2>1 DEF Stage
  <2>3. sched' = [sched EXCEPT ![e] = row]
    BY <1>1, <1>5 DEF Returned
  <2>4. /\ row \in SchedType /\ row.pc = "waiting" /\ row.volatile = FALSE
        /\ row.failed = (c.pc = "failure")
    BY <1>1 DEF SchedType
  <2> HIDE DEF row
  <2>5. DegradedState(t) <=> c.pc = "failure"
    <3>1. CASE c.pc = "reflected"
      <4>1. ~DegradedState(s)
        BY <1>1, <2>1, <3>1 DEF PulseRow, StageHealth
      <4> QED
        BY <1>3, <3>1, <4>1
    <3>2. CASE c.pc = "recovered"
      BY <1>3, <3>2
    <3>3. CASE c.pc = "failure"
      BY <1>3, <3>3
    <3> QED
      BY <2>2, <3>1, <3>2, <3>3
  <2>6. StageHealth(engine'[e], row)
    BY <2>4, <2>5 DEF StageHealth
  <2>7. PulseRow(engine'[e], row)
    BY <1>2, <2>4, <2>6 DEF PulseRow, StageChecked, StageDue
  <2> QED
    BY <2>3, <2>4, <2>7, OneRowChanges DEF OnlyEngine
<1> QED
  BY <1>4, <1>5

\* Nothing is running at first.
LEMMA PulseInitHolds == PulseInit => PulseInv
<1> SUFFICES ASSUME PulseInit PROVE PulseInv
  OBVIOUS
<1>1. LedgerInv /\ log = <<>> /\ engine = [e \in Engine |-> Closed]
  BY InitHolds DEF PulseInit, LedgerInit
<1>2. <<>> \in Seq(Event) /\ \A k : OfKind(<<>>, k) = {}
  BY DEF OfKind
<1>3. Balanced(<<>>)
  <2>1. \A k : Cardinality(OfKind(<<>>, k)) = 0
    BY <1>2, FS_EmptySet
  <2> QED
    BY <1>2, <2>1 DEF Balanced
<1>4. Ordered(<<>>)
  BY DEF Ordered
<1>5. sched = [e \in Engine |-> Down] /\ Down \in SchedType
  BY DEF PulseInit, Down, SchedType
<1>6. PulseRow(Closed, Down)
  BY <1>3 DEF PulseRow, StageChecked, StageDue, StageHealth, Closed, Down
<1> QED
  BY <1>1, <1>3, <1>4, <1>5, <1>6 DEF PulseInv

\* A restart stops everything.
LEMMA PulseRestartHolds == PulseInv /\ LedgerInv' /\ PulseRestart => PulseInv'
<1> SUFFICES ASSUME PulseInv, LedgerInv', PulseRestart PROVE PulseInv'
  OBVIOUS
<1>1. /\ engine' = [e \in Engine |-> Closed] /\ sched' = [e \in Engine |-> Down]
      /\ log' = log
  BY DEF PulseRestart, Restart
<1>2. <<>> \in Seq(Event) /\ \A k : OfKind(<<>>, k) = {}
  BY DEF OfKind
<1>3. Balanced(<<>>)
  <2>1. \A k : Cardinality(OfKind(<<>>, k)) = 0
    BY <1>2, FS_EmptySet
  <2> QED
    BY <1>2, <2>1 DEF Balanced
<1>4. PulseRow(Closed, Down) /\ Down \in SchedType
  BY <1>3 DEF PulseRow, StageChecked, StageDue, StageHealth, Closed, Down, SchedType
<1> QED
  BY <1>1, <1>4 DEF PulseInv

\* An engine opens with the ledger as its state, before its scheduler starts.
LEMMA PulseOpenHolds ==
  ASSUME PulseInv, LedgerInv', NEW e \in Engine, Open(e), sched' = sched
  PROVE  PulseInv'
<1>1. /\ PulseRow(engine[e], sched[e]) /\ sched \in [Engine -> SchedType]
      /\ sched[e] \in SchedType /\ Balanced(log) /\ Ordered(log)
  BY RowTypes
<1>2. Bootstrap = log /\ log' = log
  BY OpensAtHead DEF PulseInv, LedgerInv, Open
<1>3. sched[e].pc = "down"
  BY <1>1 DEF PulseRow, Open
<1>4. /\ engine'[e] = [Closed EXCEPT !.open = TRUE, !.state = Bootstrap]
      /\ \A f \in Engine : f # e => engine'[f] = engine[f]
  BY DEF Open, PulseInv, LedgerInv, LedgerTypeOK
<1>5. engine'[e].state = log /\ engine'[e].checked = None /\ engine'[e].open
  BY <1>2, <1>4 DEF Closed
<1>6. PulseRow(engine'[e], sched[e])
  BY <1>1, <1>3, <1>5 DEF PulseRow, StageChecked, StageDue, StageHealth
<1>7. sched' = [sched EXCEPT ![e] = sched[e]]
  BY <1>1
<1> QED
  BY <1>1, <1>2, <1>4, <1>6, <1>7, OneRowChanges

\* Steps of the scheduler between two appends.
LEMMA SchedulerHolds ==
  ASSUME PulseInv, NEW e \in Engine, Start(e) \/ Wake(e) \/ Stop(e) \/ Exit(e)
  PROVE  PulseInv'
<1> DEFINE x == engine[e]
           c == sched[e]
<1>1. /\ PulseRow(x, c) /\ sched \in [Engine -> SchedType] /\ c \in SchedType
      /\ Balanced(log) /\ Ordered(log)
  BY RowTypes
<1>2. engine' = engine /\ log' = log
  BY DEF Start, Wake, Stop, Exit, ledgerVars
<1>3. LedgerInv'
  <2>1. UNCHANGED ledgerVars
    BY DEF Start, Wake, Stop, Exit
  <2> QED
    BY <2>1, StepHolds DEF PulseInv
<1>4. c.pc \in {"down", "waiting"} => x.checked = None
  BY <1>1 DEF PulseRow, StageChecked, Stage
<1>5. ASSUME NEW row \in SchedType, sched' = [sched EXCEPT ![e] = row], PulseRow(x, row)
      PROVE  PulseInv'
  BY <1>1, <1>2, <1>3, <1>5, OneRowChanges
<1>6. CASE Start(e)
  <2> DEFINE row == [Down EXCEPT !.pc = "waiting", !.failed = DegradedState(x.state)]
  <2>1. /\ row.pc = "waiting" /\ row.volatile = FALSE
        /\ row.failed = DegradedState(x.state)
    BY DEF Down
  <2>2. DegradedState(x.state) \in BOOLEAN
    BY DEF DegradedState
  <2>3. row \in SchedType
    BY <2>2 DEF Down, SchedType
  <2>4. sched' = [sched EXCEPT ![e] = row] /\ x.open /\ x.checked = None
    BY <1>4, <1>6 DEF Start
  <2> HIDE DEF row
  <2>5. PulseRow(x, row)
    BY <1>1, <2>1, <2>4 DEF PulseRow, StageChecked, StageDue, StageHealth
  <2> QED
    BY <1>5, <2>3, <2>4, <2>5
<1>7. CASE Wake(e)
  <2>1. c.pc = "waiting" /\ x.open /\ x.checked = None
    BY <1>1, <1>4, <1>7 DEF Wake, PulseRow
  <2>2. CASE sched' = [sched EXCEPT ![e].pc = "tick", ![e].was = Health(e)]
    <3> DEFINE row == [c EXCEPT !.pc = "tick", !.was = Health(e)]
    <3>1. sched' = [sched EXCEPT ![e] = row]
      BY <1>1, <2>2
    <3>2. Health(e) \in BOOLEAN
      BY DEF Health, DegradedState
    <3>3. row \in SchedType /\ row.pc = "tick" /\ row.was = Health(e) /\ row.volatile = c.volatile
      BY <1>1, <3>2 DEF SchedType, Stage
    <3> HIDE DEF row
    <3>4. PulseRow(x, row)
      BY <1>1, <2>1, <3>3 DEF PulseRow, StageChecked, StageDue, StageHealth, Health
    <3> QED
      BY <1>5, <3>1, <3>3, <3>4
  <2>3. CASE sched' = [sched EXCEPT ![e].pc = "failure", ![e].volatile = TRUE]
    <3> DEFINE row == [c EXCEPT !.pc = "failure", !.volatile = TRUE]
    <3>1. sched' = [sched EXCEPT ![e] = row]
      BY <1>1, <2>3
    <3>2. row \in SchedType /\ row.pc = "failure"
      BY <1>1 DEF SchedType, Stage
    <3> HIDE DEF row
    <3>3. PulseRow(x, row)
      BY <1>1, <2>1, <3>2 DEF PulseRow, StageChecked, StageDue, StageHealth
    <3> QED
      BY <1>5, <3>1, <3>2, <3>3
  <2> QED
    BY <1>7, <2>2, <2>3 DEF Wake
<1>8. CASE Stop(e)
  <2> DEFINE row == [c EXCEPT !.stop = TRUE]
  <2>1. sched' = [sched EXCEPT ![e] = row]
    BY <1>1, <1>8 DEF Stop
  <2>2. /\ row \in SchedType /\ row.pc = c.pc /\ row.was = c.was /\ row.volatile = c.volatile
        /\ row.failed = c.failed /\ row.persisted = c.persisted
    BY <1>1 DEF SchedType
  <2> HIDE DEF row
  <2>3. PulseRow(x, row)
    BY <1>1, <2>2 DEF PulseRow, StageChecked, StageDue, StageHealth
  <2> QED
    BY <1>5, <2>1, <2>2, <2>3
<1>9. CASE Exit(e)
  <2>1. sched' = [sched EXCEPT ![e] = Down] /\ x.checked = None
    BY <1>4, <1>9 DEF Exit
  <2>2. Down \in SchedType /\ Down.pc = "down"
    BY DEF Down, SchedType
  <2>3. PulseRow(x, Down)
    BY <1>1, <2>1, <2>2 DEF PulseRow, StageChecked, StageDue, StageHealth
  <2> QED
    BY <1>5, <2>1, <2>2, <2>3
<1> QED
  BY <1>6, <1>7, <1>8, <1>9

\* The first half of the append of a stage locks the event of that stage, made of
\* the state that the lock keeps.
LEMMA AppendCheckHolds ==
  ASSUME PulseInv, LedgerInv', NEW e \in Engine, AppendCheck(e)
  PROVE  PulseInv'
<1>1. /\ PulseRow(engine[e], sched[e]) /\ sched \in [Engine -> SchedType]
      /\ sched[e] \in SchedType /\ Balanced(log) /\ Ordered(log)
  BY RowTypes
<1>2. sched[e].pc \in Stage /\ engine[e].checked = None
  BY DEF AppendCheck
<1>3. CASE Raised(e) /\ UNCHANGED ledgerVars
  <2>1. engine' = engine /\ log' = log
    BY <1>3 DEF ledgerVars
  <2>2. OnlyEngine(e)
    BY <2>1 DEF OnlyEngine
  <2> QED
    BY <1>1, <1>2, <1>3, <2>1, <2>2, RaisedHolds
<1>4. ASSUME NEW v \in StageEvents(e), Check(e, v),
             IF engine'[e].checked = None THEN Raised(e) ELSE UNCHANGED sched
      PROVE  PulseInv'
  <2>1. /\ v \in Event /\ v.kind = sched[e].pc
        /\ v.kind = "reflected" => v.data = Cycle(engine[e].state)
    BY DEF StageEvents
  <2>2. /\ OnlyEngine(e) /\ log' = log /\ engine'[e].state = engine[e].state
        /\ engine'[e].checked \in {None, v}
    BY <1>4, <2>1, CheckLocks DEF PulseInv
  <2>3. CASE engine'[e].checked = None
    BY <1>1, <1>2, <1>4, <2>2, <2>3, RaisedHolds
  <2>4. CASE engine'[e].checked # None
    <3>1. engine'[e].checked = v /\ sched' = [sched EXCEPT ![e] = sched[e]]
      BY <1>1, <1>4, <2>2, <2>4
    <3>2. StageChecked(engine'[e], sched[e])
      BY <1>2, <2>1, <2>2, <3>1 DEF StageChecked
    <3>3. PulseRow(engine'[e], sched[e])
      BY <1>1, <2>2, <3>2 DEF PulseRow, StageDue, StageHealth, OnlyEngine
    <3> QED
      BY <1>1, <2>2, <3>1, <3>3, OneRowChanges DEF OnlyEngine
  <2> QED
    BY <2>3, <2>4
<1> QED
  BY <1>3, <1>4 DEF AppendCheck

\* The second half stores the event that was due, or raises.
LEMMA AppendStoreHolds ==
  ASSUME PulseInv, LedgerInv', NEW e \in Engine, AppendStore(e)
  PROVE  PulseInv'
<1> DEFINE v == engine[e].checked
           s == engine[e].state
<1>1. /\ PulseRow(engine[e], sched[e]) /\ s \in Seq(Event) /\ sched[e].pc \in Stage
  BY RowTypes DEF AppendStore
<1>2. v \in Event /\ Takes(e, v)
  BY StoreTakes DEF PulseInv, AppendStore
<1>3. v # None
  BY DEF AppendStore, Store, StoreRaises
<1>4. /\ v.kind = sched[e].pc
      /\ v.kind = "reflected" => v.data = Cycle(s)
  BY <1>1, <1>3 DEF PulseRow, StageChecked
<1>5. /\ v.kind = "broadcast" =>
            Cardinality(OfKind(s, "broadcast")) < Cardinality(OfKind(s, "tick"))
      /\ v.kind = "reflected" =>
            \A i \in OfKind(s, "reflected") : s[i].data # Cycle(s)
  BY <1>1, <1>4 DEF PulseRow, StageDue
<1>6. Balanced(log') /\ Ordered(log') /\ Balanced(engine'[e].state)
  BY <1>2, <1>4, <1>5, LedgerStaysOrdered
<1>7. CASE engine'[e].state = s
  <2>1. Raised(e)
    BY <1>7 DEF AppendStore
  <2> QED
    BY <1>1, <1>2, <1>6, <1>7, <2>1, RaisedHolds DEF Takes
<1>8. CASE engine'[e].state # s
  <2>1. Returned(e) /\ engine'[e].state = Append(s, v)
    BY <1>2, <1>8 DEF AppendStore, Takes
  <2> QED
    BY <1>1, <1>2, <1>4, <1>6, <2>1, ReturnedHolds DEF Takes
<1> QED
  BY <1>7, <1>8

\* A note between two appends is neither of the pulse nor of the health.
LEMMA ClientHolds ==
  ASSUME PulseInv, LedgerInv', NEW e \in Engine, Client(e)
  PROVE  PulseInv'
<1> DEFINE s == engine[e].state
           c == sched[e]
<1>1. /\ PulseRow(engine[e], c) /\ s \in Seq(Event) /\ sched \in [Engine -> SchedType]
      /\ c \in SchedType
  BY RowTypes
<1>2. PICK v \in Event : v.kind = "note" /\ Commit(e, v)
  BY DEF Client
<1>3. Takes(e, v) /\ sched' = [sched EXCEPT ![e] = c]
  BY <1>1, <1>2, CommitTakes DEF PulseInv, Client
<1>4. Balanced(log') /\ Ordered(log') /\ Balanced(engine'[e].state)
  BY <1>2, <1>3, LedgerStaysOrdered
<1>5. PulseRow(engine'[e], c)
  <2>1. CASE engine'[e].state = s
    BY <1>1, <1>3, <2>1 DEF Takes, OnlyEngine, PulseRow, StageChecked, StageDue, StageHealth
  <2>2. CASE engine'[e].state = Append(s, v)
    <3> DEFINE t == Append(s, v)
    <3>1. DegradedState(t) <=> DegradedState(s)
      BY <1>1, <1>2, HealthAfter
    <3>2. ASSUME NEW k, k # "note"
          PROVE  /\ OfKind(t, k) = OfKind(s, k)
                 /\ Cardinality(OfKind(t, k)) = Cardinality(OfKind(s, k))
      <4> DEFINE more == IF v.kind = k THEN {Len(s) + 1} ELSE {}
      <4>1. OfKind(t, k) = OfKind(s, k) \cup more
        BY <1>1, OneMore
      <4>2. more = {}
        BY <1>2, <3>2
      <4> QED
        BY <4>1, <4>2
    <3>3. /\ Cycle(t) = Cardinality(OfKind(t, "broadcast"))
          /\ Cycle(s) = Cardinality(OfKind(s, "broadcast"))
          /\ OfKind(s, "reflected") \subseteq 1 .. Len(s)
      <4>1. t \in Seq(Event)
        BY <1>1
      <4> HIDE DEF t
      <4> QED
        BY <1>1, <4>1, Counted
    <3>4. \A i \in 1 .. Len(s) : t[i] = s[i]
      BY <1>1
    <3> HIDE DEF t
    <3>5. engine'[e].state = t /\ engine'[e].checked = None
      BY <1>3, <2>2 DEF Takes, t
    <3>6. engine'[e].open = engine[e].open
      BY <1>3 DEF Takes, OnlyEngine
    <3>7. StageDue(engine'[e], c)
      <4>1. ASSUME c.pc = "broadcast"
            PROVE  Cardinality(OfKind(t, "broadcast")) < Cardinality(OfKind(t, "tick"))
        BY <1>1, <3>2, <4>1 DEF PulseRow, StageDue
      <4>2. ASSUME c.pc = "reflected", NEW i \in OfKind(t, "reflected")
            PROVE  t[i].data # Cycle(t)
        <5>1. i \in OfKind(s, "reflected") /\ t[i] = s[i] /\ Cycle(t) = Cycle(s)
          BY <3>2, <3>3, <3>4, <4>2
        <5> QED
          BY <1>1, <4>2, <5>1 DEF PulseRow, StageDue
      <4> QED
        BY <3>5, <4>1, <4>2 DEF StageDue
    <3>8. StageHealth(engine'[e], c)
      BY <1>1, <3>1, <3>5 DEF PulseRow, StageHealth, t
    <3> QED
      BY <1>1, <1>4, <3>5, <3>6, <3>7, <3>8 DEF PulseRow, StageChecked
  <2> QED
    BY <1>3, <2>1, <2>2 DEF Takes
<1> QED
  BY <1>1, <1>3, <1>4, <1>5, OneRowChanges DEF Takes, OnlyEngine

\* Every step preserves the invariant.
LEMMA PulseStepHolds == PulseInv /\ [PulseNext]_pulseVars => PulseInv'
<1> SUFFICES ASSUME PulseInv, [PulseNext]_pulseVars PROVE PulseInv'
  OBVIOUS
<1>1. LedgerInv'
  BY PulseIsLedgerStep, StepHolds DEF PulseInv
<1>2. CASE UNCHANGED pulseVars
  <2>1. log' = log /\ engine' = engine /\ sched' = sched
    BY <1>2 DEF pulseVars, ledgerVars
  <2> QED
    BY <1>1, <2>1 DEF PulseInv
<1>3. CASE PulseRestart
  BY <1>1, <1>3, PulseRestartHolds
<1>4. ASSUME NEW e \in Engine, Open(e) /\ UNCHANGED sched
      PROVE  PulseInv'
  BY <1>1, <1>4, PulseOpenHolds
<1>5. ASSUME NEW e \in Engine, Start(e) \/ Wake(e) \/ Stop(e) \/ Exit(e)
      PROVE  PulseInv'
  BY <1>5, SchedulerHolds
<1>6. ASSUME NEW e \in Engine, AppendCheck(e) PROVE PulseInv'
  BY <1>1, <1>6, AppendCheckHolds
<1>7. ASSUME NEW e \in Engine, AppendStore(e) PROVE PulseInv'
  BY <1>1, <1>7, AppendStoreHolds
<1>8. ASSUME NEW e \in Engine, Client(e) PROVE PulseInv'
  BY <1>1, <1>8, ClientHolds
<1> QED
  BY <1>2, <1>3, <1>4, <1>5, <1>6, <1>7, <1>8 DEF PulseNext

\* The invariant, from which the theorems about schedulers follow.
LEMMA PulseInvariant == PulseSpec => []PulseInv
BY PulseInitHolds, PulseStepHolds, PTL DEF PulseSpec

\* The rows of the ledger, engines and schedulers have their types, and only an open
\* engine has a scheduler (scheduler.py, start).
THEOREM PulseTyped == PulseSpec => []PulseTypeOK
<1>1. PulseInv => PulseTypeOK
  BY DEF PulseInv, LedgerInv, PulseRow, PulseTypeOK
<1> QED
  BY <1>1, PulseInvariant, PTL

\* Between two steps a scheduler is degraded exactly if its last step failed, in
\* memory or in the ledger (scheduler.py, _step, _record_failure and health).
THEOREM HealthIsOfTheLastStep == PulseSpec => []HealthTellsLastStep
<1>1. PulseInv => HealthTellsLastStep
  BY DEF PulseInv, PulseRow, StageHealth, HealthTellsLastStep, Health
<1> QED
  BY <1>1, PulseInvariant, PTL

\* However many schedulers and clients write, and whatever append raises before or
\* after its commit, broadcasts follow ticks and reflections are of the last cycle
\* and of it once (scheduler.py, _step).
THEOREM PulsesKeepOrder == PulseSpec => []PulseOrder
<1>1. PulseInv => PulseOrder
  BY DEF PulseInv, Ordered, PulseOrder
<1> QED
  BY <1>1, PulseInvariant, PTL
=============================================================================
