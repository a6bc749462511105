-------------------------- MODULE SnapshotWorkerProofs --------------------------
(* Theorems about SnapshotWorker for every value of its constants. *)
EXTENDS SnapshotWorker, TLAPS

-----------------------------------------------------------------------------
(* The invariant *)

\* The table is never ahead of a head, and what the worker has observed of a
\* registered brain is its head: Register looks at it, and Notify follows it.
Followed ==
    \A b \in Brain :
        /\ saved[b] <= head[b]
        /\ book[b].observed <= head[b]
        /\ book[b].registered => book[b].observed = head[b]
        /\ ~book[b].registered => book[b].next = None /\ book[b].last = None
        /\ book[b].last # None => book[b].last <= head[b]

\* What the thread knows of the brain it works on.
Working ==
    LET b == thread.brain
    IN /\ thread.pc \notin {"dead", "waiting"} => book[b].registered
       /\ thread.pc \in {"decide", "attempt", "save", "record"} => book[b].last # None
       /\ thread.pc \in {"save", "record"} => thread.sequence <= head[b]
       /\ thread.pc = "finish" => book[b].next # None /\ book[b].next <= book[b].observed + Interval

SnapshotInv == TypeOK /\ Followed /\ Working /\ NothingMissed

LEMMA ZeroIsSequence == 0 \in Sequence
BY SnapshotAssumption DEF Sequence

LEMMA SnapshotInit == Init => SnapshotInv
<1> SUFFICES ASSUME Init PROVE SnapshotInv
  OBVIOUS
<1> USE SnapshotAssumption
<1>1. Unborn \in ThreadType /\ Unborn.pc = "dead" /\ Unborn.brain = None
  BY DEF Unborn, ThreadType, Sequence
<1>2. /\ head \in [Brain -> Sequence] /\ saved \in [Brain -> Sequence]
      /\ \A b \in Brain : saved[b] <= head[b] /\ 0 <= head[b]
  BY DEF Init, Sequence
<1> DEFINE row == [registered |-> FALSE, observed |-> 0, last |-> None, next |-> None, error |-> FALSE]
<1>3. row \in BookType /\ ~row.registered /\ row.last = None /\ row.next = None /\ row.observed = 0
  BY DEF BookType, Sequence
<1>4. book = [b \in Brain |-> row]
  BY DEF Init
<1> HIDE DEF row
<1>5. \A b \in Brain : book[b] = row
  BY <1>4
<1>6. TypeOK
  <2>1. book \in [Brain -> BookType] /\ pending \subseteq {b \in Brain : book[b].registered}
    <3>1. book \in [Brain -> BookType]
      BY <1>3, <1>4
    <3>2. QED
      BY <3>1 DEF Init
  <2>2. thread \in ThreadType /\ (thread.pc \in {"dead", "waiting"} <=> thread.brain = None)
    BY <1>1 DEF Init
  <2>3. diverged \subseteq Brain /\ fatal \in BOOLEAN /\ faults \in 0 .. MaxFaults
    <3>1. 0 \in 0 .. MaxFaults /\ diverged = {} /\ fatal = FALSE /\ faults = 0
      BY DEF Init
    <3>2. QED
      BY <3>1
  <2>4. QED
    BY <1>2, <2>1, <2>2, <2>3 DEF TypeOK
<1>7. Followed
  BY <1>2, <1>3, <1>5 DEF Followed
<1>8. NothingMissed
  BY <1>3, <1>5 DEF NothingMissed, Settled
<1>9. Working
  BY <1>1 DEF Init, Working
<1>10. QED
  BY <1>6, <1>7, <1>8, <1>9 DEF SnapshotInv

-----------------------------------------------------------------------------
(* Every step *)

\* Publications, while the thread is anywhere.
LEMMA PublishStep == ASSUME SnapshotInv, NEW b \in Brain, Publish(b) PROVE SnapshotInv'
<1> USE SnapshotAssumption
<1> DEFINE h == head[b] + 1
<1> DEFINE row == [book[b] EXCEPT !.observed = Highest(book[b].observed, h)]
<1>1. /\ UNCHANGED <<saved, diverged, thread, fatal, faults>>
      /\ head \in [Brain -> Sequence] /\ h \in Sequence /\ head' = [head EXCEPT ![b] = h]
      /\ book \in [Brain -> BookType] /\ book' = [book EXCEPT ![b] = row]
      /\ pending' = IF book[b].registered /\ Due(b) THEN pending \cup {b} ELSE pending
  BY DEF SnapshotInv, TypeOK, Publish, Notify, Sequence, Highest
<1>2. book[b].observed <= head[b]
  BY DEF SnapshotInv, Followed
<1>3. /\ row \in BookType /\ row.registered = book[b].registered /\ row.next = book[b].next
      /\ row.last = book[b].last /\ row.observed = h
  BY <1>1, <1>2 DEF BookType, Sequence, Highest
<1> HIDE DEF row
<1>4. TypeOK'
  BY <1>1, <1>3 DEF SnapshotInv, TypeOK
<1>5. /\ \A c \in Brain : head[c] <= head'[c] /\ (c # b => head'[c] = head[c])
      /\ head'[b] = h
  BY <1>1 DEF Sequence
<1>6. Followed'
  BY <1>1, <1>3, <1>5 DEF SnapshotInv, Followed, TypeOK, Sequence, BookType
<1>7. Working'
  <2>1. CASE thread.brain = b
    <3>1. book[b].next # None => book[b].next \in Int
      BY <1>1 DEF BookType
    <3>2. h >= book[b].observed /\ h \in Int /\ book[b].observed \in Int /\ head[b] <= h
          /\ thread.sequence \in Int /\ head[b] \in Int
      BY <1>1, <1>2 DEF Sequence, BookType, ThreadType, SnapshotInv, TypeOK
    <3>3. QED
      BY <1>1, <1>3, <1>5, <2>1, <3>1, <3>2 DEF SnapshotInv, Working
  <2>2. CASE thread.brain # b
    <3>1. thread.pc \notin {"dead", "waiting"} => thread.brain \in Brain
      BY DEF SnapshotInv, TypeOK, ThreadType
    <3>2. QED
      BY <1>1, <1>5, <2>2, <3>1 DEF SnapshotInv, Working
  <2>3. QED
    BY <2>1, <2>2
<1>8. NothingMissed'
  <2> SUFFICES ASSUME NEW c \in Brain, Settled(c)'
               PROVE  /\ book'[c].next # None /\ book'[c].observed < book'[c].next
                      /\ book'[c].next <= book'[c].observed + Interval
    BY DEF NothingMissed
  <2>1. CASE c # b
    BY <1>1, <2>1 DEF SnapshotInv, NothingMissed, Settled
  <2>2. CASE c = b
    <3>1. Settled(b) /\ book[b].next # None /\ ~(h >= book[b].next)
      BY <1>1, <1>3, <1>5, <2>2 DEF Settled, Due
    <3>2. book[b].next <= book[b].observed + Interval /\ book[b].next \in Int /\ book[b].observed \in Int
          /\ h \in Int /\ head[b] \in Int
      BY <1>1, <3>1 DEF SnapshotInv, NothingMissed, BookType, Sequence
    <3>3. QED
      BY <1>1, <1>2, <1>3, <2>2, <3>1, <3>2
  <2>3. QED
    BY <2>1, <2>2
<1>9. QED
  BY <1>4, <1>6, <1>7, <1>8 DEF SnapshotInv

LEMMA RegisterStep == ASSUME SnapshotInv, NEW b \in Brain, Register(b) PROVE SnapshotInv'
<1> USE SnapshotAssumption
<1>1. /\ UNCHANGED <<head, saved, diverged, thread, fatal, faults>>
      /\ book \in [Brain -> BookType] /\ book[b] \in BookType /\ ~book[b].registered
      /\ book[b].next = None /\ head[b] \in Int /\ head[b] \in Sequence
      /\ book[b].observed \in Int /\ book[b].observed <= head[b]
  BY DEF Register, SnapshotInv, TypeOK, Followed, Sequence, BookType
<1>2. Highest(book[b].observed, head[b]) = head[b]
  BY <1>1 DEF Highest
<1>3. PICK known \in {None, 0} :
          LET next == IF known = None THEN None ELSE known + Interval
          IN /\ book' = [book EXCEPT ![b] =
                   [@ EXCEPT !.registered = TRUE, !.observed = head[b], !.last = known, !.next = next]]
             /\ pending' = IF next = None \/ head[b] >= next THEN pending \cup {b} ELSE pending
  BY <1>1, <1>2 DEF Register
<1> DEFINE next == IF known = None THEN None ELSE Interval
<1> DEFINE row == [book[b] EXCEPT !.registered = TRUE, !.observed = head[b], !.last = known, !.next = next]
<1>4. next = IF known = None THEN None ELSE known + Interval
  OBVIOUS
<1>5. /\ book' = [book EXCEPT ![b] = row]
      /\ pending' = IF next = None \/ head[b] >= next THEN pending \cup {b} ELSE pending
  BY <1>3, <1>4
<1>6. next \in 0 .. MaxHead + Interval \cup {None} /\ known \in Sequence \cup {None}
  BY DEF Sequence
<1>7. /\ row \in BookType /\ row.registered /\ row.observed = head[b] /\ row.last = known
      /\ row.next = next
  BY <1>1, <1>6 DEF BookType
<1>8. next = None <=> known = None
  OBVIOUS
<1> HIDE DEF row
<1>9. TypeOK'
  BY <1>1, <1>5, <1>7 DEF SnapshotInv, TypeOK
<1>10. Followed'
  BY <1>1, <1>5, <1>7 DEF SnapshotInv, Followed, Sequence
<1>11. Working'
  <2>1. thread.pc \notin {"dead", "waiting"} => thread.brain # b
    BY <1>1 DEF SnapshotInv, Working
  <2>2. thread.pc \notin {"dead", "waiting"} => thread.brain \in Brain
    BY DEF SnapshotInv, TypeOK, ThreadType
  <2>3. QED
    BY <1>1, <1>5, <2>1, <2>2 DEF SnapshotInv, Working
<1>12. NothingMissed'
  <2>1. \A c \in Brain : c # b => (Settled(c)' => Settled(c)) /\ book'[c] = book[c]
    BY <1>1, <1>5 DEF Settled
  <2>2. Settled(b)' => next # None /\ head[b] < next /\ next <= head[b] + Interval
    <3>1. Settled(b)' => next = Interval /\ head[b] < Interval
      BY <1>1, <1>5 DEF Settled
    <3>2. 0 <= head[b] /\ Interval # None
      BY <1>1 DEF Sequence
    <3>3. QED
      BY <1>1, <3>1, <3>2
  <2>3. QED
    BY <1>1, <1>5, <1>7, <2>1, <2>2 DEF SnapshotInv, NothingMissed
<1>13. QED
  BY <1>9, <1>10, <1>11, <1>12 DEF SnapshotInv

\* The thread goes on with its brain: it may write the row and the book of it.
LEMMA WorkMoves ==
    ASSUME SnapshotInv, NEW b \in Brain, thread.brain = b, UNCHANGED <<head, pending>>,
           NEW row \in BookType, book' = [book EXCEPT ![b] = row],
           row.registered = book[b].registered, row.observed = book[b].observed,
           row.last \in {book[b].last, saved[b], thread.sequence}, row.last \in Int => row.last <= head[b],
           saved' \in {saved, [saved EXCEPT ![b] = head[b]]},
           thread' \in ThreadType, thread'.brain = b, thread'.pc \notin {"dead", "waiting"},
           diverged' \subseteq Brain, fatal' \in BOOLEAN, faults' \in 0 .. MaxFaults,
           book[b].registered, Working'
    PROVE  SnapshotInv'
<1> USE SnapshotAssumption
<1>1. /\ book \in [Brain -> BookType] /\ b # None /\ head \in [Brain -> Sequence]
      /\ saved \in [Brain -> Sequence] /\ book'[b] = row
      /\ \A c \in Brain : c # b => book'[c] = book[c]
  BY DEF SnapshotInv, TypeOK
<1>2. saved' \in [Brain -> Sequence] /\ \A c \in Brain : saved'[c] \in {saved[c], head[c]}
  BY <1>1
<1>3. TypeOK'
  BY <1>1, <1>2 DEF SnapshotInv, TypeOK
<1>4. row.last # None => row.last <= head[b]
  BY <1>1 DEF BookType, Sequence
<1>5. Followed'
  <2> SUFFICES ASSUME NEW c \in Brain
               PROVE  /\ saved'[c] <= head[c] /\ book'[c].observed <= head[c]
                      /\ book'[c].registered => book'[c].observed = head[c]
                      /\ ~book'[c].registered => book'[c].next = None /\ book'[c].last = None
                      /\ book'[c].last # None => book'[c].last <= head[c]
    BY DEF Followed
  <2>1. saved[c] <= head[c] /\ head[c] \in Int
    BY <1>1 DEF SnapshotInv, Followed, Sequence
  <2>2. saved'[c] <= head[c]
    BY <1>2, <2>1
  <2>3. CASE c = b
    BY <1>1, <1>4, <2>2, <2>3 DEF SnapshotInv, Followed
  <2>4. CASE c # b
    BY <1>1, <2>2, <2>4 DEF SnapshotInv, Followed
  <2>5. QED
    BY <2>3, <2>4
<1>6. NothingMissed'
  BY <1>1 DEF SnapshotInv, NothingMissed, Settled
<1>7. QED
  BY <1>3, <1>5, <1>6 DEF SnapshotInv

\* An attempt that failed at a sequence the head has reached.
LEMMA FailedMoves ==
    ASSUME SnapshotInv, NEW b \in Brain, thread.brain = b, thread.pc \notin {"dead", "waiting", "finish"},
           UNCHANGED <<head, pending>>, NEW s \in Sequence, s <= book[b].observed,
           NEW transient \in BOOLEAN, Failed(s + Interval, transient),
           saved' \in {saved, [saved EXCEPT ![b] = head[b]]},
           diverged' \subseteq Brain, faults' \in 0 .. MaxFaults
    PROVE  SnapshotInv'
<1> USE SnapshotAssumption
<1> DEFINE row == [book[b] EXCEPT !.error = TRUE, !.next = s + Interval]
<1>1. /\ book \in [Brain -> BookType] /\ book[b] \in BookType /\ thread \in ThreadType
      /\ s + Interval \in 0 .. MaxHead + Interval /\ s + Interval \in Int
      /\ book[b].registered /\ book[b].observed \in Int /\ fatal \in BOOLEAN
      /\ book[b].last \in Int => book[b].last <= head[b]
  BY DEF SnapshotInv, TypeOK, Working, Followed, Sequence, BookType
<1>2. /\ book' = [book EXCEPT ![b] = row] /\ thread' = [thread EXCEPT !.pc = "finish"]
      /\ fatal' \in BOOLEAN
  BY <1>1 DEF Failed, Goto
<1>3. /\ row \in BookType /\ row.registered /\ row.observed = book[b].observed
      /\ row.last = book[b].last /\ row.next = s + Interval
  BY <1>1 DEF BookType
<1>4. thread' \in ThreadType /\ thread'.brain = b /\ thread'.pc = "finish"
  BY <1>1, <1>2 DEF ThreadType
<1> HIDE DEF row
<1>5. book'[b] = row
  BY <1>1, <1>2
<1>6. Working'
  <2>1. book'[b].registered /\ book'[b].next # None /\ book'[b].next <= book'[b].observed + Interval
    <3>1. s <= book[b].observed /\ s \in Int
      BY DEF Sequence
    <3>2. s + Interval <= book[b].observed + Interval /\ s + Interval # None
      BY <1>1, <3>1
    <3>3. QED
      BY <1>3, <1>5, <3>2
  <2>2. QED
    BY <1>4, <2>1 DEF Working
<1>7. QED
  BY <1>1, <1>2, <1>3, <1>4, <1>6, WorkMoves

\* What a working thread has at hand.
LEMMA AtWork ==
    ASSUME SnapshotInv, thread.pc \notin {"dead", "waiting"}, NEW b, b = thread.brain
    PROVE  /\ b \in Brain /\ b # None /\ book[b].registered /\ book[b].observed = head[b]
           /\ book[b] \in BookType /\ book \in [Brain -> BookType] /\ thread \in ThreadType
           /\ head[b] \in Sequence /\ saved[b] \in Sequence /\ saved[b] <= head[b]
           /\ thread.sequence \in Sequence /\ head[b] \in Int /\ saved \in [Brain -> Sequence]
           /\ diverged \subseteq Brain /\ fatal \in BOOLEAN /\ faults \in 0 .. MaxFaults
           /\ book[b].last # None => book[b].last \in Int /\ book[b].last <= head[b]
BY SnapshotAssumption DEF SnapshotInv, TypeOK, Working, Followed, ThreadType, BookType, Sequence

LEMMA PopStep == ASSUME SnapshotInv, Pop PROVE SnapshotInv'
<1> USE SnapshotAssumption
<1>1. PICK b \in pending :
        /\ pending' = pending \ {b}
        /\ thread' = [thread EXCEPT !.brain = b,
                        !.pc = IF book[b].last = None THEN "load" ELSE "decide"]
  BY DEF Pop
<1>2. UNCHANGED <<head, saved, diverged, book, fatal, faults>> /\ thread.pc = "waiting" /\ b \in Brain
      /\ b # None /\ book[b].registered /\ thread \in ThreadType /\ thread.brain = None
  BY DEF Pop, SnapshotInv, TypeOK
<1>3. /\ thread' \in ThreadType /\ thread'.brain = b
      /\ thread'.pc \in {"load", "decide"} /\ (thread'.pc = "decide" => book[b].last # None)
  BY <1>1, <1>2 DEF ThreadType
<1>4. TypeOK'
  BY <1>1, <1>2, <1>3 DEF SnapshotInv, TypeOK
<1>5. Followed' /\ Working'
  BY <1>2, <1>3 DEF SnapshotInv, Followed, Working
<1>6. NothingMissed'
  BY <1>1, <1>2, <1>3 DEF SnapshotInv, NothingMissed, Settled
<1>7. QED
  BY <1>4, <1>5, <1>6 DEF SnapshotInv

LEMMA LoadStep == ASSUME SnapshotInv, Load PROVE SnapshotInv'
<1> SUFFICES ASSUME NEW b \in Brain, b = thread.brain PROVE SnapshotInv'
  BY AtWork DEF Load
<1> USE SnapshotAssumption
<1>1. thread.pc = "load" /\ UNCHANGED <<head, saved, diverged, pending>>
  BY DEF Load
<1>2. ASSUME book' = [book EXCEPT ![b].last = saved[b], ![b].error = FALSE], Goto("decide"),
             UNCHANGED <<fatal, faults>>
      PROVE  SnapshotInv'
  <2> DEFINE row == [book[b] EXCEPT !.last = saved[b], !.error = FALSE]
  <2>1. /\ book' = [book EXCEPT ![b] = row] /\ thread' = [thread EXCEPT !.pc = "decide"]
        /\ book'[b] = row
    BY <1>1, <1>2, AtWork DEF Goto
  <2>2. /\ row \in BookType /\ row.registered /\ row.last = saved[b]
        /\ row.observed = book[b].observed
    <3>1. book[b] \in BookType /\ book[b].registered /\ saved[b] \in Sequence \cup {None}
      BY <1>1, AtWork
    <3>2. QED
      BY <3>1 DEF BookType
  <2>. row.last \in Int /\ row.last # None /\ row.last <= head[b]
    BY <1>1, <2>2, AtWork DEF Sequence
  <2>3. /\ thread' \in ThreadType /\ thread'.pc = "decide" /\ thread'.brain = b
    BY <1>1, <2>1, AtWork DEF ThreadType
  <2> HIDE DEF row
  <2>4. Working'
    BY <2>1, <2>2, <2>3 DEF Working
  <2>5. QED
    BY <1>1, <1>2, <2>1, <2>2, <2>3, <2>4, AtWork, WorkMoves
<1>3. ASSUME Fault, NEW transient \in BOOLEAN, Failed(book[b].observed + Interval, transient)
      PROVE  SnapshotInv'
  <2>1. book[b].observed \in Sequence /\ book[b].observed <= book[b].observed
    BY <1>1, AtWork DEF Sequence
  <2>2. faults' \in 0 .. MaxFaults
    BY <1>1, <1>3, AtWork DEF Fault
  <2>3. QED
    BY <1>1, <1>3, <2>1, <2>2, AtWork, FailedMoves
<1>4. QED
  BY <1>2, <1>3 DEF Load

LEMMA DecideStep == ASSUME SnapshotInv, Decide PROVE SnapshotInv'
<1> SUFFICES ASSUME NEW b \in Brain, b = thread.brain PROVE SnapshotInv'
  BY AtWork DEF Decide
<1> USE SnapshotAssumption
<1>1. thread.pc = "decide" /\ UNCHANGED <<head, saved, diverged, pending, fatal, faults>>
      /\ book[b].last # None
  BY DEF Decide, SnapshotInv, Working
<1>2. CASE book[b].observed - book[b].last < Interval
  <2> DEFINE n == book[b].last + Interval
  <2> DEFINE row == [book[b] EXCEPT !.next = n]
  <2>1. /\ book' = [book EXCEPT ![b] = row] /\ thread' = [thread EXCEPT !.pc = "finish"]
        /\ book'[b] = row
    BY <1>1, <1>2, AtWork DEF Goto, Decide
  <2>2. /\ book[b].last \in Sequence /\ n \in 0 .. MaxHead + Interval /\ n \in Int
        /\ n <= book[b].observed + Interval
    BY <1>1, AtWork DEF BookType, Sequence
  <2>3. /\ row \in BookType /\ row.registered /\ row.last = book[b].last
        /\ row.observed = book[b].observed /\ row.next = n
    BY <1>1, <2>2, AtWork DEF BookType
  <2>4. /\ thread' \in ThreadType /\ thread'.pc = "finish" /\ thread'.brain = b
    BY <1>1, <2>1, AtWork DEF ThreadType
  <2> HIDE DEF row, n
  <2>5. Working'
    BY <2>1, <2>2, <2>3, <2>4 DEF Working
  <2>6. QED
    BY <1>1, <2>1, <2>2, <2>3, <2>4, <2>5, AtWork, WorkMoves
<1>3. CASE ~(book[b].observed - book[b].last < Interval)
  <2>1. /\ book' = [book EXCEPT ![b] = book[b]] /\ thread' = [thread EXCEPT !.pc = "attempt"]
        /\ book'[b] = book[b]
    BY <1>1, <1>3, AtWork DEF Goto, Decide
  <2>2. /\ thread' \in ThreadType /\ thread'.pc = "attempt" /\ thread'.brain = b
    BY <1>1, <2>1, AtWork DEF ThreadType
  <2>3. Working'
    BY <1>1, <2>1, <2>2, AtWork DEF Working
  <2>4. QED
    BY <1>1, <2>1, <2>2, <2>3, AtWork, WorkMoves
<1>4. QED
  BY <1>2, <1>3

LEMMA AttemptStep == ASSUME SnapshotInv, Attempt PROVE SnapshotInv'
<1> SUFFICES ASSUME NEW b \in Brain, b = thread.brain PROVE SnapshotInv'
  BY AtWork DEF Attempt
<1> USE SnapshotAssumption
<1>1. thread.pc = "attempt" /\ UNCHANGED <<head, saved, diverged, book, pending, fatal, faults>>
      /\ thread' = [thread EXCEPT !.pc = "save", !.sequence = head[b]] /\ book[b].last # None
  BY DEF Attempt, SnapshotInv, Working
<1>2. /\ thread' \in ThreadType /\ thread'.pc = "save" /\ thread'.brain = b /\ thread'.sequence = head[b]
      /\ book' = [book EXCEPT ![b] = book[b]]
  BY <1>1, AtWork DEF ThreadType
<1>3. Working'
  BY <1>1, <1>2, AtWork DEF Working
<1>4. QED
  BY <1>1, <1>2, <1>3, AtWork, WorkMoves

LEMMA SaveStep == ASSUME SnapshotInv, Save PROVE SnapshotInv'
<1> SUFFICES ASSUME NEW b \in Brain, b = thread.brain PROVE SnapshotInv'
  BY AtWork DEF Save
<1> USE SnapshotAssumption
<1>1. thread.pc = "save" /\ UNCHANGED <<head, pending>>
      /\ thread.sequence <= book[b].observed /\ book[b].last # None
  BY AtWork DEF Save, SnapshotInv, Working
<1>2. Fault => faults' \in 0 .. MaxFaults
  BY <1>1, AtWork DEF Fault
<1>3. ASSUME saved' = [saved EXCEPT ![b] = head[b]], UNCHANGED <<diverged, book, fatal, faults>>,
             thread' = [thread EXCEPT !.pc = "record", !.sequence = head[b]]
      PROVE  SnapshotInv'
  <2>1. /\ thread' \in ThreadType /\ thread'.pc = "record" /\ thread'.brain = b
        /\ thread'.sequence = head[b] /\ book' = [book EXCEPT ![b] = book[b]]
    BY <1>1, <1>3, AtWork DEF ThreadType
  <2>2. Working'
    BY <1>1, <1>3, <2>1, AtWork DEF Working
  <2>3. QED
    BY <1>1, <1>3, <2>1, <2>2, AtWork, WorkMoves
<1>4. ASSUME Fault, saved' \in {saved, [saved EXCEPT ![b] = head[b]]},
             Failed(thread.sequence + Interval, TRUE), UNCHANGED diverged
      PROVE  SnapshotInv'
  BY <1>1, <1>2, <1>4, AtWork, FailedMoves
<1>5. ASSUME Fault \/ UNCHANGED faults, diverged' = diverged \cup {b},
             Failed(thread.sequence + Interval, FALSE), UNCHANGED saved
      PROVE  SnapshotInv'
  BY <1>1, <1>2, <1>5, AtWork, FailedMoves
<1>6. QED
  BY <1>3, <1>4, <1>5 DEF Save

LEMMA RecordStep == ASSUME SnapshotInv, Record PROVE SnapshotInv'
<1> SUFFICES ASSUME NEW b \in Brain, b = thread.brain PROVE SnapshotInv'
  BY AtWork DEF Record
<1> USE SnapshotAssumption
<1> DEFINE s == thread.sequence
<1> DEFINE row == [book[b] EXCEPT !.last = s, !.next = s + Interval, !.error = FALSE]
<1>1. thread.pc = "record" /\ UNCHANGED <<head, saved, diverged, pending, fatal, faults>>
      /\ s <= book[b].observed /\ s <= head[b]
      /\ book' = [book EXCEPT ![b] = row] /\ thread' = [thread EXCEPT !.pc = "finish"]
  BY AtWork DEF Record, Goto, SnapshotInv, Working
<1>2. s \in Sequence /\ s \in Int /\ s + Interval \in 0 .. MaxHead + Interval /\ s + Interval \in Int
  BY <1>1, AtWork DEF Sequence
<1>3. /\ row \in BookType /\ row.registered /\ row.last = s
      /\ row.observed = book[b].observed /\ row.next = s + Interval
  <2>1. book[b] \in BookType /\ book[b].registered /\ s \in Sequence \cup {None}
    BY <1>1, <1>2, AtWork
  <2>2. QED
    BY <1>2, <2>1 DEF BookType
<1>4. thread' \in ThreadType /\ thread'.pc = "finish" /\ thread'.brain = b
  BY <1>1, AtWork DEF ThreadType
<1> HIDE DEF row
<1>5. book'[b] = row
  BY <1>1, AtWork
<1>6. s + Interval <= book[b].observed + Interval
  BY <1>1, <1>2, AtWork
<1>7. Working'
  BY <1>2, <1>3, <1>4, <1>5, <1>6 DEF Working
<1>8. QED
  BY <1>1, <1>2, <1>3, <1>4, <1>7, AtWork, WorkMoves

\* A brain that became due while it was processed is due again.
LEMMA FinishStep == ASSUME SnapshotInv, Finish PROVE SnapshotInv'
<1> SUFFICES ASSUME NEW b \in Brain, b = thread.brain PROVE SnapshotInv'
  BY AtWork DEF Finish
<1> USE SnapshotAssumption
<1>1. thread.pc = "finish" /\ UNCHANGED <<head, saved, diverged, book, fatal, faults>>
      /\ thread' = [thread EXCEPT !.pc = "waiting", !.brain = None, !.sequence = 0]
      /\ pending' = IF book[b].observed >= book[b].next THEN pending \cup {b} ELSE pending
  BY DEF Finish
<1>0. book[b].next # None /\ book[b].next <= book[b].observed + Interval
  BY <1>1 DEF SnapshotInv, Working
<1>2. thread' \in ThreadType /\ thread'.pc = "waiting" /\ thread'.brain = None
  BY <1>1, AtWork, ZeroIsSequence DEF ThreadType
<1>3. TypeOK'
  BY <1>1, <1>2, AtWork DEF SnapshotInv, TypeOK
<1>4. Followed' /\ Working'
  BY <1>1, <1>2 DEF SnapshotInv, Followed, Working
<1>5. book[b].next \in Int /\ book[b].observed \in Int
  BY <1>0, <1>1, AtWork DEF BookType, Sequence
<1>6. \A c \in Brain : c # b /\ Settled(c)' => Settled(c)
  BY <1>1 DEF Settled
<1>7. Settled(b)' => book[b].observed < book[b].next
  BY <1>1, <1>5 DEF Settled
<1>8. NothingMissed'
  BY <1>0, <1>1, <1>6, <1>7 DEF SnapshotInv, NothingMissed
<1>9. QED
  BY <1>3, <1>4, <1>8 DEF SnapshotInv

\* Between its brains the thread starts, stops and ends.
LEMMA IdleStep ==
    ASSUME SnapshotInv, Exit \/ Start \/ Stop \/ (\E b \in Brain : Diverge(b)) \/ UNCHANGED vars
    PROVE  SnapshotInv'
<1> USE SnapshotAssumption
<1>1. UNCHANGED <<head, saved, book, pending, fatal>>
  BY DEF Exit, Start, Stop, Diverge, vars
<1>2. diverged' \subseteq Brain /\ faults' \in 0 .. MaxFaults
  BY DEF Exit, Start, Stop, Diverge, Fault, vars, SnapshotInv, TypeOK
<1>3. /\ thread' \in ThreadType /\ thread'.brain = thread.brain
      /\ thread'.pc \in {"dead", "waiting"} <=> thread.pc \in {"dead", "waiting"}
      /\ thread.pc \notin {"dead", "waiting"} => thread'.pc = thread.pc /\ thread'.sequence = thread.sequence
  <2>1. thread \in ThreadType /\ (thread.pc \in {"dead", "waiting"} <=> thread.brain = None)
    BY DEF SnapshotInv, TypeOK
  <2>2. CASE Exit
    BY <2>1, <2>2 DEF Exit, Goto, ThreadType
  <2>3. CASE Start
    BY <2>1, <2>3, ZeroIsSequence DEF Start, Unborn, ThreadType
  <2>4. CASE Stop
    BY <2>1, <2>4 DEF Stop, ThreadType
  <2>5. CASE UNCHANGED thread
    BY <2>1, <2>5
  <2>6. QED
    BY <2>2, <2>3, <2>4, <2>5 DEF Diverge, vars
<1>4. TypeOK'
  BY <1>1, <1>2, <1>3 DEF SnapshotInv, TypeOK
<1>5. Followed' /\ NothingMissed'
  BY <1>1, <1>3 DEF SnapshotInv, Followed, NothingMissed, Settled
<1>6. Working'
  BY <1>1, <1>3 DEF SnapshotInv, Working
<1>7. QED
  BY <1>4, <1>5, <1>6 DEF SnapshotInv

LEMMA SnapshotStep == SnapshotInv /\ [Next]_vars => SnapshotInv'
BY PublishStep, RegisterStep, PopStep, LoadStep, DecideStep, AttemptStep, SaveStep, RecordStep,
   FinishStep, IdleStep DEF Next, Run

-----------------------------------------------------------------------------
(* The theorems *)

LEMMA SnapshotHolds == Spec => []SnapshotInv
BY SnapshotInit, SnapshotStep, PTL DEF Spec

\* The table, the heads and the worker's books have their types.
THEOREM SnapshotTyped == Spec => []TypeOK
BY SnapshotHolds, PTL DEF SnapshotInv

\* Whenever an engine publishes, and whatever fails, the next attempt for a brain
\* nobody works on lies ahead of its head and at most one interval away
\* (SnapshotWorker.notify, _finish).
THEOREM NoPublicationIsMissed == Spec => []NothingMissed
BY SnapshotHolds, PTL DEF SnapshotInv

\* Hence also of what the run checks with fairness.
THEOREM FairWorkerMissesNothing == FairSpec => []NothingMissed
BY NoPublicationIsMissed, PTL DEF FairSpec

=============================================================================
