-------------------------- MODULE DaemonRuntimeProofs --------------------------
(***************************************************************************)
(* Theorems about one daemon process, for any number of requests, brains   *)
(* and failures: each brain has its engine and scheduler, what was written *)
(* stays, and the ledger is closed when nobody can write any more.         *)
(***************************************************************************)
EXTENDS DaemonRuntime, TLAPS

\* The operations that make or unmake the engine of their brain.
Working == {"persist", "start", "publish", "register", "compensate", "clear"}
WorksOn(o, b) == op[o].pc \in Working /\ op[o].brain = b

\* Requests were accepted, or are being finished.
Served == server = "serving" \/ ~Quiet

\* What is known of a brain that is not there, that has a foundation and no engine,
\* and that has everything.
Absent(b) ==
    /\ b \notin ledger.brains \cup pending \cup engines \cup schedulers
    /\ thread[b] = "none"
Founded(b) ==
    /\ b \in ledger.brains \cap pending /\ b \notin engines \cup schedulers
Complete(b) ==
    /\ b \in ledger.brains \cap engines \cap schedulers /\ b \notin pending
    /\ thread[b] = "running"

\* Each operation finds its brain as it left it.
OpRow(o) ==
    LET b == op[o].brain
    IN /\ op[o].pc \in {"idle", "gate"} => b = None
       /\ op[o].pc \notin {"idle", "gate"} => b \in Brain
       /\ op[o].pc \in {"gate", "persist", "start", "publish", "register", "compensate"} =>
             ~op[o].undone
       /\ op[o].pc \in {"start", "publish", "register", "compensate"} => op[o].owned
       /\ op[o].pc \in {"persist", "start", "publish", "register"} => cell[b] = "open"
       /\ op[o].pc = "persist" => Absent(b)
       /\ op[o].pc = "start" => Founded(b) /\ thread[b] = "none"
       /\ op[o].pc = "publish" => Founded(b) /\ thread[b] = "running"
       /\ op[o].pc = "register" => Complete(b)
       /\ op[o].pc \in {"compensate", "clear"} => cell[b] = "failed" /\ thread[b] = "none"
       /\ op[o].pc = "clear" /\ op[o].undone => b \notin ledger.brains
       /\ op[o].pc = "use" => cell[b] = "engine"

\* No two of them work on one brain.
OneWorker == \A o, x \in Op : op[o].pc \in Working /\ WorksOn(x, op[o].brain) => o = x

\* A brain is there completely or not at all, or the daemon has stopped itself.
Settled(b) ==
    /\ cell[b] # "open"
    /\ cell[b] = "none" => Absent(b)
    /\ cell[b] = "engine" => Complete(b)
    /\ cell[b] = "failed" => fatal

\* So is a brain that nobody works on.
BrainRow(b) == (\A o \in Op : ~WorksOn(o, b)) => Settled(b)

\* Every running thread is among those that will be stopped, or about to be.
ThreadsListed ==
    \A b \in Brain : thread[b] = "running" =>
        b \in schedulers \/ \E o \in Op : op[o].pc = "publish" /\ op[o].brain = b

\* What clients know has an engine, and what has an engine is in the ledger.
EnginesStored ==
    /\ \A b \in given : cell[b] = "engine"
    /\ \A b \in Brain : cell[b] = "engine" => b \in ledger.brains

\* While the daemon opens, it has complete engines for some of its brains.
Opening ==
    server = "starting" =>
        /\ Quiet /\ done = 0 /\ ~fatal
        /\ ledger.brains = Old /\ pending = {} /\ engines \subseteq Old
        /\ \A b \in Brain :
              IF b \in engines THEN cell[b] = "engine" /\ Complete(b)
              ELSE cell[b] = "none" /\ b \notin schedulers /\ thread[b] = "none"

\* How far the daemon is with its end, and who owns it.
Ending ==
    /\ server \in {"closing", "closed"} => Quiet
    /\ server = "failed" => owner # None /\ (owner = "server" \/ Quiet)
    /\ done > 0 => /\ Quiet /\ server \notin {"starting", "serving"}
                   /\ \A b \in Brain : thread[b] = "none"
    /\ done = 6 <=> server = "closed"
    /\ fatal /\ server = "serving" => owner # None

RuntimeInv ==
    /\ TypeOK
    /\ \A o \in Op : OpRow(o)
    /\ OneWorker
    /\ Served => \A b \in Brain : BrainRow(b)
    /\ ThreadsListed /\ EnginesStored /\ Opening /\ Ending

-----------------------------------------------------------------------------
(* The steps of close *)

LEMMA StepNames ==
  /\ Len(CloseSteps) = 6
  /\ \A n \in 1 .. 6 : /\ CloseSteps[n] = "schedulers" <=> n = 1
                       /\ CloseSteps[n] = "lease" <=> n = 6
<1>1. /\ Len(CloseSteps) = 6
      /\ CloseSteps[1] = "schedulers" /\ CloseSteps[2] = "worker" /\ CloseSteps[3] = "ledger"
      /\ CloseSteps[4] = "credential" /\ CloseSteps[5] = "discovery" /\ CloseSteps[6] = "lease"
  BY DEF CloseSteps
<1>2. ASSUME NEW n \in 1 .. 6
      PROVE  n = 1 \/ n = 2 \/ n = 3 \/ n = 4 \/ n = 5 \/ n = 6
  OBVIOUS
<1> QED
  BY <1>1, <1>2

\* What has been closed was reached, and the lease is the last.
LEMMA ReachedSteps ==
  ASSUME done \in 0 .. Len(CloseSteps)
  PROVE  /\ LedgerClosed => done > 0
         /\ done = 6 <=> LeaseReleased
<1>1. done \in 0 .. 6
  BY StepNames
<1>2. LedgerClosed => done > 0
  BY <1>1 DEF LedgerClosed, Done
<1>3. LeaseReleased <=> \E i \in 1 .. done : CloseSteps[i] = "lease"
  BY DEF LeaseReleased, Done
<1>4. \A i \in 1 .. done : i \in 1 .. 6
  BY <1>1
<1> QED
  BY <1>1, <1>2, <1>3, <1>4, StepNames

-----------------------------------------------------------------------------
(* Types *)

\* The rows of the operations have their types when one is replaced and those that
\* wait for a brain are answered.
LEMMA OpTypes ==
  ASSUME op \in [Op -> OpType], NEW o \in Op
  PROVE  /\ Idle \in OpType
         /\ op[o] \in OpType
         /\ \A r \in OpType : /\ Set(o, r) => op' \in [Op -> OpType]
                              /\ Answered(o, r) \in [Op -> OpType]
<1>1. Idle \in OpType
  BY DEF Idle, OpType
<1>2. ASSUME NEW r \in OpType
      PROVE  /\ Set(o, r) => op' \in [Op -> OpType]
             /\ Answered(o, r) \in [Op -> OpType]
  BY <1>1, <1>2 DEF Set, Answered
<1> QED
  BY <1>1, <1>2

\* The invariant types operations and their brains.
LEMMA OpFacts ==
  ASSUME RuntimeInv, NEW o \in Op
  PROVE  /\ op[o] \in OpType /\ op \in [Op -> OpType]
         /\ op[o].pc \notin {"idle", "gate"} => op[o].brain \in Brain
BY DEF RuntimeInv, TypeOK, OpRow

\* The daemon stops itself without leaving the types.
LEMMA FailStopTyped ==
  FailStop => /\ fatal' = TRUE /\ closing' = TRUE /\ owner' = "server"
              /\ server' = server /\ done' = done
BY DEF FailStop, Retained

\* A failure is counted.
LEMMA FaultTyped == faults \in 0 .. MaxFaults /\ Fault => faults' \in 0 .. MaxFaults
BY RuntimeAssumption DEF Fault

\* The parts of the state have their types after every step of an operation.
LEMMA OpStepTyped ==
  ASSUME RuntimeInv, NEW o \in Op, Begin(o) \/ OpStep(o)
  PROVE  TypeOK'
<1> USE DEF TypeOK
<1>1. TypeOK /\ op \in [Op -> OpType] /\ op[o] \in OpType
  BY DEF RuntimeInv
<1>2. op[o].pc \notin {"idle", "gate"} => op[o].brain \in Brain
  BY OpFacts
<1>3. /\ \A pc \in {"idle", "gate", "persist", "cell", "wait", "start", "publish",
                    "register", "compensate", "clear", "use"} :
            [op[o] EXCEPT !.pc = pc] \in OpType
      /\ Idle \in OpType
  BY <1>1 DEF OpType, Idle
<1>4. \A r \in OpType : /\ Set(o, r) => op' \in [Op -> OpType]
                        /\ Answered(o, r) \in [Op -> OpType]
  BY <1>1, OpTypes
<1>5. ASSUME NEW pc \in {"idle", "gate", "persist", "cell", "wait", "start", "publish",
                         "register", "compensate", "clear", "use"}, Go(o, pc)
      PROVE  op' \in [Op -> OpType]
  BY <1>3, <1>4, <1>5 DEF Go
<1>6. End(o) => op' \in [Op -> OpType]
  BY <1>3, <1>4 DEF End
<1>7. Fault => faults' \in 0 .. MaxFaults
  BY <1>1, FaultTyped
<1>8. FailStop \/ UNCHANGED life =>
        /\ server' \in {"starting", "serving", "cleanup", "closing", "failed", "closed"}
        /\ done' \in 0 .. Len(CloseSteps) /\ owner' \in {None, "runtime", "server"}
        /\ fatal' \in BOOLEAN /\ closing' \in BOOLEAN
  BY <1>1, FailStopTyped DEF life
<1>9. CASE Begin(o)
  <2>1. \A p \in Profile \cup {None} : [Idle EXCEPT !.pc = "gate", !.profile = p] \in OpType
    BY DEF OpType, Idle
  <2>2. \A b \in Brain : [Idle EXCEPT !.pc = "cell", !.brain = b] \in OpType
    BY DEF OpType, Idle
  <2>3. op' \in [Op -> OpType]
    BY <1>1, <1>4, <1>9, <2>1, <2>2 DEF Begin
  <2> QED
    BY <1>1, <1>9, <2>3 DEF Begin, memory, life
<1>10. CASE Reserve(o)
  <2>1. (CHOOSE b \in Fresh : TRUE) \in Brain
    BY <1>10 DEF Reserve, Fresh
  <2>2. \A b \in Brain : [op[o] EXCEPT !.pc = "persist", !.brain = b] \in OpType
    BY <1>1 DEF OpType
  <2>3. op' \in [Op -> OpType]
    BY <1>4, <1>10, <2>1, <2>2 DEF Reserve
  <2> QED
    BY <1>1, <1>10, <2>1, <2>3 DEF Reserve, life
<1>11. CASE PersistFound(o)
  <2>1. ledger.profile[op[o].profile] \in Brain
    BY <1>1, <1>11 DEF PersistFound, OpType, LedgerType
  <2>2. \A b \in Brain : [op[o] EXCEPT !.pc = "cell", !.brain = b] \in OpType
    BY <1>1 DEF OpType
  <2>3. op' \in [Op -> OpType]
    BY <1>4, <1>11, <2>1, <2>2 DEF PersistFound
  <2> QED
    BY <1>1, <1>11, <2>3 DEF PersistFound, life
<1>12. CASE PersistNew(o)
  <2>1. op[o].brain \in Brain
    BY <1>2, <1>12 DEF PersistNew
  <2>2. Created(op[o].profile, op[o].brain) \in LedgerType
    BY <1>1, <2>1 DEF Created, LedgerType
  <2>3. [op[o] EXCEPT !.pc = "start", !.owned = TRUE] \in OpType
    BY <1>1 DEF OpType
  <2>4. op' \in [Op -> OpType]
    BY <1>4, <1>6, <1>12, <2>3 DEF PersistNew
  <2>5. /\ server' \in {"starting", "serving", "cleanup", "closing", "failed", "closed"}
        /\ done' \in 0 .. Len(CloseSteps) /\ owner' \in {None, "runtime", "server"}
        /\ fatal' \in BOOLEAN /\ closing' \in BOOLEAN
    BY <1>8, <1>12 DEF PersistNew
  <2>6. faults' \in 0 .. MaxFaults
    BY <1>1, <1>7, <1>12 DEF PersistNew
  <2>7. ledger' \in LedgerType /\ pending' \subseteq Brain
    BY <1>1, <1>12, <2>1, <2>2 DEF PersistNew
  <2>8. cell' \in [Brain -> {"none", "open", "engine", "failed"}]
    BY <1>1, <1>12 DEF PersistNew
  <2> QED
    BY <1>1, <1>12, <2>4, <2>5, <2>6, <2>7, <2>8 DEF PersistNew
<1>13. CASE LookUp(o)
  <2>1. op' \in [Op -> OpType]
    BY <1>5, <1>6, <1>13 DEF LookUp
  <2>2. cell' \in [Brain -> {"none", "open", "engine", "failed"}]
    BY <1>1, <1>13 DEF LookUp
  <2> QED
    BY <1>1, <1>13, <2>1, <2>2 DEF LookUp, life
<1>14. StartFailed(o) => /\ op' \in [Op -> OpType]
                         /\ cell' \in [Brain -> {"none", "open", "engine", "failed"}]
  <2> SUFFICES ASSUME StartFailed(o)
               PROVE  /\ op' \in [Op -> OpType]
                      /\ cell' \in [Brain -> {"none", "open", "engine", "failed"}]
    OBVIOUS
  <2> DEFINE r == IF op[o].owned THEN [op[o] EXCEPT !.pc = "compensate"] ELSE Idle
  <2>1. r \in OpType
    BY <1>3
  <2>2. op' = Answered(o, r)
    BY DEF StartFailed
  <2> HIDE DEF r
  <2>3. op' \in [Op -> OpType]
    BY <1>4, <2>1, <2>2
  <2> QED
    BY <1>1, <2>3 DEF StartFailed
<1>15. Undo(o) /\ op[o].brain \in Brain =>
          /\ op' \in [Op -> OpType]
          /\ cell' \in [Brain -> {"none", "open", "engine", "failed"}]
          /\ schedulers' \subseteq Brain /\ thread' \in [Brain -> {"none", "running"}]
          /\ FailStop \/ UNCHANGED life
  <2> SUFFICES ASSUME Undo(o), op[o].brain \in Brain
               PROVE  /\ op' \in [Op -> OpType]
                      /\ cell' \in [Brain -> {"none", "open", "engine", "failed"}]
                      /\ schedulers' \subseteq Brain /\ thread' \in [Brain -> {"none", "running"}]
                      /\ FailStop \/ UNCHANGED life
    OBVIOUS
  <2>1. CASE /\ thread' = [thread EXCEPT ![op[o].brain] = "none"] /\ StartFailed(o)
             /\ UNCHANGED <<schedulers, life>>
    BY <1>1, <1>14, <2>1
  <2>2. CASE /\ schedulers' = schedulers \cup {op[o].brain}
             /\ cell' = [cell EXCEPT ![op[o].brain] = "failed"]
             /\ op' = Answered(o, Idle) /\ FailStop /\ UNCHANGED thread
    BY <1>1, <1>3, <1>4, <2>2
  <2> QED
    BY <2>1, <2>2 DEF Undo
<1>16. CASE Start(o)
  <2>1. /\ op' \in [Op -> OpType] /\ thread' \in [Brain -> {"none", "running"}]
        /\ cell' \in [Brain -> {"none", "open", "engine", "failed"}]
        /\ faults' \in 0 .. MaxFaults
    BY <1>1, <1>5, <1>7, <1>14, <1>16 DEF Start
  <2> QED
    BY <1>1, <1>16, <2>1 DEF Start, life
<1>17. CASE Publish(o)
  <2>1. op[o].brain \in Brain
    BY <1>2, <1>17 DEF Publish
  <2>2. CASE fatal
    <3>1. Undo(o) /\ UNCHANGED <<pending, engines, faults, ledger, gate, given>>
      BY <1>17, <2>2 DEF Publish
    <3> QED
      BY <1>1, <1>8, <1>15, <2>1, <3>1
  <2>3. CASE ~fatal
    <3>1. op' \in [Op -> OpType]
      BY <1>5, <1>17, <2>3 DEF Publish
    <3> QED
      BY <1>1, <1>17, <2>1, <2>3, <3>1 DEF Publish, life
  <2> QED
    BY <2>2, <2>3
<1>18. CASE Register(o)
  <2>1. op[o].brain \in Brain
    BY <1>2, <1>18 DEF Register
  <2>2. CASE Fault /\ Undo(o)
    BY <1>1, <1>7, <1>8, <1>15, <1>18, <2>1, <2>2 DEF Register
  <2>3. CASE /\ cell' = [cell EXCEPT ![op[o].brain] = "engine"]
             /\ op' = [x \in Op |-> IF x = o \/ x \in Waiting(op[o].brain)
                                       THEN [op[x] EXCEPT !.pc = "use"] ELSE op[x]]
             /\ UNCHANGED <<thread, schedulers, life, faults>>
    <3>1. op' \in [Op -> OpType]
      <4>1. \A x \in Op : op[x] \in OpType
        BY <1>1
      <4>2. \A x \in Op : [op[x] EXCEPT !.pc = "use"] \in OpType
        BY <4>1 DEF OpType
      <4> QED
        BY <2>3, <4>1, <4>2
    <3> QED
      BY <1>1, <1>18, <2>3, <3>1 DEF Register, life
  <2> QED
    BY <1>18, <2>2, <2>3 DEF Register
<1>19. CASE Compensate(o)
  <2>1. Without(op[o].brain) \in LedgerType
    BY <1>1 DEF Without, LedgerType
  <2>2. \A u \in BOOLEAN : [op[o] EXCEPT !.pc = "clear", !.undone = u] \in OpType
    BY <1>1 DEF OpType
  <2>3. Untouched(op[o].brain) \in BOOLEAN
    BY DEF Untouched
  <2>4. op' \in [Op -> OpType]
    BY <1>4, <1>5, <1>6, <1>19, <2>2, <2>3 DEF Compensate
  <2>5. ledger' \in LedgerType /\ faults' \in 0 .. MaxFaults
    BY <1>1, <1>7, <1>19, <2>1 DEF Compensate
  <2> QED
    BY <1>1, <1>19, <2>4, <2>5 DEF Compensate, memory, life
<1>20. CASE Clear(o)
  <2>1. /\ op' \in [Op -> OpType] /\ pending' \subseteq Brain
        /\ cell' \in [Brain -> {"none", "open", "engine", "failed"}]
        /\ FailStop \/ UNCHANGED life
    BY <1>1, <1>6, <1>20 DEF Clear
  <2> QED
    BY <1>1, <1>8, <1>20, <2>1 DEF Clear
<1>21. CASE Answer(o)
  <2>1. op[o].brain \in Brain
    BY <1>2, <1>21 DEF Answer
  <2>2. [ledger EXCEPT !.used = @ \cup {op[o].brain}] \in LedgerType
    BY <1>1, <2>1 DEF LedgerType
  <2>3. op' \in [Op -> OpType] /\ ledger' \in LedgerType /\ given' \subseteq Brain
    BY <1>1, <1>6, <1>21, <2>1, <2>2 DEF Answer
  <2> QED
    BY <1>1, <1>21, <2>3 DEF Answer, memory, life
<1> QED
  BY <1>9, <1>10, <1>11, <1>12, <1>13, <1>16, <1>17, <1>18, <1>19, <1>20, <1>21 DEF OpStep

-----------------------------------------------------------------------------
(* What a step leaves alone *)

\* A brain that a step does not concern.
SameBrain(c) ==
    /\ cell'[c] = cell[c] /\ thread'[c] = thread[c]
    /\ c \in ledger'.brains <=> c \in ledger.brains
    /\ c \in pending' <=> c \in pending
    /\ c \in engines' <=> c \in engines
    /\ c \in schedulers' <=> c \in schedulers

\* An operation is left alone, or has waited for brain b and is answered.
Bystander(x, b) ==
    \/ op'[x] = op[x]
    \/ /\ op[x].pc = "wait" /\ op[x].brain = b
       /\ \/ op'[x] = Idle
          \/ op'[x] = [op[x] EXCEPT !.pc = "use"] /\ cell'[b] = "engine"

\* The row of an operation depends on its own brain alone.
LEMMA RowKept ==
  ASSUME RuntimeInv, NEW x \in Op, op'[x] = op[x],
         op[x].brain \in Brain => SameBrain(op[x].brain)
  PROVE  OpRow(x)'
<1>1. OpRow(x) /\ (op[x].pc \notin {"idle", "gate"} => op[x].brain \in Brain)
  BY DEF RuntimeInv, OpRow
<1>2. CASE op[x].pc \in {"idle", "gate"}
  BY <1>1, <1>2 DEF OpRow
<1>3. CASE op[x].pc \notin {"idle", "gate"}
  <2>1. SameBrain(op[x].brain)
    BY <1>1, <1>3
  <2> QED
    BY <1>1, <1>3, <2>1 DEF OpRow, SameBrain, Absent, Founded, Complete
<1> QED
  BY <1>2, <1>3

\* A step on brain b that nobody else works on keeps the rows of the others.
LEMMA OthersKept ==
  ASSUME RuntimeInv, NEW o \in Op, NEW b \in Brain,
         \A c \in Brain : c # b => SameBrain(c),
         \A x \in Op : x # o => ~WorksOn(x, b),
         \A x \in Op : x # o => Bystander(x, b),
         cell[b] = "engine" => cell'[b] = "engine",
         NEW x \in Op, x # o
  PROVE  /\ OpRow(x)'
         /\ op[x].pc \in Working \/ op'[x].pc \in Working => op'[x] = op[x]
<1>1. OpRow(x) /\ op[x] \in OpType
  BY OpFacts DEF RuntimeInv
<1>2. Idle.pc \notin Working /\ Idle.pc = "idle" /\ Idle.brain = None
  BY DEF Idle, Working
<1>3. CASE op'[x] = op[x] /\ op[x].brain # b
  BY <1>3, RowKept
<1>4. CASE op'[x] = op[x] /\ op[x].brain = b
  <2>1. op[x].pc \notin Working
    BY <1>4 DEF WorksOn
  <2>2. op[x].pc \in {"idle", "gate", "cell", "wait", "use"}
    BY <1>1, <2>1 DEF OpType, Working
  <2>3. OpRow(x)'
    BY <1>1, <1>4, <2>2 DEF OpRow
  <2> QED
    BY <1>4, <2>3
<1>5. CASE op[x].pc = "wait" /\ op[x].brain = b /\ op'[x] = Idle
  <2>1. OpRow(x)'
    BY <1>2, <1>5 DEF OpRow
  <2> QED
    BY <1>2, <1>5, <2>1 DEF Working
<1>6. CASE /\ op[x].pc = "wait" /\ op[x].brain = b
           /\ op'[x] = [op[x] EXCEPT !.pc = "use"] /\ cell'[b] = "engine"
  <2>1. op'[x].pc = "use" /\ op'[x].brain = b
    BY <1>1, <1>6 DEF OpType
  <2>2. OpRow(x)'
    BY <1>6, <2>1 DEF OpRow
  <2> QED
    BY <1>6, <2>1, <2>2 DEF Working
<1> QED
  BY <1>3, <1>4, <1>5, <1>6 DEF Bystander

\* While requests run the daemon has not begun to close; they end it only by
\* stopping it.
LEMMA LifeKept ==
  ASSUME RuntimeInv, TypeOK', Served, UNCHANGED life \/ FailStop
  PROVE  Opening' /\ Ending' /\ (fatal => fatal') /\ server' = server /\ done' = done
<1>1. server # "starting" /\ server \notin {"closing", "closed"} /\ done = 0
  BY DEF RuntimeInv, TypeOK, Served, Opening, Ending
<1>2. CASE UNCHANGED life
  <2>1. server' = server /\ done' = done /\ fatal' = fatal /\ owner' = owner
    BY <1>2 DEF life
  <2>2. Opening'
    BY <1>1, <2>1 DEF Opening
  <2>3. Ending'
    <3>1. server = "failed" => owner # None /\ (owner = "server" \/ ~Served)
      BY DEF RuntimeInv, Ending, Served
    <3> QED
      BY <1>1, <2>1, <3>1 DEF Ending, RuntimeInv
  <2> QED
    BY <2>1, <2>2, <2>3
<1>3. CASE FailStop
  <2>1. server' = server /\ done' = done /\ fatal' = TRUE /\ owner' = "server"
    BY <1>3, FailStopTyped
  <2>2. Opening'
    BY <1>1, <2>1 DEF Opening
  <2>3. Ending'
    BY <1>1, <2>1, RuntimeAssumption DEF Ending
  <2> QED
    BY <2>1, <2>2, <2>3
<1> QED
  BY <1>2, <1>3

\* An operation works on its brain, takes one or gives it up.
LEMMA WorkerStep ==
  ASSUME RuntimeInv, TypeOK', NEW o \in Op, NEW b \in Brain, op[o].pc # "idle",
         op[o].pc \in Working => op[o].brain = b,
         \A c \in Brain : c # b => SameBrain(c),
         \A x \in Op : x # o => ~WorksOn(x, b),
         \A x \in Op : x # o => Bystander(x, b),
         cell[b] # "engine",
         OpRow(o)', op'[o].pc \in Working => op'[o].brain = b,
         op'[o].pc \notin Working => Settled(b)',
         UNCHANGED life \/ FailStop, given' = given,
         thread'[b] = "running" => b \in schedulers' \/ (WorksOn(o, b)' /\ op'[o].pc = "publish"),
         cell'[b] = "engine" => b \in ledger'.brains
  PROVE  RuntimeInv'
<1>1. Served
  BY DEF Served, Quiet
<1>2. Opening' /\ Ending' /\ (fatal => fatal') /\ server' = server
  BY <1>1, LifeKept
<1>3. \A x \in Op : x # o =>
         /\ OpRow(x)'
         /\ op[x].pc \in Working \/ op'[x].pc \in Working => op'[x] = op[x]
  BY OthersKept
<1>4. \A x \in Op : OpRow(x)'
  BY <1>3
<1>5. \A x \in Op, c \in Brain : x # o => (WorksOn(x, c)' <=> WorksOn(x, c))
  BY <1>3 DEF WorksOn
<1>6. \A x \in Op : op'[x].pc \in Working => op'[x].brain \in Brain
  BY <1>4 DEF OpRow, Working
<1>7. OneWorker'
  <2> SUFFICES ASSUME NEW x \in Op, NEW y \in Op, op'[x].pc \in Working,
                      WorksOn(y, op[x].brain)'
               PROVE  x = y
    BY DEF OneWorker
  <2>1. op'[x].brain \in Brain /\ op'[y].pc \in Working /\ op'[y].brain = op'[x].brain
    BY <1>6 DEF WorksOn
  <2>2. CASE x # o /\ y # o
    <3>1. op'[x] = op[x] /\ op'[y] = op[y]
      BY <1>3, <2>1, <2>2
    <3> QED
      BY <2>1, <3>1 DEF RuntimeInv, OneWorker, WorksOn
  <2>3. CASE x = o /\ y # o
    <3>1. op'[y] = op[y] /\ op'[y].brain = b
      BY <1>3, <2>1, <2>3
    <3> QED
      BY <2>1, <2>3, <3>1 DEF WorksOn
  <2>4. CASE x # o /\ y = o
    <3>1. op'[x] = op[x] /\ op'[x].brain = b
      BY <1>3, <2>1, <2>4
    <3> QED
      BY <2>1, <2>4, <3>1 DEF WorksOn
  <2> QED
    BY <2>2, <2>3, <2>4
<1>8. ASSUME NEW c \in Brain PROVE BrainRow(c)'
  <2>1. CASE c # b
    <3>1. (\A x \in Op : ~WorksOn(x, c)') => \A x \in Op : ~WorksOn(x, c)
      BY <1>5, <2>1 DEF WorksOn
    <3>2. BrainRow(c) /\ SameBrain(c)
      BY <1>1, <2>1 DEF RuntimeInv
    <3> QED
      BY <1>2, <3>1, <3>2 DEF BrainRow, Settled, SameBrain, Absent, Complete
  <2>2. CASE c = b
    BY <2>2 DEF BrainRow, WorksOn
  <2> QED
    BY <2>1, <2>2
<1>9. ThreadsListed'
  <2> SUFFICES ASSUME NEW c \in Brain, thread'[c] = "running", c \notin schedulers'
               PROVE  \E x \in Op : op'[x].pc = "publish" /\ op'[x].brain = c
    BY DEF ThreadsListed
  <2>1. CASE c = b
    BY <2>1 DEF WorksOn
  <2>2. CASE c # b
    <3>1. thread[c] = "running" /\ c \notin schedulers
      BY <2>2 DEF SameBrain
    <3>2. PICK x \in Op : op[x].pc = "publish" /\ op[x].brain = c
      BY <3>1 DEF RuntimeInv, ThreadsListed
    <3>3. op[x].pc \in Working
      BY <3>2 DEF Working
    <3>4. x # o
      BY <2>2, <3>2, <3>3
    <3> QED
      BY <1>3, <3>2, <3>3, <3>4
  <2> QED
    BY <2>1, <2>2
<1>10. EnginesStored'
  <2>1. given \subseteq Brain /\ \A c \in given : cell[c] = "engine"
    BY DEF RuntimeInv, TypeOK, EnginesStored
  <2>2. \A c \in given' : cell'[c] = "engine"
    BY <2>1 DEF SameBrain
  <2>3. \A c \in Brain : cell'[c] = "engine" => c \in ledger'.brains
    BY DEF SameBrain, RuntimeInv, EnginesStored
  <2> QED
    BY <2>2, <2>3 DEF EnginesStored
<1> QED
  BY <1>2, <1>4, <1>7, <1>8, <1>9, <1>10 DEF RuntimeInv

\* An operation goes on that works on no brain.
LEMMA IdlerStep ==
  ASSUME RuntimeInv, TypeOK', Served, NEW o \in Op, NEW r \in OpType,
         op' = [op EXCEPT ![o] = r],
         op[o].pc \notin Working, r.pc \notin Working,
         \A c \in Brain : SameBrain(c),
         OpRow(o)', UNCHANGED life,
         \A c \in given' : cell'[c] = "engine"
  PROVE  RuntimeInv'
<1>1. Opening' /\ Ending' /\ (fatal => fatal')
  BY LifeKept
<1>2. op'[o] = r /\ \A x \in Op : x # o => op'[x] = op[x]
  BY OpFacts
<1>3. \A x \in Op : OpRow(x)'
  BY <1>2, RowKept
<1>4. \A x \in Op : \A c : WorksOn(x, c)' <=> WorksOn(x, c)
  BY <1>2 DEF WorksOn
<1>5. OneWorker'
  <2> SUFFICES ASSUME NEW x \in Op, NEW y \in Op, op'[x].pc \in Working,
                      WorksOn(y, op[x].brain)'
               PROVE  x = y
    BY DEF OneWorker
  <2>1. x # o /\ y # o
    BY <1>2 DEF WorksOn
  <2> QED
    BY <1>2, <2>1 DEF RuntimeInv, OneWorker, WorksOn
<1>6. ASSUME NEW c \in Brain PROVE BrainRow(c)'
  <2>1. BrainRow(c) /\ SameBrain(c)
    BY DEF RuntimeInv
  <2> QED
    BY <1>1, <1>4, <2>1 DEF BrainRow, Settled, SameBrain, Absent, Complete
<1>7. ThreadsListed'
  <2> SUFFICES ASSUME NEW c \in Brain, thread'[c] = "running", c \notin schedulers'
               PROVE  \E x \in Op : op'[x].pc = "publish" /\ op'[x].brain = c
    BY DEF ThreadsListed
  <2>1. thread[c] = "running" /\ c \notin schedulers
    BY DEF SameBrain
  <2>2. PICK x \in Op : op[x].pc = "publish" /\ op[x].brain = c
    BY <2>1 DEF RuntimeInv, ThreadsListed
  <2>3. x # o
    BY <2>2 DEF Working
  <2> QED
    BY <1>2, <2>2, <2>3
<1>8. EnginesStored'
  BY DEF EnginesStored, SameBrain, RuntimeInv
<1> QED
  BY <1>1, <1>3, <1>5, <1>6, <1>7, <1>8 DEF RuntimeInv

-----------------------------------------------------------------------------
(* The operations preserve the invariant *)

\* An operation that works on a brain is alone there.
LEMMA WorkerFacts ==
  ASSUME RuntimeInv, NEW o \in Op, op[o].pc \in Working
  PROVE  /\ op[o].brain \in Brain /\ op[o].pc # "idle"
         /\ \A x \in Op : x # o => ~WorksOn(x, op[o].brain)
         /\ cell[op[o].brain] \in {"open", "failed"}
<1>1. OpRow(o) /\ OneWorker
  BY DEF RuntimeInv
<1>2. op[o].brain \in Brain /\ op[o].pc # "idle" /\ cell[op[o].brain] \in {"open", "failed"}
  BY <1>1 DEF OpRow, Working
<1>3. \A x \in Op : x # o => ~WorksOn(x, op[o].brain)
  BY <1>1 DEF OneWorker
<1> QED
  BY <1>2, <1>3

\* The rows after one operation was replaced, and after those that waited for its
\* brain were answered too.
LEMMA RowsAfter ==
  ASSUME op \in [Op -> OpType], NEW o \in Op, NEW b, b = op[o].brain, NEW r
  PROVE  /\ Set(o, r) => /\ op'[o] = r
                         /\ \A x \in Op : x # o => op'[x] = op[x] /\ Bystander(x, b)
         /\ op' = Answered(o, r) => /\ op'[o] = r
                                    /\ \A x \in Op : x # o => Bystander(x, b)
BY DEF Set, Answered, Waiting, Bystander

\* What an operation does to its brain leaves the others alone.
LEMMA OneBrain ==
  ASSUME TypeOK, NEW b \in Brain,
         cell' = cell \/ \E v : cell' = [cell EXCEPT ![b] = v],
         thread' = thread \/ \E v : thread' = [thread EXCEPT ![b] = v],
         ledger'.brains \in {ledger.brains, ledger.brains \cup {b}, ledger.brains \ {b}},
         pending' \in {pending, pending \cup {b}, pending \ {b}},
         engines' \in {engines, engines \cup {b}},
         schedulers' \in {schedulers, schedulers \cup {b}}
  PROVE  \A c \in Brain : c # b => SameBrain(c)
BY DEF TypeOK, SameBrain

\* A request comes.
LEMMA BeginHolds ==
  ASSUME RuntimeInv, NEW o \in Op, Begin(o), TypeOK'
  PROVE  RuntimeInv'
<1>1. Served /\ op[o].pc = "idle" /\ op \in [Op -> OpType]
  BY OpFacts DEF Begin, Served
<1>2. /\ \A c \in Brain : SameBrain(c)
      /\ UNCHANGED life /\ given' = given /\ cell' = cell
  BY DEF Begin, memory, SameBrain
<1>3. PICK r : /\ Set(o, r)
               /\ \/ \E p \in Profile \cup {None} :
                        r = [Idle EXCEPT !.pc = "gate", !.profile = p]
                  \/ \E b \in given : r = [Idle EXCEPT !.pc = "cell", !.brain = b]
  BY DEF Begin
<1>4. \/ r.pc = "gate" /\ r.brain = None /\ r.undone = FALSE
      \/ r.pc = "cell" /\ r.brain \in given
  BY <1>3 DEF Idle
<1>5. op'[o] = r /\ r \in OpType /\ op' = [op EXCEPT ![o] = r]
  <2>1. op'[o] = r /\ op' = [op EXCEPT ![o] = r]
    BY <1>1, <1>3 DEF Set
  <2> QED
    BY <2>1 DEF TypeOK
<1>6. OpRow(o)'
  <2>1. given \subseteq Brain
    BY DEF RuntimeInv, TypeOK
  <2> QED
    BY <1>4, <1>5, <2>1 DEF OpRow
<1>7. op[o].pc \notin Working /\ r.pc \notin Working
  BY <1>1, <1>4 DEF Working
<1>8. \A c \in given' : cell'[c] = "engine"
  BY <1>2 DEF RuntimeInv, EnginesStored
<1> QED
  BY <1>1, <1>2, <1>5, <1>6, <1>7, <1>8, IdlerStep

\* A brain that nothing refers to is absent, and is reserved.
LEMMA ReserveHolds ==
  ASSUME RuntimeInv, NEW o \in Op, Reserve(o), TypeOK'
  PROVE  RuntimeInv'
<1>1. TypeOK /\ op \in [Op -> OpType] /\ op[o] \in OpType /\ OpRow(o) /\ op[o].pc = "gate"
  BY OpFacts DEF RuntimeInv, Reserve
<1>2. PICK b \in Fresh : /\ cell' = [cell EXCEPT ![b] = "open"]
                         /\ Set(o, [op[o] EXCEPT !.pc = "persist", !.brain = b])
  BY DEF Reserve
<1>3. b \in Brain /\ cell[b] = "none" /\ \A x \in Op : op[x].brain # b
  BY <1>2 DEF Fresh
<1>4. \A x \in Op : ~WorksOn(x, b)
  BY <1>3 DEF WorksOn
<1>5. Absent(b)
  <2>1. Served
    BY <1>1 DEF Served, Quiet
  <2> QED
    BY <1>3, <1>4, <2>1 DEF RuntimeInv, BrainRow, Settled
<1>6. /\ UNCHANGED life /\ given' = given /\ ledger' = ledger /\ pending' = pending
      /\ engines' = engines /\ schedulers' = schedulers /\ thread' = thread
  BY DEF Reserve
<1>7. \A c \in Brain : c # b => SameBrain(c)
  BY <1>1, <1>2, <1>6 DEF SameBrain, TypeOK
<1> DEFINE r == [op[o] EXCEPT !.pc = "persist", !.brain = b]
<1>8. /\ op'[o] = r /\ r.pc = "persist" /\ r.brain = b /\ r.undone = FALSE
      /\ \A x \in Op : x # o => op'[x] = op[x]
  BY <1>1, <1>2 DEF Set, OpType, OpRow
<1> HIDE DEF r
<1>9. cell'[b] = "open" /\ Absent(b)'
  BY <1>1, <1>2, <1>3, <1>5, <1>6 DEF TypeOK, Absent
<1>10. OpRow(o)'
  BY <1>3, <1>8, <1>9 DEF OpRow
<1>11. /\ op[o].pc # "idle" /\ op[o].pc \notin Working /\ op'[o].pc \in Working
       /\ op'[o].brain = b /\ cell[b] # "engine" /\ cell'[b] # "engine"
       /\ thread'[b] # "running"
  BY <1>1, <1>3, <1>8, <1>9 DEF Working, Absent
<1>12. \A x \in Op : x # o => Bystander(x, b)
  BY <1>8 DEF Bystander
<1> QED
  BY <1>3, <1>4, <1>6, <1>7, <1>10, <1>11, <1>12, WorkerStep

\* A reservation that is not needed leaves its brain absent.
LEMMA PersistFoundHolds ==
  ASSUME RuntimeInv, NEW o \in Op, PersistFound(o), TypeOK'
  PROVE  RuntimeInv'
<1> SUFFICES ASSUME NEW b, b = op[o].brain PROVE RuntimeInv'
  OBVIOUS
<1> DEFINE r == [op[o] EXCEPT !.pc = "cell", !.brain = ledger.profile[op[o].profile]]
<1>1. /\ TypeOK /\ op \in [Op -> OpType] /\ op[o] \in OpType /\ OpRow(o)
      /\ op[o].pc = "persist" /\ op[o].pc \in Working
  BY OpFacts DEF RuntimeInv, PersistFound, Working
<1>2. /\ b \in Brain /\ op[o].pc # "idle" /\ cell[b] \in {"open", "failed"}
      /\ \A x \in Op : x # o => ~WorksOn(x, b)
  BY <1>1, WorkerFacts
<1>3. /\ UNCHANGED life /\ given' = given /\ ledger' = ledger /\ pending' = pending
      /\ engines' = engines /\ schedulers' = schedulers /\ thread' = thread
      /\ cell' = [cell EXCEPT ![b] = "none"] /\ Set(o, r)
  BY DEF PersistFound
<1>4. Absent(b) /\ thread[b] = "none"
  BY <1>1 DEF OpRow, Absent
<1>5. \A c \in Brain : c # b => SameBrain(c)
  BY <1>1, <1>2, <1>3, OneBrain
<1>6. op'[o] = r /\ \A x \in Op : x # o => Bystander(x, b)
  BY <1>1, <1>3, RowsAfter
<1>7. r.pc = "cell" /\ r.brain \in Brain
  <2>1. ledger.profile[op[o].profile] \in Brain
    BY <1>1 DEF PersistFound, TypeOK, LedgerType, OpType
  <2> QED
    BY <1>1, <2>1 DEF OpType
<1> HIDE DEF r
<1>8. cell'[b] = "none" /\ Absent(b)'
  BY <1>1, <1>2, <1>3, <1>4 DEF TypeOK, Absent
<1>9. OpRow(o)' /\ op'[o].pc \notin Working
  BY <1>6, <1>7 DEF OpRow, Working
<1>10. Settled(b)'
  BY <1>8 DEF Settled
<1>11. thread'[b] # "running" /\ cell'[b] # "engine" /\ cell[b] # "engine"
  BY <1>2, <1>3, <1>4, <1>8
<1> QED
  BY <1>2, <1>3, <1>5, <1>6, <1>9, <1>10, <1>11, WorkerStep

\* The foundation is stored, or not, or nobody knows.
LEMMA PersistNewHolds ==
  ASSUME RuntimeInv, NEW o \in Op, PersistNew(o), TypeOK'
  PROVE  RuntimeInv'
<1> SUFFICES ASSUME NEW b, b = op[o].brain PROVE RuntimeInv'
  OBVIOUS
<1>1. /\ TypeOK /\ op \in [Op -> OpType] /\ op[o] \in OpType /\ OpRow(o)
      /\ op[o].pc = "persist" /\ op[o].pc \in Working
  BY OpFacts DEF RuntimeInv, PersistNew, Working
<1>2. /\ b \in Brain /\ op[o].pc # "idle" /\ cell[b] \in {"open", "failed"}
      /\ \A x \in Op : x # o => ~WorksOn(x, b)
  BY <1>1, WorkerFacts
<1>3. /\ given' = given /\ engines' = engines /\ schedulers' = schedulers /\ thread' = thread
  BY DEF PersistNew
<1>4. /\ Absent(b) /\ cell[b] = "open" /\ op[o].undone = FALSE
      /\ cell \in [Brain -> {"none", "open", "engine", "failed"}]
  BY <1>1, OpFacts DEF OpRow, OpType, TypeOK
<1>5. Created(op[o].profile, b).brains = ledger.brains \cup {b}
  BY <1>1 DEF Created, TypeOK, LedgerType
<1>6. ASSUME \A c \in Brain : c # b => SameBrain(c),
             NEW r, Set(o, r), OpRow(o)', r.pc \in Working => r.brain = b,
             r.pc \notin Working => Settled(b)', UNCHANGED life \/ FailStop,
             cell'[b] # "engine"
      PROVE  RuntimeInv'
  <2>1. op'[o] = r /\ \A x \in Op : x # o => Bystander(x, b)
    BY <1>1, <1>6, RowsAfter
  <2>2. thread'[b] # "running"
    BY <1>3, <1>4 DEF Absent
  <2> QED
    BY <1>1, <1>2, <1>3, <1>4, <1>6, <2>1, <2>2, WorkerStep
<1>7. CASE /\ ledger' = Created(op[o].profile, b) /\ pending' = pending \cup {b}
           /\ Set(o, [op[o] EXCEPT !.pc = "start", !.owned = TRUE])
           /\ UNCHANGED <<cell, life, faults>>
  <2> DEFINE r == [op[o] EXCEPT !.pc = "start", !.owned = TRUE]
  <2>1. \A c \in Brain : c # b => SameBrain(c)
    BY <1>1, <1>2, <1>3, <1>5, <1>7, OneBrain
  <2>2. /\ op'[o] = r /\ r.pc = "start" /\ r.brain = b /\ r.undone = FALSE /\ r.owned = TRUE
    BY <1>1, <1>4, <1>7, RowsAfter DEF OpType
  <2> HIDE DEF r
  <2>3. Founded(b)' /\ thread'[b] = "none" /\ cell'[b] = "open"
    BY <1>3, <1>4, <1>5, <1>7 DEF Absent, Founded
  <2>4. OpRow(o)' /\ r.pc \in Working
    BY <1>2, <2>2, <2>3 DEF OpRow, Working
  <2> QED
    BY <1>6, <1>7, <2>1, <2>2, <2>3, <2>4 DEF r
<1>8. Idle.pc \notin Working /\ Idle.pc = "idle" /\ Idle.brain = None
  BY DEF Idle, Working
<1>9. End(o) => Set(o, Idle) /\ OpRow(o)'
  <2>1. End(o) => op'[o] = Idle
    BY <1>1, RowsAfter DEF End
  <2> QED
    BY <1>8, <2>1 DEF End, OpRow
<1>10. CASE /\ cell' = [cell EXCEPT ![b] = "none"] /\ End(o)
            /\ UNCHANGED <<ledger, pending, life>>
  <2>1. \A c \in Brain : c # b => SameBrain(c)
    BY <1>1, <1>2, <1>3, <1>10, OneBrain
  <2>2. Settled(b)' /\ cell'[b] # "engine"
    BY <1>2, <1>3, <1>4, <1>10 DEF Settled, Absent
  <2> QED
    BY <1>6, <1>8, <1>9, <1>10, <2>1, <2>2
<1>11. CASE /\ ledger' = Created(op[o].profile, b) /\ cell' = [cell EXCEPT ![b] = "failed"]
            /\ FailStop /\ End(o) /\ UNCHANGED pending
  <2>1. \A c \in Brain : c # b => SameBrain(c)
    BY <1>1, <1>2, <1>3, <1>5, <1>11, OneBrain
  <2>2. Settled(b)' /\ cell'[b] # "engine"
    BY <1>2, <1>4, <1>11, FailStopTyped DEF Settled
  <2> QED
    BY <1>6, <1>8, <1>9, <1>11, <2>1, <2>2
<1> QED
  BY <1>7, <1>10, <1>11 DEF PersistNew

\* A cell that is not claimed is that of no brain, as long as requests run.
LEMMA LookUpHolds ==
  ASSUME RuntimeInv, NEW o \in Op, LookUp(o), TypeOK'
  PROVE  RuntimeInv'
<1> SUFFICES ASSUME NEW b, b = op[o].brain PROVE RuntimeInv'
  OBVIOUS
<1>1. /\ TypeOK /\ op \in [Op -> OpType] /\ op[o] \in OpType /\ OpRow(o)
      /\ op[o].pc = "cell" /\ op[o].pc \notin Working /\ b \in Brain /\ Served
  BY OpFacts DEF RuntimeInv, LookUp, Working, Served, Quiet
<1>2. cell[b] = "none" => b \notin ledger.brains
  <2>1. ASSUME NEW x \in Op, WorksOn(x, b) PROVE cell[b] # "none"
    BY <2>1, WorkerFacts DEF WorksOn
  <2>2. ASSUME \A x \in Op : ~WorksOn(x, b), cell[b] = "none" PROVE b \notin ledger.brains
    BY <1>1, <2>2 DEF RuntimeInv, BrainRow, Settled, Absent
  <2> QED
    BY <2>1, <2>2
<1>3. cell[b] \in {"none", "open", "engine", "failed"}
  BY <1>1 DEF TypeOK
<1>4. /\ cell' = cell
      /\ \/ Go(o, "use") /\ cell[b] = "engine"
         \/ Go(o, "wait") \/ End(o)
  BY <1>2, <1>3 DEF LookUp
<1>5. /\ \A c \in Brain : SameBrain(c)
      /\ UNCHANGED life /\ given' = given
  BY <1>4 DEF LookUp, SameBrain
<1>6. PICK r \in OpType : /\ Set(o, r) /\ r.pc \in {"use", "wait", "idle"}
                          /\ r.pc = "use" => cell[b] = "engine"
                          /\ r.pc = "idle" => r.brain = None
                          /\ r.pc # "idle" => r.brain = b
  <2>1. CASE End(o)
    <3>1. Idle \in OpType /\ Idle.pc = "idle" /\ Idle.brain = None
      BY DEF Idle, OpType
    <3> QED
      BY <2>1, <3>1 DEF End
  <2>2. ASSUME NEW pc \in {"use", "wait"}, Go(o, pc), pc = "use" => cell[b] = "engine"
        PROVE  \E r \in OpType : /\ Set(o, r) /\ r.pc \in {"use", "wait", "idle"}
                                 /\ r.pc = "use" => cell[b] = "engine"
                                 /\ r.pc = "idle" => r.brain = None
                                 /\ r.pc # "idle" => r.brain = b
    <3> DEFINE r == [op[o] EXCEPT !.pc = pc]
    <3>1. r \in OpType /\ r.pc = pc /\ r.brain = b
      BY <1>1 DEF OpType
    <3>2. Set(o, r)
      BY <2>2 DEF Go
    <3> HIDE DEF r
    <3> QED
      BY <2>2, <3>1, <3>2
  <2> QED
    BY <1>4, <2>1, <2>2
<1>7. op'[o] = r /\ op' = [op EXCEPT ![o] = r]
  BY <1>1, <1>6 DEF Set
<1>8. OpRow(o)' /\ r.pc \notin Working
  BY <1>1, <1>4, <1>6, <1>7 DEF OpRow, Working
<1>9. \A c \in given' : cell'[c] = "engine"
  BY <1>4, <1>5 DEF RuntimeInv, EnginesStored
<1> QED
  BY <1>1, <1>5, <1>6, <1>7, <1>8, <1>9, IdlerStep

\* The engine of the brain could not be made: the brain is left with an error in
\* its cell until its foundation is compensated.
LEMMA StartFailedHolds ==
  ASSUME RuntimeInv, TypeOK', NEW o \in Op, StartFailed(o),
         op[o].pc \in {"start", "publish", "register"},
         thread' = [thread EXCEPT ![op[o].brain] = "none"],
         ledger' = ledger, pending' = pending, engines' = engines,
         schedulers' = schedulers, given' = given, UNCHANGED life
  PROVE  RuntimeInv'
<1> SUFFICES ASSUME NEW b, b = op[o].brain PROVE RuntimeInv'
  OBVIOUS
<1>1. /\ TypeOK /\ op \in [Op -> OpType] /\ op[o] \in OpType /\ OpRow(o)
      /\ op[o].pc \in Working
  BY OpFacts DEF RuntimeInv, Working
<1>2. /\ b \in Brain /\ op[o].pc # "idle" /\ cell[b] \in {"open", "failed"}
      /\ \A x \in Op : x # o => ~WorksOn(x, b)
  BY <1>1, WorkerFacts
<1>3. op[o].owned /\ op[o].undone = FALSE
  BY <1>1 DEF OpRow, OpType
<1> DEFINE r == [op[o] EXCEPT !.pc = "compensate"]
<1>4. cell' = [cell EXCEPT ![b] = "failed"] /\ op' = Answered(o, r)
  BY <1>3 DEF StartFailed
<1>5. \A c \in Brain : c # b => SameBrain(c)
  BY <1>1, <1>2, <1>4, OneBrain
<1>6. op'[o] = r /\ \A x \in Op : x # o => Bystander(x, b)
  BY <1>1, <1>4, RowsAfter
<1>7. r.pc = "compensate" /\ r.brain = b /\ r.owned /\ r.undone = FALSE
  BY <1>1, <1>3 DEF OpType
<1> HIDE DEF r
<1>8. cell'[b] = "failed" /\ thread'[b] = "none"
  BY <1>1, <1>2, <1>4 DEF TypeOK
<1>9. OpRow(o)' /\ op'[o].pc \in Working /\ op'[o].brain = b
  BY <1>2, <1>6, <1>7, <1>8 DEF OpRow, Working
<1>10. thread'[b] # "running" /\ cell'[b] # "engine" /\ cell[b] # "engine"
  BY <1>2, <1>8
<1> QED
  BY <1>1, <1>2, <1>5, <1>6, <1>9, <1>10, WorkerStep

\* A scheduler that was started is stopped, or kept among those to be stopped.
LEMMA UndoHolds ==
  ASSUME RuntimeInv, TypeOK', NEW o \in Op, Undo(o), op[o].pc \in {"publish", "register"},
         ledger' = ledger, pending' = pending, engines' = engines, given' = given
  PROVE  RuntimeInv'
<1> SUFFICES ASSUME NEW b, b = op[o].brain PROVE RuntimeInv'
  OBVIOUS
<1>1. /\ TypeOK /\ op \in [Op -> OpType] /\ op[o] \in OpType /\ OpRow(o)
      /\ op[o].pc \in Working
  BY OpFacts DEF RuntimeInv, Working
<1>2. /\ b \in Brain /\ op[o].pc # "idle" /\ cell[b] \in {"open", "failed"}
      /\ \A x \in Op : x # o => ~WorksOn(x, b)
  BY <1>1, WorkerFacts
<1>3. CASE /\ thread' = [thread EXCEPT ![b] = "none"] /\ StartFailed(o)
           /\ UNCHANGED <<schedulers, life>>
  BY <1>3, StartFailedHolds
<1>4. CASE /\ schedulers' = schedulers \cup {b} /\ cell' = [cell EXCEPT ![b] = "failed"]
           /\ op' = Answered(o, Idle) /\ FailStop /\ UNCHANGED thread
  <2>1. \A c \in Brain : c # b => SameBrain(c)
    BY <1>1, <1>2, <1>4, OneBrain
  <2>2. op'[o] = Idle /\ \A x \in Op : x # o => Bystander(x, b)
    BY <1>1, <1>4, RowsAfter
  <2>3. OpRow(o)' /\ op'[o].pc \notin Working
    BY <2>2 DEF OpRow, Idle, Working
  <2>4. cell'[b] = "failed"
    BY <1>1, <1>2, <1>4 DEF TypeOK
  <2>5. Settled(b)'
    BY <1>4, <2>4, FailStopTyped DEF Settled
  <2>6. b \in schedulers' /\ cell'[b] # "engine" /\ cell[b] # "engine"
    BY <1>2, <1>4, <2>4
  <2> QED
    BY <1>1, <1>2, <1>4, <2>1, <2>2, <2>3, <2>5, <2>6, WorkerStep
<1> QED
  BY <1>3, <1>4 DEF Undo

\* The engine is made and its scheduler started.
LEMMA StartHolds ==
  ASSUME RuntimeInv, NEW o \in Op, Start(o), TypeOK'
  PROVE  RuntimeInv'
<1> SUFFICES ASSUME NEW b, b = op[o].brain PROVE RuntimeInv'
  OBVIOUS
<1>1. /\ TypeOK /\ op \in [Op -> OpType] /\ op[o] \in OpType /\ OpRow(o)
      /\ op[o].pc = "start" /\ op[o].pc \in Working
  BY OpFacts DEF RuntimeInv, Working, Start
<1>2. /\ b \in Brain /\ op[o].pc # "idle" /\ cell[b] \in {"open", "failed"}
      /\ \A x \in Op : x # o => ~WorksOn(x, b)
  BY <1>1, WorkerFacts
<1>3. /\ ledger' = ledger /\ pending' = pending /\ engines' = engines
      /\ schedulers' = schedulers /\ given' = given /\ UNCHANGED life
  BY DEF Start
<1>4. /\ Founded(b) /\ thread[b] = "none" /\ cell[b] = "open"
      /\ op[o].owned /\ op[o].undone = FALSE
  BY <1>1 DEF OpRow, OpType
<1>5. CASE StartFailed(o) /\ UNCHANGED thread
  <2>1. thread' = [thread EXCEPT ![b] = "none"]
    BY <1>1, <1>4, <1>5 DEF TypeOK
  <2> QED
    BY <1>1, <1>3, <1>5, <2>1, StartFailedHolds
<1>6. CASE /\ thread' = [thread EXCEPT ![b] = "running"] /\ Go(o, "publish")
           /\ UNCHANGED cell
  <2> DEFINE r == [op[o] EXCEPT !.pc = "publish"]
  <2>1. op'[o] = r /\ \A x \in Op : x # o => Bystander(x, b)
    BY <1>1, <1>6, RowsAfter DEF Go
  <2>2. r.pc = "publish" /\ r.brain = b /\ r.owned /\ r.undone = FALSE
    BY <1>1, <1>4 DEF OpType
  <2> HIDE DEF r
  <2>3. \A c \in Brain : c # b => SameBrain(c)
    BY <1>1, <1>2, <1>3, <1>6, OneBrain
  <2>4. Founded(b)' /\ thread'[b] = "running" /\ cell'[b] = "open"
    BY <1>1, <1>2, <1>3, <1>4, <1>6 DEF Founded, TypeOK
  <2>5. OpRow(o)' /\ op'[o].pc \in Working /\ WorksOn(o, b)'
    BY <1>2, <2>1, <2>2, <2>4 DEF OpRow, Working, WorksOn
  <2>6. cell'[b] # "engine" /\ cell[b] # "engine" /\ op'[o].pc = "publish" /\ op'[o].brain = b
    BY <1>4, <2>1, <2>2, <2>4
  <2> QED
    BY <1>1, <1>2, <1>3, <2>1, <2>3, <2>5, <2>6, WorkerStep
<1> QED
  BY <1>5, <1>6 DEF Start

\* Engine and scheduler are published, unless the daemon has stopped meanwhile.
LEMMA PublishHolds ==
  ASSUME RuntimeInv, NEW o \in Op, Publish(o), TypeOK'
  PROVE  RuntimeInv'
<1> SUFFICES ASSUME NEW b, b = op[o].brain PROVE RuntimeInv'
  OBVIOUS
<1>1. /\ TypeOK /\ op \in [Op -> OpType] /\ op[o] \in OpType /\ OpRow(o)
      /\ op[o].pc = "publish" /\ op[o].pc \in Working
  BY OpFacts DEF RuntimeInv, Working, Publish
<1>2. /\ b \in Brain /\ op[o].pc # "idle" /\ cell[b] \in {"open", "failed"}
      /\ \A x \in Op : x # o => ~WorksOn(x, b)
  BY <1>1, WorkerFacts
<1>3. ledger' = ledger /\ given' = given
  BY DEF Publish
<1>4. /\ Founded(b) /\ thread[b] = "running" /\ cell[b] = "open"
      /\ op[o].owned /\ op[o].undone = FALSE
  BY <1>1 DEF OpRow, OpType
<1>5. CASE fatal
  BY <1>1, <1>3, <1>5, UndoHolds DEF Publish
<1>6. CASE ~fatal
  <2> DEFINE r == [op[o] EXCEPT !.pc = "register"]
  <2>1. /\ pending' = pending \ {b} /\ engines' = engines \cup {b}
        /\ schedulers' = schedulers \cup {b} /\ Go(o, "register")
        /\ cell' = cell /\ thread' = thread /\ UNCHANGED life
    BY <1>6 DEF Publish
  <2>2. op'[o] = r /\ \A x \in Op : x # o => Bystander(x, b)
    BY <1>1, <2>1, RowsAfter DEF Go
  <2>3. r.pc = "register" /\ r.brain = b /\ r.owned /\ r.undone = FALSE
    BY <1>1, <1>4 DEF OpType
  <2> HIDE DEF r
  <2>4. \A c \in Brain : c # b => SameBrain(c)
    BY <1>1, <1>2, <1>3, <2>1, OneBrain
  <2>5. Complete(b)' /\ cell'[b] = "open"
    BY <1>3, <1>4, <2>1 DEF Founded, Complete
  <2>6. OpRow(o)' /\ op'[o].pc \in Working /\ op'[o].brain = b
    BY <1>2, <2>2, <2>3, <2>5 DEF OpRow, Working
  <2>7. b \in schedulers' /\ cell'[b] # "engine" /\ cell[b] # "engine"
    BY <1>4, <2>1
  <2> QED
    BY <1>1, <1>2, <1>3, <2>1, <2>2, <2>4, <2>6, <2>7, WorkerStep
<1> QED
  BY <1>5, <1>6

\* The cell gets its engine and those that waited for it go on.
LEMMA RegisterHolds ==
  ASSUME RuntimeInv, NEW o \in Op, Register(o), TypeOK'
  PROVE  RuntimeInv'
<1> SUFFICES ASSUME NEW b, b = op[o].brain PROVE RuntimeInv'
  OBVIOUS
<1>1. /\ TypeOK /\ op \in [Op -> OpType] /\ op[o] \in OpType /\ OpRow(o)
      /\ op[o].pc = "register" /\ op[o].pc \in Working
  BY OpFacts DEF RuntimeInv, Working, Register
<1>2. /\ b \in Brain /\ op[o].pc # "idle" /\ cell[b] \in {"open", "failed"}
      /\ \A x \in Op : x # o => ~WorksOn(x, b)
  BY <1>1, WorkerFacts
<1>3. ledger' = ledger /\ given' = given /\ pending' = pending /\ engines' = engines
  BY DEF Register
<1>4. Complete(b) /\ cell[b] = "open"
  BY <1>1 DEF OpRow
<1>5. CASE Undo(o)
  BY <1>1, <1>3, <1>5, UndoHolds
<1>6. CASE /\ cell' = [cell EXCEPT ![b] = "engine"]
           /\ op' = [x \in Op |-> IF x = o \/ x \in Waiting(b)
                                     THEN [op[x] EXCEPT !.pc = "use"] ELSE op[x]]
           /\ UNCHANGED <<thread, schedulers, life, faults>>
  <2>1. cell'[b] = "engine"
    BY <1>1, <1>2, <1>6 DEF TypeOK
  <2>2. op'[o].pc = "use" /\ op'[o].brain = b
    BY <1>1, <1>6 DEF OpType
  <2>3. \A x \in Op : x # o => Bystander(x, b)
    BY <1>6, <2>1 DEF Bystander, Waiting
  <2>4. \A c \in Brain : c # b => SameBrain(c)
    BY <1>1, <1>2, <1>3, <1>6, OneBrain
  <2>5. Complete(b)'
    BY <1>3, <1>4, <1>6 DEF Complete
  <2>6. Settled(b)' /\ b \in schedulers' /\ b \in ledger'.brains
    BY <2>1, <2>5 DEF Settled, Complete
  <2>7. OpRow(o)' /\ op'[o].pc \notin Working
    BY <1>2, <2>1, <2>2 DEF OpRow, Working
  <2>8. UNCHANGED life /\ cell[b] # "engine"
    BY <1>4, <1>6
  <2> QED
    BY <1>1, <1>2, <1>3, <2>3, <2>4, <2>6, <2>7, <2>8, WorkerStep
<1> QED
  BY <1>5, <1>6 DEF Register

\* Compensation deletes at most the foundation.
LEMMA CompensateHolds ==
  ASSUME RuntimeInv, NEW o \in Op, Compensate(o), TypeOK'
  PROVE  RuntimeInv'
<1> SUFFICES ASSUME NEW b, b = op[o].brain PROVE RuntimeInv'
  OBVIOUS
<1>1. /\ TypeOK /\ op \in [Op -> OpType] /\ op[o] \in OpType /\ OpRow(o)
      /\ op[o].pc = "compensate" /\ op[o].pc \in Working
  BY OpFacts DEF RuntimeInv, Working, Compensate
<1>2. /\ b \in Brain /\ op[o].pc # "idle" /\ cell[b] \in {"open", "failed"}
      /\ \A x \in Op : x # o => ~WorksOn(x, b)
  BY <1>1, WorkerFacts
<1>3. /\ given' = given /\ pending' = pending /\ engines' = engines /\ cell' = cell
      /\ schedulers' = schedulers /\ thread' = thread /\ UNCHANGED life
  BY DEF Compensate, memory
<1>4. cell[b] = "failed" /\ thread[b] = "none" /\ op[o].undone = FALSE
  BY <1>1 DEF OpRow, OpType
<1>5. Without(b).brains = ledger.brains \ {b}
  BY <1>1 DEF Without, TypeOK, LedgerType
<1>6. \A c \in Brain : c # b => SameBrain(c)
  <2>1. ledger' \in {ledger, Without(b)}
    BY DEF Compensate
  <2> QED
    BY <1>1, <1>2, <1>3, <1>5, <2>1, OneBrain
<1>7. ASSUME NEW r, Set(o, r), OpRow(o)', r.pc \in Working => r.brain = b,
             r.pc \notin Working => Settled(b)'
      PROVE  RuntimeInv'
  <2>1. op'[o] = r /\ \A x \in Op : x # o => Bystander(x, b)
    BY <1>1, <1>7, RowsAfter
  <2> QED
    BY <1>1, <1>2, <1>3, <1>4, <1>6, <1>7, <2>1, WorkerStep
<1>8. CASE fatal
  <2>1. Set(o, Idle)
    BY <1>8 DEF Compensate, End
  <2>2. op'[o] = Idle
    BY <1>1, <2>1, RowsAfter
  <2>3. OpRow(o)' /\ Idle.pc \notin Working
    BY <2>2 DEF OpRow, Idle, Working
  <2>4. Settled(b)'
    BY <1>3, <1>4, <1>8 DEF Settled, life
  <2> QED
    BY <1>7, <2>1, <2>3, <2>4
<1>9. CASE ~fatal
  <2>1. PICK r : /\ Set(o, r) /\ r.pc = "clear" /\ r.brain = b
                 /\ r.undone => b \notin ledger'.brains
    <3>1. CASE /\ ledger' = IF Untouched(b) THEN Without(b) ELSE ledger
               /\ Set(o, [op[o] EXCEPT !.pc = "clear", !.undone = Untouched(b)])
      <4> DEFINE r == [op[o] EXCEPT !.pc = "clear", !.undone = Untouched(b)]
      <4>1. r.pc = "clear" /\ r.brain = b /\ r.undone = Untouched(b)
        BY <1>1 DEF OpType
      <4> HIDE DEF r
      <4>2. r.undone => b \notin ledger'.brains
        BY <1>5, <3>1, <4>1
      <4> QED
        BY <3>1, <4>1, <4>2 DEF r
    <3>2. CASE Go(o, "clear")
      <4> DEFINE r == [op[o] EXCEPT !.pc = "clear"]
      <4>1. r.pc = "clear" /\ r.brain = b /\ r.undone = FALSE
        BY <1>1, <1>4 DEF OpType
      <4> HIDE DEF r
      <4> QED
        BY <3>2, <4>1 DEF Go, r
    <3> QED
      BY <1>9, <3>1, <3>2 DEF Compensate
  <2>2. op'[o] = r
    BY <1>1, <2>1, RowsAfter
  <2>3. OpRow(o)' /\ r.pc \in Working
    BY <1>2, <1>3, <1>4, <2>1, <2>2 DEF OpRow, Working
  <2> QED
    BY <1>7, <2>1, <2>3
<1> QED
  BY <1>8, <1>9

\* A brain is cleared away if nothing of it is left, or the daemon stops.
LEMMA ClearHolds ==
  ASSUME RuntimeInv, NEW o \in Op, Clear(o), TypeOK'
  PROVE  RuntimeInv'
<1> SUFFICES ASSUME NEW b, b = op[o].brain PROVE RuntimeInv'
  OBVIOUS
<1>1. /\ TypeOK /\ op \in [Op -> OpType] /\ op[o] \in OpType /\ OpRow(o)
      /\ op[o].pc = "clear" /\ op[o].pc \in Working
  BY OpFacts DEF RuntimeInv, Working, Clear
<1>2. /\ b \in Brain /\ op[o].pc # "idle" /\ cell[b] \in {"open", "failed"}
      /\ \A x \in Op : x # o => ~WorksOn(x, b)
  BY <1>1, WorkerFacts
<1>3. /\ ledger' = ledger /\ given' = given /\ engines' = engines
      /\ schedulers' = schedulers /\ thread' = thread /\ Set(o, Idle)
  BY DEF Clear, End
<1>4. cell[b] = "failed" /\ thread[b] = "none" /\ (op[o].undone => b \notin ledger.brains)
  BY <1>1 DEF OpRow
<1>5. op'[o] = Idle /\ \A x \in Op : x # o => Bystander(x, b)
  BY <1>1, <1>3, RowsAfter
<1>6. OpRow(o)' /\ op'[o].pc \notin Working
  BY <1>5 DEF OpRow, Idle, Working
<1>7. /\ \A c \in Brain : c # b => SameBrain(c)
      /\ Settled(b)' /\ cell'[b] # "engine" /\ (UNCHANGED life \/ FailStop)
  <2>1. CASE op[o].undone /\ b \in pending /\ b \notin engines \cup schedulers
    <3>1. pending' = pending \ {b} /\ cell' = [cell EXCEPT ![b] = "none"] /\ UNCHANGED life
      BY <2>1 DEF Clear
    <3>2. \A c \in Brain : c # b => SameBrain(c)
      BY <1>1, <1>2, <1>3, <3>1, OneBrain
    <3>3. cell'[b] = "none" /\ Absent(b)'
      BY <1>1, <1>2, <1>3, <1>4, <2>1, <3>1 DEF Absent, TypeOK
    <3> QED
      BY <3>1, <3>2, <3>3 DEF Settled
  <2>2. CASE ~(op[o].undone /\ b \in pending /\ b \notin engines \cup schedulers)
    <3>1. FailStop /\ pending' = pending /\ cell' = cell
      BY <2>2 DEF Clear
    <3>2. \A c \in Brain : c # b => SameBrain(c)
      BY <1>1, <1>2, <1>3, <3>1, OneBrain
    <3>3. Settled(b)'
      BY <1>4, <3>1, FailStopTyped DEF Settled
    <3> QED
      BY <1>4, <3>1, <3>2, <3>3
  <2> QED
    BY <2>1, <2>2
<1> QED
  BY <1>1, <1>2, <1>3, <1>4, <1>5, <1>6, <1>7, WorkerStep

\* The client is given a brain that has its engine.
LEMMA AnswerHolds ==
  ASSUME RuntimeInv, NEW o \in Op, Answer(o), TypeOK'
  PROVE  RuntimeInv'
<1>1. /\ TypeOK /\ op \in [Op -> OpType] /\ OpRow(o) /\ op[o].pc = "use"
      /\ op[o].pc \notin Working /\ Served
  BY OpFacts DEF RuntimeInv, Answer, Working, Served, Quiet
<1>2. op' = [op EXCEPT ![o] = Idle] /\ Idle \in OpType /\ op'[o] = Idle
  BY <1>1 DEF Answer, End, Set, Idle, OpType
<1>3. Idle.pc \notin Working /\ OpRow(o)'
  BY <1>2 DEF OpRow, Idle, Working
<1>4. /\ ledger'.brains = ledger.brains /\ cell' = cell /\ thread' = thread
      /\ pending' = pending /\ engines' = engines /\ schedulers' = schedulers
      /\ UNCHANGED life /\ given' = given \cup {op[o].brain}
  BY <1>1 DEF Answer, memory, TypeOK, LedgerType
<1>5. \A c \in Brain : SameBrain(c)
  BY <1>4 DEF SameBrain
<1>6. \A c \in given' : cell'[c] = "engine"
  BY <1>1, <1>4 DEF OpRow, RuntimeInv, EnginesStored
<1> QED
  BY <1>1, <1>2, <1>3, <1>4, <1>5, <1>6, IdlerStep

\* Every step of an operation preserves the invariant.
LEMMA OpHolds ==
  ASSUME RuntimeInv, NEW o \in Op, Begin(o) \/ OpStep(o)
  PROVE  RuntimeInv'
<1>1. TypeOK'
  BY OpStepTyped
<1> QED
  BY <1>1, BeginHolds, ReserveHolds, PersistFoundHolds, PersistNewHolds, LookUpHolds,
     StartHolds, PublishHolds, RegisterHolds, CompensateHolds, ClearHolds, AnswerHolds
  DEF OpStep

-----------------------------------------------------------------------------
(* The life of the daemon preserves the invariant *)

\* A step that leaves the operations, and what is known of every brain, alone.
LEMMA LifeStep ==
  ASSUME RuntimeInv, TypeOK', op' = op, \A c \in Brain : SameBrain(c), given' = given,
         fatal => fatal', Served' => Served, Opening', Ending'
  PROVE  RuntimeInv'
<1>1. \A x \in Op : OpRow(x)'
  BY RowKept
<1>2. OneWorker'
  BY DEF RuntimeInv, OneWorker, WorksOn
<1>3. ASSUME Served', NEW c \in Brain PROVE BrainRow(c)'
  <2>1. BrainRow(c) /\ SameBrain(c)
    BY <1>3 DEF RuntimeInv
  <2> QED
    BY <2>1 DEF BrainRow, WorksOn, Settled, SameBrain, Absent, Complete
<1>4. ThreadsListed'
  BY DEF RuntimeInv, ThreadsListed, SameBrain
<1>5. given \subseteq Brain
  BY DEF RuntimeInv, TypeOK
<1>6. EnginesStored'
  BY <1>5 DEF RuntimeInv, EnginesStored, SameBrain
<1> QED
  BY <1>1, <1>2, <1>3, <1>4, <1>6 DEF RuntimeInv

\* A scheduler appends a pulse: the brain was there.
LEMMA PulseHolds ==
  ASSUME RuntimeInv, NEW b \in Brain, Pulse(b)
  PROVE  RuntimeInv'
<1>1. TypeOK
  BY DEF RuntimeInv
<1>2. /\ ledger' = [ledger EXCEPT !.used = @ \cup {b}]
      /\ cell' = cell /\ pending' = pending /\ engines' = engines
      /\ schedulers' = schedulers /\ thread' = thread /\ gate' = gate /\ op' = op
      /\ server' = server /\ done' = done /\ fatal' = fatal /\ closing' = closing
      /\ owner' = owner /\ given' = given /\ faults' = faults
  BY DEF Pulse, memory, life
<1>3. ledger' \in LedgerType /\ ledger'.brains = ledger.brains
  BY <1>1, <1>2 DEF TypeOK, LedgerType
<1>4. TypeOK'
  BY <1>1, <1>2, <1>3 DEF TypeOK
<1>5. \A c \in Brain : SameBrain(c)
  BY <1>2, <1>3 DEF SameBrain
<1>6. Quiet' <=> Quiet
  BY <1>2 DEF Quiet
<1>7. Opening'
  BY <1>2, <1>3, <1>6 DEF RuntimeInv, Opening, Complete
<1>8. Ending'
  BY <1>2, <1>6 DEF RuntimeInv, Ending
<1> QED
  BY <1>2, <1>4, <1>5, <1>6, <1>7, <1>8, LifeStep DEF Served

\* A step of the daemon that changes neither ledger nor memory nor operations, nor
\* begins to serve.
LEMMA OwnerStep ==
  ASSUME RuntimeInv, TypeOK', UNCHANGED <<ledger, memory, op, given>>, done' = done,
         fatal => fatal', server \notin {"starting", "closed"},
         server' = server \/ server' \notin {"starting", "serving", "closed"},
         server' = "closing" => Quiet,
         server' = "failed" => owner' # None /\ (owner' = "server" \/ Quiet),
         fatal' /\ server' = "serving" => owner' # None
  PROVE  RuntimeInv'
<1>1. /\ ledger' = ledger /\ cell' = cell /\ pending' = pending /\ engines' = engines
      /\ schedulers' = schedulers /\ thread' = thread /\ op' = op /\ given' = given
  BY DEF memory
<1>2. \A c \in Brain : SameBrain(c)
  BY <1>1 DEF SameBrain
<1>3. (Quiet' <=> Quiet) /\ (Served' => Served)
  BY <1>1 DEF Quiet, Served
<1>4. Opening'
  BY DEF Opening
<1>5. Ending'
  BY <1>1, <1>3 DEF RuntimeInv, Ending
<1> QED
  BY <1>1, <1>2, <1>3, <1>4, <1>5, LifeStep

\* The snapshot worker stops the daemon.
LEMMA WorkerFailsHolds ==
  ASSUME RuntimeInv, WorkerFails
  PROVE  RuntimeInv'
<1>1. TypeOK /\ Ending
  BY DEF RuntimeInv
<1>2. /\ fatal' = TRUE /\ closing' = TRUE /\ owner' = "server" /\ server' = server
      /\ done' = done /\ UNCHANGED <<ledger, memory, op, given>> /\ server # "starting"
  BY FailStopTyped DEF WorkerFails
<1>3. faults' \in 0 .. MaxFaults
  BY <1>1, FaultTyped DEF WorkerFails, TypeOK
<1>4. TypeOK'
  BY <1>1, <1>2, <1>3 DEF TypeOK, memory
<1>5. done \in 0 .. 6
  BY <1>1, StepNames DEF TypeOK
<1>6. ~Done("worker") => done # 6
  <2>1. 2 \in 1 .. 6 /\ CloseSteps[2] = "worker"
    BY DEF CloseSteps
  <2> QED
    BY <2>1 DEF Done
<1>7. server # "closed"
  BY <1>1, <1>6 DEF Ending, WorkerFails
<1>8. owner' # None /\ (server = "closing" => Quiet)
  BY <1>1, <1>2, RuntimeAssumption DEF Ending
<1> QED
  BY <1>2, <1>4, <1>7, <1>8, OwnerStep

\* No more requests are accepted.
LEMMA ShutdownHolds ==
  ASSUME RuntimeInv, Shutdown
  PROVE  RuntimeInv'
<1>1. TypeOK
  BY DEF RuntimeInv
<1>2. TypeOK'
  BY <1>1 DEF TypeOK, Shutdown, memory, Claimed
<1> QED
  BY <1>2, OwnerStep DEF Shutdown

\* The server waits for its handlers, or is kept with everything.
LEMMA DrainHolds ==
  ASSUME RuntimeInv, Drain
  PROVE  RuntimeInv'
<1>1. TypeOK
  BY DEF RuntimeInv
<1>2. CASE Quiet /\ server' = "closing" /\ closing' = TRUE
           /\ owner' = Claimed("runtime") /\ UNCHANGED faults
  <2>1. TypeOK'
    BY <1>1, <1>2 DEF TypeOK, Drain, memory, Claimed
  <2> QED
    BY <1>2, <2>1, OwnerStep DEF Drain
<1>3. CASE ~Quiet /\ Fault /\ server' = "failed"
           /\ owner' = Retained("server") /\ UNCHANGED closing
  <2>1. owner' = "server" /\ faults' \in 0 .. MaxFaults
    BY <1>1, <1>3, FaultTyped DEF Retained, TypeOK
  <2>2. TypeOK'
    BY <1>1, <1>3, <2>1 DEF TypeOK, Drain, memory
  <2>3. owner' # None
    BY <2>1, RuntimeAssumption
  <2> QED
    BY <1>3, <2>1, <2>2, <2>3, OwnerStep DEF Drain
<1> QED
  BY <1>2, <1>3 DEF Drain

\* The owner that was retained tries again.
LEMMA RetryHolds ==
  ASSUME RuntimeInv, Retry
  PROVE  RuntimeInv'
<1>1. TypeOK /\ Ending
  BY DEF RuntimeInv
<1>2. TypeOK'
  BY <1>1 DEF TypeOK, Retry, memory
<1>3. server' = "closing" => Quiet
  BY <1>1 DEF Ending, Retry
<1> QED
  BY <1>2, <1>3, OwnerStep DEF Retry

\* A step of close: after the first no thread runs, and the last releases the lease.
LEMMA CloseStepHolds ==
  ASSUME RuntimeInv, CloseStep
  PROVE  RuntimeInv'
<1>1. TypeOK /\ Quiet /\ ThreadsListed /\ Ending /\ done \in 0 .. 6
  BY StepNames DEF RuntimeInv, Ending, CloseStep, TypeOK
<1>2. /\ ledger' = ledger /\ cell' = cell /\ pending' = pending /\ engines' = engines
      /\ schedulers' = schedulers /\ gate' = gate /\ op' = op /\ fatal' = fatal
      /\ closing' = closing /\ given' = given /\ server = "closing"
  BY DEF CloseStep
<1>3. Quiet' /\ (\A o \in Op : op[o].pc = "idle")
  BY <1>1, <1>2 DEF Quiet
<1>4. CASE /\ Fault /\ server' = "failed" /\ owner' = Retained("runtime")
           /\ UNCHANGED <<done, thread>>
  <2>1. owner' # None /\ owner' \in {"runtime", "server"} /\ faults' \in 0 .. MaxFaults
    BY <1>1, <1>4, FaultTyped, RuntimeAssumption DEF Retained, TypeOK
  <2>2. TypeOK'
    BY <1>1, <1>2, <1>4, <2>1 DEF TypeOK
  <2>3. UNCHANGED memory
    BY <1>2, <1>4 DEF memory
  <2> QED
    BY <1>1, <1>2, <1>4, <2>1, <2>2, <2>3, OwnerStep
<1>5. CASE /\ done' = done + 1
           /\ IF CloseSteps[done'] = "schedulers" THEN StopThreads ELSE UNCHANGED thread
           /\ IF CloseSteps[done'] = "lease" THEN server' = "closed" /\ owner' = None
              ELSE UNCHANGED <<server, owner>>
           /\ UNCHANGED faults
  <2>1. done \in 0 .. 5
    BY <1>1, <1>2 DEF Ending
  <2>2. done' \in 1 .. 6 /\ (done' = 1 <=> done = 0)
    BY <1>5, <2>1
  <2>3. /\ CloseSteps[done'] = "schedulers" <=> done' = 1
        /\ CloseSteps[done'] = "lease" <=> done' = 6
    BY <2>2, StepNames
  <2>4. /\ server' \in {"closing", "closed"} /\ (done' = 6 <=> server' = "closed")
        /\ owner' \in {None, "runtime", "server"}
    BY <1>1, <1>2, <1>5, <2>3 DEF TypeOK
  <2>5. thread' \in [Brain -> {"none", "running"}] /\ \A b \in Brain : thread'[b] = "none"
    <3>1. CASE done = 0
      <4>1. StopThreads
        BY <1>5, <2>2, <2>3, <3>1
      <4>2. \A b \in Brain : thread[b] \in {"none", "running"}
        BY <1>1 DEF TypeOK
      <4>3. \A b \in Brain : thread[b] = "running" => b \in schedulers
        BY <1>1, <1>3 DEF ThreadsListed
      <4> QED
        BY <4>1, <4>2, <4>3 DEF StopThreads
    <3>2. CASE done # 0
      <4>1. thread' = thread
        BY <1>5, <2>2, <2>3, <3>2
      <4> QED
        BY <1>1, <2>1, <3>2, <4>1 DEF Ending, TypeOK
    <3> QED
      BY <3>1, <3>2
  <2>6. TypeOK'
    BY <1>1, <1>2, <1>5, <2>2, <2>4, <2>5, StepNames DEF TypeOK
  <2>7. /\ \A o \in Op : OpRow(o)'
        /\ OneWorker'
    <3>1. \A o \in Op : OpRow(o)
      BY DEF RuntimeInv
    <3> QED
      BY <1>2, <1>3, <3>1 DEF OpRow, OneWorker, Working
  <2>8. ~Served'
    BY <1>3, <2>4 DEF Served
  <2>9. ThreadsListed'
    BY <2>5 DEF ThreadsListed
  <2>10. EnginesStored'
    BY <1>2 DEF RuntimeInv, EnginesStored
  <2>11. Opening' /\ Ending'
    BY <1>3, <2>4, <2>5 DEF Opening, Ending
  <2> QED
    BY <2>6, <2>7, <2>8, <2>9, <2>10, <2>11 DEF RuntimeInv
<1> QED
  BY <1>4, <1>5 DEF CloseStep

\* The daemon makes the engines of the brains it found, and then serves.
LEMMA OpenHolds ==
  ASSUME RuntimeInv, Open
  PROVE  RuntimeInv'
<1>1. TypeOK /\ Quiet /\ Opening /\ Ending /\ EnginesStored /\ server = "starting"
  BY DEF RuntimeInv, Opening, Open
<1>2. /\ done = 0 /\ ~fatal /\ ledger.brains = Old /\ pending = {} /\ engines \subseteq Old
      /\ \A b \in Brain :
            IF b \in engines THEN cell[b] = "engine" /\ Complete(b)
            ELSE cell[b] = "none" /\ b \notin schedulers /\ thread[b] = "none"
  BY <1>1 DEF Opening
<1>3. ledger' = ledger /\ op' = op /\ done' = done /\ fatal' = fatal /\ owner' = owner
  BY DEF Open
<1>4. Quiet' /\ (\A o \in Op : op[o].pc = "idle")
  BY <1>1, <1>3 DEF Quiet
<1>5. given' = IF server' = "serving" THEN Old ELSE given
  BY DEF Open
<1>6. (\A o \in Op : OpRow(o)') /\ OneWorker'
  <2>1. \A o \in Op : OpRow(o)
    BY DEF RuntimeInv
  <2> QED
    BY <1>3, <1>4, <2>1 DEF OpRow, OneWorker, Working
<1>7. CASE engines = Old /\ server' = "serving" /\ UNCHANGED <<memory, closing, faults>>
  <2>1. /\ cell' = cell /\ pending' = pending /\ engines' = engines
        /\ schedulers' = schedulers /\ thread' = thread /\ gate' = gate
        /\ closing' = closing /\ faults' = faults /\ given' = Old
    BY <1>5, <1>7 DEF memory
  <2>2. TypeOK'
    BY <1>1, <1>3, <1>7, <2>1, RuntimeAssumption DEF TypeOK
  <2>3. \A b \in Brain : BrainRow(b)'
    BY <1>2, <1>3, <1>7, <2>1 DEF BrainRow, Settled, Absent, Complete
  <2>4. ThreadsListed'
    BY <1>2, <1>3, <2>1 DEF ThreadsListed, Complete
  <2>5. EnginesStored'
    BY <1>1, <1>2, <1>3, <1>7, <2>1, RuntimeAssumption DEF EnginesStored
  <2>6. Opening' /\ Ending'
    BY <1>1, <1>2, <1>3, <1>7 DEF Opening, Ending
  <2> QED
    BY <1>6, <2>2, <2>3, <2>4, <2>5, <2>6 DEF RuntimeInv
<1>8. ASSUME NEW b \in Old, b \notin engines,
             cell' = [cell EXCEPT ![b] = "engine"],
             engines' = engines \cup {b}, schedulers' = schedulers \cup {b},
             thread' = [thread EXCEPT ![b] = "running"],
             UNCHANGED <<server, closing, pending, gate, faults>>
      PROVE  RuntimeInv'
  <2>1. b \in Brain /\ given' = given
    BY <1>1, <1>5, <1>8, RuntimeAssumption
  <2>2. /\ cell' \in [Brain -> {"none", "open", "engine", "failed"}]
        /\ thread' \in [Brain -> {"none", "running"}]
        /\ engines' \subseteq Brain /\ schedulers' \subseteq Brain
        /\ cell'[b] = "engine" /\ thread'[b] = "running"
        /\ \A c \in Brain : c # b => cell'[c] = cell[c] /\ thread'[c] = thread[c]
    BY <1>1, <1>8, <2>1 DEF TypeOK
  <2>3. TypeOK'
    BY <1>1, <1>3, <1>8, <2>1, <2>2 DEF TypeOK
  <2>4. ~Served'
    BY <1>1, <1>4, <1>8 DEF Served
  <2>5. Complete(b)'
    BY <1>2, <1>3, <1>8, <2>2 DEF Complete
  <2>6. ASSUME NEW c \in Brain, c # b
        PROVE  /\ IF c \in engines' THEN cell'[c] = "engine" /\ Complete(c)'
                  ELSE cell'[c] = "none" /\ c \notin schedulers' /\ thread'[c] = "none"
    BY <1>2, <1>3, <1>8, <2>2, <2>6 DEF Complete
  <2>7. Opening'
    <3>1. \A c \in Brain :
            IF c \in engines' THEN cell'[c] = "engine" /\ Complete(c)'
            ELSE cell'[c] = "none" /\ c \notin schedulers' /\ thread'[c] = "none"
      BY <1>8, <2>2, <2>5, <2>6
    <3>2. engines' \subseteq Old /\ pending' = {} /\ ledger'.brains = Old /\ done' = 0 /\ ~fatal'
      BY <1>2, <1>3, <1>8
    <3> QED
      BY <1>4, <3>1, <3>2 DEF Opening
  <2>8. Ending'
    BY <1>1, <1>2, <1>3, <1>8 DEF Ending
  <2>9. ThreadsListed'
    BY <1>8, <2>5, <2>6 DEF ThreadsListed, Complete
  <2>10. EnginesStored'
    <3>1. \A c \in given : cell'[c] = "engine"
      BY <1>1, <2>2 DEF EnginesStored, TypeOK
    <3>2. \A c \in Brain : cell'[c] = "engine" => c \in ledger'.brains
      BY <1>1, <1>2, <1>3, <1>8, <2>2 DEF EnginesStored
    <3> QED
      BY <2>1, <3>1, <3>2 DEF EnginesStored
  <2> QED
    BY <1>6, <2>3, <2>4, <2>7, <2>8, <2>9, <2>10 DEF RuntimeInv
<1>9. CASE Fault /\ server' = "closing" /\ closing' = TRUE /\ UNCHANGED memory
  <2>1. /\ cell' = cell /\ pending' = pending /\ engines' = engines
        /\ schedulers' = schedulers /\ thread' = thread /\ gate' = gate
        /\ given' = given /\ faults' \in 0 .. MaxFaults
    BY <1>1, <1>5, <1>9, FaultTyped DEF memory, TypeOK
  <2>2. TypeOK'
    BY <1>1, <1>3, <1>9, <2>1 DEF TypeOK
  <2>3. ~Served'
    BY <1>4, <1>9 DEF Served
  <2>4. ThreadsListed' /\ EnginesStored'
    BY <1>3, <2>1 DEF RuntimeInv, ThreadsListed, EnginesStored
  <2>5. Opening' /\ Ending'
    BY <1>2, <1>3, <1>4, <1>9 DEF Opening, Ending
  <2> QED
    BY <1>6, <2>2, <2>3, <2>4, <2>5 DEF RuntimeInv
<1> QED
  BY <1>7, <1>8, <1>9 DEF Open

-----------------------------------------------------------------------------
(* The invariant *)

\* A daemon that has just taken its lease.
LEMMA RuntimeInit == Init => RuntimeInv
<1> SUFFICES ASSUME Init PROVE RuntimeInv
  OBVIOUS
<1>1. TypeOK
  <2>1. ledger \in LedgerType
    BY RuntimeAssumption DEF Init, LedgerType
  <2>2. op \in [Op -> OpType]
    BY DEF Init, OpType, Idle
  <2>3. done \in 0 .. Len(CloseSteps) /\ faults \in 0 .. MaxFaults
    BY RuntimeAssumption, StepNames DEF Init
  <2> QED
    BY <2>1, <2>2, <2>3 DEF Init, TypeOK
<1>2. \A o \in Op : op[o] = Idle
  BY DEF Init
<1>3. Quiet /\ \A o \in Op : OpRow(o)
  BY <1>2 DEF Quiet, OpRow, Idle
<1>4. OneWorker
  BY <1>3 DEF OneWorker, Working, Quiet
<1>5. ~Served
  BY <1>3 DEF Served, Init
<1>6. ThreadsListed /\ EnginesStored
  BY DEF Init, ThreadsListed, EnginesStored
<1>7. Opening /\ Ending
  BY <1>3 DEF Init, Opening, Ending, Complete
<1> QED
  BY <1>1, <1>3, <1>4, <1>5, <1>6, <1>7 DEF RuntimeInv

\* Every step of the daemon preserves the invariant.
LEMMA RuntimeStep == RuntimeInv /\ [Next]_vars => RuntimeInv'
<1> SUFFICES ASSUME RuntimeInv, [Next]_vars PROVE RuntimeInv'
  OBVIOUS
<1>1. CASE UNCHANGED vars
  BY <1>1 DEF vars, memory, life, RuntimeInv, TypeOK, OpRow, OneWorker, WorksOn, Served,
     Quiet, BrainRow, Settled, ThreadsListed, EnginesStored, Opening, Ending, Absent,
     Founded, Complete
<1>2. CASE Next
  BY <1>2, OpHolds, PulseHolds, WorkerFailsHolds, OpenHolds, ShutdownHolds, DrainHolds,
     CloseStepHolds, RetryHolds DEF Next
<1> QED
  BY <1>1, <1>2

\* The invariant holds in every state that a daemon reaches.
LEMMA RuntimeInvHolds == Spec => []RuntimeInv
<1> QED
  BY RuntimeInit, RuntimeStep, PTL DEF Spec

-----------------------------------------------------------------------------
(* Theorems *)

\* The ledger, the once-cells, the requests and the life of the daemon have their
\* types, whatever fails (HermesDaemonRuntime, PrivateDaemonServer).
THEOREM RuntimeTyped == Spec => []TypeOK
<1>1. RuntimeInv => TypeOK
  BY DEF RuntimeInv
<1> QED
  BY <1>1, RuntimeInvHolds, PTL

\* As long as the daemon has not stopped itself, exactly the brains of the ledger
\* have an engine, a running scheduler and a resolved cell, but for those that an
\* operation is creating: compensation (_compensate_dynamic_reservation) leaves no
\* writer without a brain and no brain without a writer.
THEOREM WritersMatchBrains == Spec => []EveryBrainHasItsWriter
<1>1. RuntimeInv => EveryBrainHasItsWriter
  <2> SUFFICES ASSUME RuntimeInv, server = "serving", ~fatal, NEW b \in Brain, ~Busy(b)
               PROVE  /\ (b \in ledger.brains) <=> (b \in engines)
                      /\ (b \in ledger.brains) <=> (b \in schedulers)
                      /\ (b \in ledger.brains) <=> (thread[b] = "running")
                      /\ (b \in ledger.brains) <=> (cell[b] = "engine")
    BY DEF EveryBrainHasItsWriter
  <2>1. \A o \in Op : ~WorksOn(o, b)
    BY DEF WorksOn, Busy, Working
  <2>2. Settled(b) /\ cell[b] \in {"none", "open", "engine", "failed"}
    BY <2>1 DEF RuntimeInv, Served, BrainRow, TypeOK
  <2> QED
    BY <2>2 DEF Settled, Absent, Complete
<1> QED
  BY <1>1, RuntimeInvHolds, PTL

\* When close has closed the ledger no request runs and no scheduler thread can
\* still append to it: the schedulers were stopped first (_stop_all_schedulers),
\* and every thread that ran was among them.
THEOREM LedgerClosesLast == Spec => []ClosedIsQuiet
<1>1. RuntimeInv => ClosedIsQuiet
  BY ReachedSteps DEF RuntimeInv, TypeOK, Ending, ClosedIsQuiet
<1> QED
  BY <1>1, RuntimeInvHolds, PTL

\* A daemon that stopped itself or failed to close is retained by somebody who can
\* retry its cleanup until the lease is released (_retain_failed_owner).
THEOREM OwnersAreKept == Spec => []NeverForgotten
<1>1. RuntimeInv => NeverForgotten
  <2> SUFFICES ASSUME RuntimeInv, fatal \/ server = "failed", ~LeaseReleased
               PROVE  owner # None \/ server \in {"cleanup", "closing"}
    BY DEF NeverForgotten
  <2>1. server # "closed"
    BY ReachedSteps DEF RuntimeInv, TypeOK, Ending
  <2> QED
    BY <2>1 DEF RuntimeInv, TypeOK, Ending, Opening
<1> QED
  BY <1>1, RuntimeInvHolds, PTL

\* Only compensation deletes a brain, and only one with nothing but its foundation.
LEMMA UsedStays ==
  ASSUME RuntimeInv, Next
  PROVE  ledger.used \subseteq ledger'.used
<1>1. ledger \in LedgerType
  BY DEF RuntimeInv, TypeOK
<1>2. \A b : [ledger EXCEPT !.used = @ \cup {b}].used = ledger.used \cup {b}
  BY <1>1 DEF LedgerType
<1>3. ASSUME NEW o \in Op, Begin(o) PROVE ledger' = ledger
  BY <1>3 DEF Begin
<1>4. ASSUME NEW o \in Op, PersistNew(o) PROVE ledger'.used = ledger.used
  <2>1. \A p, b : Created(p, b).used = ledger.used
    BY <1>1 DEF Created, LedgerType
  <2> QED
    BY <1>4, <2>1 DEF PersistNew
<1>5. ASSUME NEW o \in Op, Compensate(o) PROVE ledger.used \subseteq ledger'.used
  <2>1. \A b : Untouched(b) => Without(b).used = ledger.used
    BY <1>1 DEF Without, Untouched, LedgerType
  <2> QED
    BY <1>5, <2>1 DEF Compensate
<1>6. ASSUME NEW o \in Op, Answer(o) PROVE ledger.used \subseteq ledger'.used
  BY <1>2, <1>6 DEF Answer
<1>7. ASSUME NEW b \in Brain, Pulse(b) PROVE ledger.used \subseteq ledger'.used
  BY <1>2, <1>7 DEF Pulse
<1>8. ASSUME NEW o \in Op,
             \/ Reserve(o) \/ PersistFound(o) \/ LookUp(o) \/ Start(o) \/ Publish(o)
             \/ Register(o) \/ Clear(o)
      PROVE  ledger' = ledger
  BY <1>8 DEF Reserve, PersistFound, LookUp, Start, Publish, Register, Clear
<1>9. Open \/ Shutdown \/ Drain \/ CloseStep \/ Retry \/ WorkerFails => ledger' = ledger
  BY DEF Open, Shutdown, Drain, CloseStep, Retry, WorkerFails
<1> QED
  BY <1>3, <1>4, <1>5, <1>6, <1>7, <1>8, <1>9 DEF Next, OpStep

\* No failed creation takes away a brain that was written to or that a client was
\* given (compensate_unpublished_brain_foundation of store.py deletes a foundation
\* and nothing more).
THEOREM BrainsStay == Spec => WrittenBrainsStay
<1>1. RuntimeInv /\ RuntimeInv' /\ [Next]_vars =>
        [ledger.used \subseteq ledger'.used /\ given' \subseteq ledger'.brains]_vars
  <2> SUFFICES ASSUME RuntimeInv, RuntimeInv', Next
               PROVE  ledger.used \subseteq ledger'.used /\ given' \subseteq ledger'.brains
    OBVIOUS
  <2>1. ledger.used \subseteq ledger'.used
    BY UsedStays
  <2>2. given' \subseteq ledger'.brains
    BY DEF RuntimeInv, TypeOK, EnginesStored
  <2> QED
    BY <2>1, <2>2
<1> QED
  BY <1>1, RuntimeInvHolds, PTL DEF Spec, WrittenBrainsStay
=============================================================================
