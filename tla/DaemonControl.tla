---------------------------- MODULE DaemonControl ----------------------------
(***************************************************************************)
(* The start and stop commands (cli.py) and the supervisor that launches   *)
(* and terminates daemon processes for them (runtime/supervisor.py), over  *)
(* the processes of RuntimeHome.  Every background launch leaves evidence  *)
(* of its process in a directory of its own, which the next start reads to *)
(* terminate what is still alive.  Commands are serialised by a lock file, *)
(* and a launch in progress is marked by a parent guard.                   *)
(***************************************************************************)
EXTENDS RuntimeHome

CONSTANT Cli

\* Commands are no daemons, and a parent guard is no lock of a home.
ASSUME ControlAssumption ==
    /\ Launch \cap Cli = {}
    /\ Launch \cap (Path \cup Dir \cup {"coordinator"}) = {}

VARIABLES
    evidence,        \* the launch directory of each launch
    recycled,        \* pids of dead daemons that other programs have now
    cli,
    wronged          \* history: processes signalled that should not have been

vars == <<homeVars, evidence, recycled, cli, wronged>>

\* "empty": made, but without metadata; "quarantine": renamed, being removed.
EvidenceType == {"none", "empty", "known", "quarantine"}
CliType == [pc : {"idle", "look", "launch", "recover", "terminate", "remove", "make",
                  "spawn", "note", "await", "shutdown", "wait"},
            cmd : {"start", "stop"},
            own : Launch \cup {None},        \* the launch, or the process to stop
            prior : Launch \cup {None}]      \* the process being terminated or removed
Idle == [pc |-> "idle", cmd |-> "start", own |-> None, prior |-> None]

Init ==
    /\ HomeInit
    /\ evidence = [n \in Launch |-> "none"]
    /\ recycled = {}
    /\ cli = [c \in Cli |-> Idle]
    /\ wronged = {}

Control == UNCHANGED <<at, file, discovery, credentials, meddling, recycled>>
Go(c, pc) == cli' = [cli EXCEPT ![c].pc = pc]

\* The command returns or fails: its locks are given back.
Done(c) == cli' = [cli EXCEPT ![c] = Idle] /\ held' = held \ HeldBy(c)

-----------------------------------------------------------------------------
(* Processes are looked up by pid *)

\* psutil.Process(pid) finds somebody: the daemon of launch n or, once that is
\* dead, the program that got its pid.
Found(n) == Alive(n) \/ n \in recycled

\* When that process was started, the noted start of the daemon being 0.
StartTime(n) == IF n \in recycled THEN 1 ELSE 0

\* _process_is_exact: the pid has a process, with the start time that was noted.
\* Whoever is not found is "gone", another process is "reused".
Exact(n) == Found(n) /\ StartTime(n) = 0

-----------------------------------------------------------------------------
(* Both commands: coordination, then a look at daemon.json *)

Coordinate(c, cmd) ==
    /\ cli[c].pc = "idle" /\ ~Locked("coordinator")
    /\ held' = held \cup {Lock("coordinator", c)}
    /\ cli' = [cli EXCEPT ![c] = [Idle EXCEPT !.pc = "look", !.cmd = cmd]]
    /\ UNCHANGED <<proc, evidence, faults, wronged>> /\ Control

Named == IF at[Home] = None THEN None ELSE discovery[at[Home]]
Credentials == IF at[Home] = None THEN {} ELSE credentials[at[Home]]

\* The record and its credential can be loaded.
Loadable == Named # None /\ Named \in Credentials

\* DaemonClient.connect: an authenticated answer of exactly that process.
Answers == Loadable /\ proc[Named].pc = "serving"

\* start: nothing is published, or it does not answer (or not in time).
LookToLaunch(c) ==
    /\ cli[c].pc = "look" /\ cli[c].cmd = "start"
    /\ Named = None \/ Loadable
    /\ IF Answers THEN Fault ELSE UNCHANGED faults
    /\ Go(c, "launch")
    /\ UNCHANGED <<held, proc, evidence, wronged>> /\ Control

\* stop: the daemon answers and the supervisor's evidence is of its process.
LookToStop(c) ==
    /\ cli[c].pc = "look" /\ cli[c].cmd = "stop"
    /\ Answers /\ evidence[Named] = "known" /\ Exact(Named)
    /\ cli' = [cli EXCEPT ![c].pc = "shutdown", ![c].own = Named]
    /\ UNCHANGED <<held, proc, evidence, faults, wronged>> /\ Control

\* There is nothing to do, or nothing that can be done.
LookIsEnough(c) ==
    /\ cli[c].pc = "look"
    /\ IF cli[c].cmd = "start" THEN Answers \/ (Named # None /\ ~Loadable)
       ELSE ~(Answers /\ evidence[Named] = "known" /\ Exact(Named))
    /\ Done(c)
    /\ UNCHANGED <<proc, evidence, faults, wronged>> /\ Control

-----------------------------------------------------------------------------
(* DmonAdapter.start *)

\* The launch's command still holds the parent guard: the launch is managed.
Guarded(n) == \E h \in held : h[1] = n

\* A fresh nonce, whose parent guard this command holds from now on.
Guard(c, n) ==
    /\ cli[c].pc = "launch"
    /\ proc[n].pc = "unborn" /\ evidence[n] = "none" /\ ~Guarded(n)
    /\ held' = held \cup {<<n, 0, c>>}
    /\ cli' = [cli EXCEPT ![c].pc = "recover", ![c].own = n]
    /\ UNCHANGED <<proc, evidence, faults, wronged>> /\ Control

\* _recover_prior_launches, one directory: interrupted removals are put back;
\* a launch that a parent manages or that left no metadata ends the start; a
\* process that is still this very process is terminated first.
Recover(c, m) ==
    /\ cli[c].pc = "recover"
    /\ m # cli[c].own /\ evidence[m] # "none"
    /\ IF Guarded(m) \/ evidence[m] = "empty"
          THEN Done(c) /\ UNCHANGED evidence
       ELSE /\ cli' = [cli EXCEPT ![c].prior = m,
                                  ![c].pc = IF Exact(m) THEN "terminate" ELSE "remove"]
            /\ evidence' = [evidence EXCEPT ![m] = IF Exact(m) THEN "known" ELSE "quarantine"]
            /\ UNCHANGED held
    /\ UNCHANGED <<proc, faults, wronged>> /\ Control

\* Whoever has the pid of launch m gets the signal: the daemon dies of it, and
\* another program, or a daemon that somebody else's launch brings up, is wronged.
Kill(m) ==
    /\ proc' = IF Alive(m) THEN [proc EXCEPT ![m].pc = "dead"] ELSE proc
    /\ held' = IF Alive(m) THEN held \ HeldBy(m) ELSE held
    /\ wronged' = IF m \in recycled \/ \E h \in held : h[1] = m /\ cli[h[3]].prior # m
                     THEN wronged \cup {m} ELSE wronged

\* Mutant: the process was identified when the launch was recovered or timed out.
SignalFound(m) == IF Found(m) THEN Kill(m) ELSE UNCHANGED <<proc, held, wronged>>

\* terminate_exact: the process is identified once more before it is signalled.
Signal(m) == IF Exact(m) THEN Kill(m) ELSE UNCHANGED <<proc, held, wronged>>

Terminate(c) ==
    LET m == cli[c].prior
    IN /\ cli[c].pc = "terminate"
       /\ Signal(m)
       /\ evidence' = [evidence EXCEPT ![m] = "quarantine"]
       /\ Go(c, "remove")
       /\ UNCHANGED faults /\ Control

\* The quarantined directory is emptied; then on to what the launch was at.
Remove(c) ==
    /\ cli[c].pc = "remove"
    /\ evidence' = [evidence EXCEPT ![cli[c].prior] = "none"]
    /\ IF cli[c].prior = cli[c].own THEN Done(c)
       ELSE Go(c, "recover") /\ UNCHANGED held
    /\ UNCHANGED <<proc, faults, wronged>> /\ Control

Make(c) ==
    /\ cli[c].pc = "recover"
    /\ \A m \in Launch \ {cli[c].own} : evidence[m] = "none"
    /\ evidence' = [evidence EXCEPT ![cli[c].own] = "empty"]
    /\ Go(c, "spawn")
    /\ UNCHANGED <<held, proc, faults, wronged>> /\ Control

Spawn(c) ==
    /\ cli[c].pc = "spawn"
    /\ \/ Born(cli[c].own, Home, TRUE) /\ Go(c, "note") /\ UNCHANGED <<held, faults>>
       \/ Fault /\ Done(c) /\ UNCHANGED proc
    /\ UNCHANGED <<evidence, wronged>> /\ Control

\* python-dmon records the process; a failure to verify it afterwards ends in
\* _post_launch_failure, which terminates it.
Note(c) ==
    /\ cli[c].pc = "note"
    /\ evidence' = [evidence EXCEPT ![cli[c].own] = "known"]
    /\ \/ Go(c, "await") /\ UNCHANGED faults
       \/ Fault /\ cli' = [cli EXCEPT ![c].pc = "terminate", ![c].prior = cli[c].own]
    /\ UNCHANGED <<held, proc, wronged>> /\ Control

-----------------------------------------------------------------------------
(* Waiting *)

\* start waits until its own process answers ...
Started(c) ==
    /\ cli[c].pc = "await" /\ Answers /\ Named = cli[c].own
    /\ Done(c)
    /\ UNCHANGED <<proc, evidence, faults, wronged>> /\ Control

\* ... or has exited ...
Exited(c) ==
    /\ cli[c].pc = "await" /\ ~Exact(cli[c].own)
    /\ cli' = [cli EXCEPT ![c].pc = "remove", ![c].prior = cli[c].own]
    /\ evidence' = [evidence EXCEPT ![cli[c].own] = "quarantine"]
    /\ UNCHANGED <<held, proc, faults, wronged>> /\ Control

\* ... or the time is over.
StartTimesOut(c) ==
    /\ cli[c].pc = "await" /\ Fault
    /\ cli' = [cli EXCEPT ![c].pc = "terminate", ![c].prior = cli[c].own]
    /\ UNCHANGED <<held, proc, evidence, wronged>> /\ Control

\* The shutdown request, if it still finds the daemon.
Shutdown(c) ==
    /\ cli[c].pc = "shutdown"
    /\ IF proc[cli[c].own].pc = "serving"
          THEN At(cli[c].own, "draining") /\ Go(c, "wait") /\ UNCHANGED held
       ELSE Done(c) /\ UNCHANGED proc
    /\ UNCHANGED <<evidence, faults, wronged>> /\ Control

\* Mutant: stop waits for the files only.
FilesGone(n) == Named = None /\ n \notin Credentials

\* The process is gone, and its files.
Gone(n) == ~Exact(n) /\ Named = None /\ n \notin Credentials

Stopped(c) ==
    /\ cli[c].pc = "wait" /\ Gone(cli[c].own)
    /\ cli' = [cli EXCEPT ![c].pc = "remove", ![c].prior = cli[c].own]
    /\ evidence' = [evidence EXCEPT ![cli[c].own] = "quarantine"]
    /\ UNCHANGED <<held, proc, faults, wronged>> /\ Control

\* Not in time, or never: the daemon died before it cleaned up.
StopTimesOut(c) ==
    /\ cli[c].pc = "wait"
    /\ IF Exact(cli[c].own) THEN Fault ELSE ~Gone(cli[c].own) /\ UNCHANGED faults
    /\ Done(c)
    /\ UNCHANGED <<proc, evidence, wronged>> /\ Control

\* A command is killed: the system releases its locks.
CliDies(c) ==
    /\ cli[c].pc # "idle" /\ Fault
    /\ Done(c)
    /\ UNCHANGED <<proc, evidence, wronged>> /\ Control

\* The system gives the pid of a dead daemon to another program, at any moment: also
\* after a command took the daemon for alive and before it signals it.
Recycle(n) ==
    /\ proc[n].pc = "dead" /\ n \notin recycled
    /\ recycled' = recycled \cup {n}
    /\ UNCHANGED <<homeVars, evidence, cli, wronged>>

CliStep(c) ==
    \/ LookToLaunch(c) \/ LookToStop(c) \/ LookIsEnough(c)
    \/ \E n \in Launch : Guard(c, n) \/ Recover(c, n)
    \/ Terminate(c) \/ Remove(c) \/ Make(c) \/ Spawn(c) \/ Note(c)
    \/ Started(c) \/ Exited(c) \/ Shutdown(c) \/ Stopped(c) \/ StopTimesOut(c)

Next ==
    \/ \E c \in Cli :
          \/ Coordinate(c, "start") \/ Coordinate(c, "stop") \/ CliStep(c)
          \/ StartTimesOut(c) \/ CliDies(c)
    \/ \E n \in Launch :
          /\ \/ DaemonStep(n) \/ StartFails(n) \/ Drain(n) \/ Die(n)
             \/ \E p \in Path : RunForeground(n, p)
          /\ UNCHANGED <<evidence, recycled, cli, wronged>>
    \/ /\ \/ \E l \in Path \cup Dir \cup {"coordinator"} : RemoveLockFile(l)
          \/ \E p, q \in Path : MoveHome(p, q)
       /\ UNCHANGED <<evidence, recycled, cli, wronged>>
    \/ \E n \in Launch : Recycle(n)

Spec == Init /\ [][Next]_vars

-----------------------------------------------------------------------------
(* Properties *)

\* Locks, processes, files and commands have their types, and whatever owns a
\* home owns both of its locks.
TypeOK ==
    /\ at \in [Path -> Dir \cup {None}]
    /\ file \in [Path \cup Dir \cup {"coordinator"} -> 0 .. MaxMeddling]
    /\ proc \in [Launch -> ProcType]
    /\ discovery \in [Dir -> Launch \cup {None}]
    /\ credentials \in [Dir -> SUBSET Launch]
    /\ evidence \in [Launch -> EvidenceType]
    /\ recycled \subseteq Launch
    /\ cli \in [Cli -> CliType]
    /\ \A n \in Launch :
          proc[n].pc \notin {"unborn", "new", "external", "half", "dead"} =>
             \A l \in {proc[n].path, proc[n].dir} : \E h \in HeldBy(n) : h[1] = l

\* Two processes never have the same ledger open, even if somebody once removes a lock
\* file or moves the home under a running daemon.
OneWriter ==
    \A m, n \in Launch :
        HasLedger(m) /\ HasLedger(n) /\ proc[m].dir = proc[n].dir => m = n

\* A daemon that serves can be found: no other process that starts, fails, stops
\* or cleans up after the dead takes its daemon.json or its credential away.
ServingIsDiscoverable ==
    \A n \in Launch :
        proc[n].pc = "serving" =>
            discovery[proc[n].dir] = n /\ n \in credentials[proc[n].dir]

\* A daemon that was started in the background and is alive has left evidence,
\* whatever command was killed at whatever point: the next start terminates it or
\* refuses, and never launches beside it.
LiveDaemonHasEvidence ==
    \A n \in Launch : Alive(n) /\ proc[n].background => evidence[n] # "none"

\* No command signals a program that got the pid of a dead daemon, even if the daemon
\* died after the command had found it alive, nor a daemon that another command is
\* still bringing up.
OnlyItsOwnIsSignalled == wronged = {}

=============================================================================
