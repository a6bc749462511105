----------------------------- MODULE RuntimeHome -----------------------------
(***************************************************************************)
(* The daemon processes that compete for a runtime home, from their start  *)
(* to their exit (runtime/lease.py, runtime/discovery.py and the life of   *)
(* HermesDaemonRuntime in runtime/daemon.py).  A process owns a home under *)
(* two locks: the external guard, a file of the path, and the legacy lock, *)
(* a file of the directory.  A lock belongs to the file that was opened: a *)
(* lock file that somebody removes is another, free file to the next       *)
(* process, and a directory can be moved to another path.                  *)
(***************************************************************************)
EXTENDS Integers, FiniteSets

CONSTANTS
    Launch,          \* launch nonces, one per daemon process
    Path, Dir,       \* where a home may be, and the directories it may be
    Home,            \* the path that the control commands are about
    None,
    MaxFaults,       \* bound of the model on crashes, failing calls and timeouts
    MaxMeddling      \* bound of the model on what somebody does to the files

ASSUME HomeAssumption ==
    /\ Home \in Path /\ None \notin Launch \cup Dir
    /\ Path \cap Dir = {}
    /\ MaxFaults \in Nat /\ MaxMeddling \in Nat

VARIABLES
    at,              \* the directory at each path
    file,            \* which file each lock path now names
    held,            \* the locks: <<lock path, file, owner>>
    proc,
    discovery,       \* the process that a directory's daemon.json names
    credentials,     \* the processes whose credential files a directory has
    faults, meddling

homeVars == <<at, file, held, proc, discovery, credentials, faults, meddling>>

Stage == {"unborn", "new", "external", "leased", "cleaning", "clean", "credential",
          "open", "serving", "draining", "closed", "uncredentialed", "undiscovered",
          "half", "dead"}
ProcType == [pc : Stage, path : Path, dir : Dir \cup {None}, background : BOOLEAN]
Unborn == [pc |-> "unborn", path |-> Home, dir |-> None, background |-> FALSE]

Alive(n) == proc[n].pc \notin {"unborn", "dead"}
\* The stages at which a process has its SQLite handle.
HasLedger(n) == proc[n].pc \in {"open", "serving", "draining"}

HomeInit ==
    /\ at \in [Path -> Dir \cup {None}]
    /\ \A p \in Path : (at[p] # None) <=> (p = Home)
    /\ file = [l \in Path \cup Dir \cup {"coordinator"} |-> 0]
    /\ held = {}
    /\ proc = [n \in Launch |-> Unborn]
    /\ discovery = [d \in Dir |-> None]
    /\ credentials = [d \in Dir |-> {}]
    /\ faults = 0 /\ meddling = 0

Fault == faults < MaxFaults /\ faults' = faults + 1

-----------------------------------------------------------------------------
(* Locks *)

Lock(l, who) == <<l, file[l], who>>
Locked(l) == \E h \in held : h[1] = l /\ h[2] = file[l]
HeldBy(who) == {h \in held : h[3] = who}

\* assert_authority: the directory is still at its path, and a probe of each lock
\* path finds it locked, by whomever.
Authority(n) ==
    /\ at[proc[n].path] = proc[n].dir
    /\ Locked(proc[n].path) /\ Locked(proc[n].dir)

-----------------------------------------------------------------------------
(* RuntimeLease.acquire and release *)

At(n, pc) == proc' = [proc EXCEPT ![n].pc = pc]

\* The process ends, which frees whatever locks it has.
Exit(n) == At(n, "dead") /\ held' = held \ HeldBy(n)

Unchanged == UNCHANGED <<at, file, discovery, credentials, faults, meddling>>

\* Mutant: only the lock inside the home counts.
AcquireExternalAnyway(n) ==
    /\ proc[n].pc = "new"
    /\ held' = held \cup {Lock(proc[n].path, n)} /\ At(n, "external")
    /\ Unchanged

AcquireExternal(n) ==
    /\ proc[n].pc = "new"
    /\ IF Locked(proc[n].path) THEN Exit(n)
       ELSE held' = held \cup {Lock(proc[n].path, n)} /\ At(n, "external")
    /\ Unchanged

\* Mutant: the external guard is enough to enter a home.
AcquireLegacyAnyway(n) ==
    LET p == proc[n].path
    IN /\ proc[n].pc = "external" /\ at[p] # None
       /\ held' = held \cup {Lock(at[p], n)}
       /\ proc' = [proc EXCEPT ![n].pc = "leased", ![n].dir = at[p]]
       /\ UNCHANGED <<at, file, discovery, credentials, faults, meddling>>

\* The directory is made if need be, and locked; then authority is asserted.
AcquireLegacy(n) ==
    LET p == proc[n].path
    IN /\ proc[n].pc = "external"
       /\ \E d \in Dir :
             /\ IF at[p] # None THEN d = at[p] ELSE \A q \in Path : at[q] # d
             /\ at' = [at EXCEPT ![p] = d]
             /\ IF Locked(d) \/ ~Locked(p) THEN Exit(n)
                ELSE /\ held' = held \cup {Lock(d, n)}
                     /\ proc' = [proc EXCEPT ![n].pc = "leased", ![n].dir = d]
       /\ UNCHANGED <<file, discovery, credentials, faults, meddling>>

ReleaseLegacy(n) ==
    /\ proc[n].pc = "undiscovered"
    /\ held' = {h \in held : h[3] # n \/ h[1] # proc[n].dir}
    /\ At(n, "half")
    /\ Unchanged

ReleaseExternal(n) == proc[n].pc = "half" /\ Exit(n) /\ Unchanged

-----------------------------------------------------------------------------
(* HermesDaemonRuntime.open *)

\* Any step of startup may raise, and does without authority: what was acquired
\* is given back in the order of close.
StartFails(n) ==
    /\ proc[n].pc \in {"leased", "cleaning", "clean", "credential", "open"}
    /\ IF Authority(n) THEN Fault ELSE UNCHANGED faults
    /\ At(n, IF HasLedger(n) THEN "draining" ELSE "closed")
    /\ UNCHANGED <<at, file, held, discovery, credentials, meddling>>

\* cleanup_stale_discovery of a previous process: its credential first.
CleanCredential(n) ==
    LET d == proc[n].dir
    IN /\ proc[n].pc = "leased" /\ Authority(n)
       /\ credentials' = [credentials EXCEPT ![d] = @ \ {discovery[d]}]
       /\ At(n, IF discovery[d] = None THEN "clean" ELSE "cleaning")
       /\ UNCHANGED <<at, file, held, discovery, faults, meddling>>

CleanDiscovery(n) ==
    /\ proc[n].pc = "cleaning" /\ Authority(n)
    /\ discovery' = [discovery EXCEPT ![proc[n].dir] = None]
    /\ At(n, "clean")
    /\ UNCHANGED <<at, file, held, credentials, faults, meddling>>

CreateCredential(n) ==
    /\ proc[n].pc = "clean" /\ Authority(n)
    /\ credentials' = [credentials EXCEPT ![proc[n].dir] = @ \cup {n}]
    /\ At(n, "credential")
    /\ UNCHANGED <<at, file, held, discovery, faults, meddling>>

OpenLedger(n) ==
    /\ proc[n].pc = "credential" /\ Authority(n)
    /\ At(n, "open")
    /\ held' = held /\ Unchanged

\* The listener is up: publish_discovery replaces daemon.json.
Publish(n) ==
    /\ proc[n].pc = "open" /\ Authority(n)
    /\ discovery' = [discovery EXCEPT ![proc[n].dir] = n]
    /\ At(n, "serving")
    /\ UNCHANGED <<at, file, held, credentials, faults, meddling>>

-----------------------------------------------------------------------------
(* HermesDaemonRuntime.close, each step only after the one before it       *)

\* The server shuts down by itself: an error of maintenance or a fatal error.
Drain(n) ==
    /\ proc[n].pc = "serving" /\ Fault
    /\ At(n, "draining")
    /\ UNCHANGED <<at, file, held, discovery, credentials, meddling>>

CloseLedger(n) ==
    /\ proc[n].pc = "draining"
    /\ At(n, "closed")
    /\ held' = held /\ Unchanged

\* Without authority nothing is cleaned and the owner is retained until the
\* process exits.
CloseFails(n) ==
    /\ proc[n].pc \in {"closed", "uncredentialed"} /\ ~Authority(n)
    /\ Exit(n) /\ Unchanged

RemoveCredential(n) ==
    /\ proc[n].pc = "closed" /\ Authority(n)
    /\ credentials' = [credentials EXCEPT ![proc[n].dir] = @ \ {n}]
    /\ At(n, "uncredentialed")
    /\ UNCHANGED <<at, file, held, discovery, faults, meddling>>

\* cleanup_discovery: only the record of this very process.
RemoveDiscovery(n) ==
    LET d == proc[n].dir
    IN /\ proc[n].pc = "uncredentialed" /\ Authority(n)
       /\ discovery' = [discovery EXCEPT ![d] = IF @ = n THEN None ELSE @]
       /\ At(n, "undiscovered")
       /\ UNCHANGED <<at, file, held, credentials, faults, meddling>>

\* It is killed, crashes or stops itself hard (exit code 3).
Die(n) == Alive(n) /\ Fault /\ Exit(n)
          /\ UNCHANGED <<at, file, discovery, credentials, meddling>>

DaemonStep(n) ==
    \/ AcquireExternal(n) \/ AcquireLegacy(n)
    \/ CleanCredential(n) \/ CleanDiscovery(n) \/ CreateCredential(n)
    \/ OpenLedger(n) \/ Publish(n)
    \/ CloseLedger(n) \/ CloseFails(n) \/ RemoveCredential(n) \/ RemoveDiscovery(n)
    \/ ReleaseLegacy(n) \/ ReleaseExternal(n)

-----------------------------------------------------------------------------
(* Others *)

Born(n, p, background) ==
    /\ proc[n].pc = "unborn"
    /\ proc' = [proc EXCEPT ![n] = [Unborn EXCEPT !.pc = "new", !.path = p,
                                                  !.background = background]]

\* "daemon run" in a terminal, wherever the home is.
RunForeground(n, p) ==
    Born(n, p, FALSE) /\ UNCHANGED <<at, file, held, discovery, credentials, faults, meddling>>

\* Somebody removes a lock file ...
RemoveLockFile(l) ==
    /\ meddling < MaxMeddling /\ meddling' = meddling + 1
    /\ Locked(l)
    /\ file' = [file EXCEPT ![l] = @ + 1]
    /\ UNCHANGED <<at, held, proc, discovery, credentials, faults>>

\* ... or moves the home.
MoveHome(p, q) ==
    /\ meddling < MaxMeddling /\ meddling' = meddling + 1
    /\ at[p] # None /\ at[q] = None
    /\ at' = [at EXCEPT ![p] = None, ![q] = at[p]]
    /\ UNCHANGED <<file, held, proc, discovery, credentials, faults>>
=============================================================================
