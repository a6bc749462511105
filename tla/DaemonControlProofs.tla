-------------------------- MODULE DaemonControlProofs --------------------------
(* Theorems about DaemonControl for every value of its constants.  That a home *)
(* has one writer, and that what serves can be found, hold as long as somebody *)
(* meddled with the files at most once; what the commands do to processes      *)
(* needs no such bound.                                                        *)
EXTENDS DaemonControl, TLAPS

-----------------------------------------------------------------------------
(* The invariant of the homes *)

LockPath == Path \cup Dir \cup {"coordinator"}

\* A process has the external guard from its acquisition to its exit, and the
\* lock of its directory at these stages.
Owning == {"leased", "cleaning", "clean", "credential", "open", "serving", "draining",
           "closed", "uncredentialed", "undiscovered"}

Holds(n, l) == \E h \in held : h[1] = l /\ h[3] = n

HomeTyped ==
    /\ at \in [Path -> Dir \cup {None}]
    /\ file \in [LockPath -> Nat]
    /\ proc \in [Launch -> ProcType]
    /\ discovery \in [Dir -> Launch \cup {None}]
    /\ credentials \in [Dir -> SUBSET Launch]
    /\ meddling \in 0 .. MaxMeddling
    /\ \A l \in LockPath : file[l] <= meddling

\* A lock is of the file that its path names now or of one that was removed, and
\* no file is locked twice.
Locks ==
    /\ held \subseteq (LockPath \cup Launch) \X Nat \X (Launch \cup Cli)
    /\ \A h \in held : h[1] \in LockPath => h[2] <= file[h[1]]
    /\ \A h \in held : h[1] \in Launch => h[2] = 0
    /\ \A h, k \in held : h[1] = k[1] /\ h[2] = k[2] => h[3] = k[3]

Owners ==
    \A n \in Launch :
        /\ proc[n].pc \in Owning \cup {"external", "half"} => Holds(n, proc[n].path)
        /\ proc[n].pc \in Owning => proc[n].dir \in Dir /\ Holds(n, proc[n].dir)

OnePlace == \A p, q \in Path : at[p] # None /\ at[p] = at[q] => p = q

InPlace == \A n \in Launch : proc[n].pc \in Owning => at[proc[n].path] = proc[n].dir

Kept(l) == file[l] = 0

\* What one meddling can do: the homes are where they were locked, or all lock
\* files are the first of their name.
Meddled ==
    /\ meddling = 0 => InPlace
    /\ meddling = 1 => \/ \A l \in LockPath : Kept(l)
                       \/ InPlace /\ \A l, k \in LockPath : Kept(l) \/ Kept(k) \/ l = k

HomeInv == HomeTyped /\ Locks /\ Owners /\ OnePlace /\ Meddled

OneOwner ==
    \A m, n \in Launch :
        proc[m].pc \in Owning /\ proc[n].pc \in Owning /\ proc[m].dir = proc[n].dir => m = n

\* What a process publishes stays published while it needs it.
Published ==
    \A n \in Launch :
        /\ proc[n].pc \in {"credential", "open", "serving"} => n \in credentials[proc[n].dir]
        /\ proc[n].pc = "serving" => discovery[proc[n].dir] = n

FilesInv == HomeInv /\ (meddling <= 1 => Published)


-----------------------------------------------------------------------------
(* Locks *)

\* Giving locks back.
LEMMA LocksShrink == ASSUME HomeInv, held' \subseteq held, file' = file PROVE Locks'
BY DEF HomeInv, Locks

\* Locking the file that a path names now, which nobody has locked.
LEMMA LocksGrow ==
    ASSUME HomeInv, NEW l \in LockPath, ~Locked(l), NEW who \in Launch \cup Cli,
           held' = held \cup {Lock(l, who)}, file' = file
    PROVE  Locks'
<1>1. Lock(l, who) \in (LockPath \cup Launch) \X Nat \X (Launch \cup Cli)
  BY DEF Lock, HomeInv, HomeTyped
<1>2. Lock(l, who)[1] = l /\ Lock(l, who)[2] = file[l] /\ Lock(l, who)[3] = who
  BY DEF Lock
<1>3. \A h \in held : ~(h[1] = l /\ h[2] = file[l])
  BY DEF Locked
<1>4. l \notin Launch /\ file[l] \in Nat
  BY ControlAssumption DEF LockPath, HomeInv, HomeTyped
<1>5. QED
  BY <1>1, <1>2, <1>3, <1>4 DEF HomeInv, Locks

\* The guard of a launch that nobody guards.
LEMMA LocksGuard ==
    ASSUME HomeInv, NEW n \in Launch, ~Guarded(n), NEW c \in Cli,
           held' = held \cup {<<n, 0, c>>}, file' = file
    PROVE  Locks'
<1>1. n \notin LockPath
  BY ControlAssumption DEF LockPath
<1>2. \A h \in held : h[1] # n
  BY DEF Guarded
<1>3. QED
  BY <1>1, <1>2 DEF HomeInv, Locks

\* A process that keeps the locks it needs, or needs none.
MovesOn(m) ==
    \/ proc'[m].pc \notin Owning \cup {"external", "half"}
    \/ /\ proc'[m].path = proc[m].path
       /\ proc[m].pc \in Owning \cup {"external", "half"}
       /\ proc'[m].pc \in Owning => proc[m].pc \in Owning /\ proc'[m].dir = proc[m].dir
       /\ \A h \in held :
             h[3] = m /\ (h[1] = proc[m].path \/ proc'[m].pc \in Owning) => h \in held'

\* Most steps: nothing is acquired.
LEMMA HomeKept ==
    ASSUME HomeInv, UNCHANGED <<at, file, meddling>>, Locks',
           proc' \in [Launch -> ProcType],
           discovery' \in [Dir -> Launch \cup {None}], credentials' \in [Dir -> SUBSET Launch],
           \A m \in Launch : MovesOn(m)
    PROVE  HomeInv'
<1>1. HomeTyped'
  BY DEF HomeInv, HomeTyped
<1>2. Owners'
  BY DEF HomeInv, Owners, MovesOn, Holds
<1>3. OnePlace'
  BY DEF HomeInv, OnePlace
<1>4. InPlace => InPlace'
  BY DEF InPlace, MovesOn
<1>5. Meddled'
  BY <1>4 DEF HomeInv, Meddled, Kept
<1>6. QED
  BY <1>1, <1>2, <1>3, <1>5 DEF HomeInv

\* A process goes from one stage of ownership to another.
LEMMA StageHome ==
    ASSUME HomeInv, UNCHANGED <<at, file, held, meddling>>, NEW n \in Launch, NEW s \in Owning,
           proc[n].pc \in Owning, At(n, s),
           discovery' \in [Dir -> Launch \cup {None}], credentials' \in [Dir -> SUBSET Launch]
    PROVE  HomeInv'
<1>1. /\ proc \in [Launch -> ProcType] /\ proc' \in [Launch -> ProcType]
      /\ proc'[n].path = proc[n].path /\ proc'[n].dir = proc[n].dir /\ proc'[n].pc = s
      /\ \A m \in Launch : m # n => proc'[m] = proc[m]
  BY DEF HomeInv, HomeTyped, At, ProcType, Stage, Owning
<1>2. \A m \in Launch : proc[m].pc \in Owning \cup {"external", "half"} => MovesOn(m)
  BY <1>1 DEF MovesOn
<1>3. \A m \in Launch : proc[m].pc \notin Owning \cup {"external", "half"} => MovesOn(m)
  BY <1>1 DEF MovesOn
<1>4. QED
  BY <1>1, <1>2, <1>3, LocksShrink, HomeKept

\* A process ends.
LEMMA ExitHome ==
    ASSUME HomeInv, UNCHANGED <<at, file, meddling, discovery, credentials>>, NEW n \in Launch,
           proc' = [proc EXCEPT ![n].pc = "dead"], held' = held \ HeldBy(n)
    PROVE  HomeInv'
<1>1. /\ proc \in [Launch -> ProcType] /\ proc' \in [Launch -> ProcType]
      /\ proc'[n].pc = "dead"
      /\ \A m \in Launch : m # n => proc'[m] = proc[m]
  BY DEF HomeInv, HomeTyped, ProcType, Stage
<1>2. \A m \in Launch : MovesOn(m)
  <2>1. MovesOn(n)
    BY <1>1 DEF MovesOn, Owning
  <2>2. \A h \in held : h[3] # n => h \in held'
    BY DEF HeldBy
  <2>3. \A m \in Launch : m # n => MovesOn(m)
    BY <1>1, <2>2 DEF MovesOn
  <2>4. QED
    BY <2>1, <2>3
<1>3. Locks'
  BY LocksShrink
<1>4. QED
  BY <1>1, <1>2, <1>3, HomeKept DEF HomeInv, HomeTyped

\* A process is born.
LEMMA BornHome ==
    ASSUME HomeInv, UNCHANGED <<at, file, held, meddling, discovery, credentials>>,
           NEW n \in Launch, NEW p \in Path, NEW b \in BOOLEAN, Born(n, p, b)
    PROVE  HomeInv'
<1> DEFINE row == [Unborn EXCEPT !.pc = "new", !.path = p, !.background = b]
<1>1. row \in ProcType /\ row.pc = "new"
  BY DEF Unborn, ProcType, Stage
<1>2. proc' = [proc EXCEPT ![n] = row] /\ proc \in [Launch -> ProcType]
  BY DEF Born, HomeInv, HomeTyped
<1> HIDE DEF row
<1>3. \A m \in Launch : MovesOn(m)
  BY <1>1, <1>2 DEF MovesOn, Owning
<1>4. QED
  BY <1>1, <1>2, <1>3, LocksShrink, HomeKept DEF HomeInv, HomeTyped

\* The commands' own locks are none of a daemon's.
LEMMA CliHome ==
    ASSUME HomeInv, UNCHANGED <<at, file, meddling, discovery, credentials, proc>>, Locks',
           \A h \in held : h[3] \in Launch => h \in held'
    PROVE  HomeInv'
<1>1. \A m \in Launch : MovesOn(m)
  BY DEF MovesOn
<1>2. QED
  BY <1>1, HomeKept DEF HomeInv, HomeTyped

\* The external guard.
LEMMA AcquireExternalHome ==
    ASSUME HomeInv, NEW n \in Launch, AcquireExternal(n) PROVE HomeInv'
<1>1. CASE Locked(proc[n].path)
  BY <1>1, ExitHome DEF AcquireExternal, Exit, At, Unchanged
<1>2. CASE ~Locked(proc[n].path)
  <2> DEFINE p == proc[n].path
  <2>1. /\ held' = held \cup {Lock(p, n)} /\ UNCHANGED <<at, file, meddling, discovery, credentials>>
        /\ p \in LockPath
        /\ proc \in [Launch -> ProcType] /\ proc' \in [Launch -> ProcType]
        /\ proc'[n].pc = "external" /\ proc'[n].path = p
        /\ \A m \in Launch : m # n => proc'[m] = proc[m]
    BY <1>2 DEF AcquireExternal, At, Unchanged, HomeInv, HomeTyped, ProcType, Stage, LockPath
  <2>2. Locks'
    BY <1>2, <2>1, LocksGrow
  <2>3. Lock(p, n) \in held' /\ Lock(p, n)[1] = p /\ Lock(p, n)[3] = n /\ held \subseteq held'
    BY <2>1 DEF Lock
  <2> HIDE DEF p
  <2>4. Owners'
    BY <2>1, <2>3 DEF HomeInv, Owners, Holds, Owning
  <2>5. InPlace => InPlace'
    BY <2>1 DEF InPlace, Owning
  <2>6. HomeTyped' /\ OnePlace' /\ Meddled'
    BY <2>1, <2>5 DEF HomeInv, HomeTyped, OnePlace, Meddled, Kept
  <2>7. QED
    BY <2>2, <2>4, <2>6 DEF HomeInv
<1>3. QED
  BY <1>1, <1>2

\* The directory is locked at the path where it is, or is made there.
LEMMA AcquireLegacyHome ==
    ASSUME HomeInv, NEW n \in Launch, AcquireLegacy(n) PROVE HomeInv'
<1> DEFINE p == proc[n].path
<1>1. PICK d \in Dir :
         /\ IF at[p] # None THEN d = at[p] ELSE \A q \in Path : at[q] # d
         /\ at' = [at EXCEPT ![p] = d]
         /\ IF Locked(d) \/ ~Locked(p) THEN Exit(n)
            ELSE /\ held' = held \cup {Lock(d, n)}
                 /\ proc' = [proc EXCEPT ![n].pc = "leased", ![n].dir = d]
  BY DEF AcquireLegacy
<1>2. /\ UNCHANGED <<file, discovery, credentials, meddling>> /\ proc[n].pc = "external"
      /\ p \in Path /\ d \in LockPath /\ proc \in [Launch -> ProcType]
      /\ at \in [Path -> Dir \cup {None}] /\ d # None
  BY HomeAssumption DEF AcquireLegacy, HomeInv, HomeTyped, ProcType, LockPath
<1>3. /\ at' \in [Path -> Dir \cup {None}] /\ at'[p] = d
      /\ \A q \in Path : at[q] # None => at'[q] = at[q]
      /\ \A q \in Path : q # p => at'[q] = at[q]
  BY <1>1, <1>2
<1>4. OnePlace'
  BY <1>1, <1>2, <1>3 DEF HomeInv, OnePlace
<1>5. /\ proc' \in [Launch -> ProcType] /\ \A m \in Launch : m # n => proc'[m] = proc[m]
      /\ \/ held' = held \ HeldBy(n) /\ proc'[n].pc = "dead"
         \/ /\ held' = held \cup {Lock(d, n)} /\ ~Locked(d)
            /\ proc'[n].pc = "leased" /\ proc'[n].path = p /\ proc'[n].dir = d
  BY <1>1, <1>2 DEF Exit, At, ProcType, Stage
<1> HIDE DEF p
<1>6. Locks'
  BY <1>2, <1>5, LocksShrink, LocksGrow
<1>7. HomeTyped'
  BY <1>2, <1>3, <1>5 DEF HomeInv, HomeTyped
<1>8. Owners'
  <2>1. ASSUME NEW m \in Launch, m # n
        PROVE  /\ proc'[m].pc \in Owning \cup {"external", "half"} => Holds(m, proc[m].path)'
               /\ proc'[m].pc \in Owning => proc'[m].dir \in Dir /\ Holds(m, proc[m].dir)'
    <3>1. \A h \in held : h[3] = m => h \in held'
      BY <1>5, <2>1 DEF HeldBy
    <3>2. QED
      BY <1>5, <2>1, <3>1 DEF HomeInv, Owners, Holds
  <2>2. CASE proc'[n].pc = "dead"
    BY <2>1, <2>2 DEF Owners, Owning
  <2>3. CASE /\ held' = held \cup {Lock(d, n)}
             /\ proc'[n].pc = "leased" /\ proc'[n].path = p /\ proc'[n].dir = d
    <3>1. Lock(d, n) \in held' /\ Lock(d, n)[1] = d /\ Lock(d, n)[3] = n
      BY <2>3 DEF Lock
    <3>2. \E h \in held : h[1] = p /\ h[3] = n
      BY <1>2 DEF HomeInv, Owners, Holds, p
    <3>3. Holds(n, proc[n].path)' /\ Holds(n, proc[n].dir)'
      BY <2>3, <3>1, <3>2 DEF Holds
    <3>4. QED
      BY <2>1, <2>3, <3>3 DEF Owners
  <2>4. QED
    BY <1>5, <2>2, <2>3
<1>9. InPlace => InPlace'
  <2> SUFFICES ASSUME InPlace, NEW m \in Launch, proc'[m].pc \in Owning
               PROVE  at'[proc'[m].path] = proc'[m].dir
    BY DEF InPlace
  <2>1. CASE m = n
    BY <1>3, <1>5, <2>1 DEF Owning
  <2>2. CASE m # n
    <3>1. /\ proc'[m] = proc[m] /\ proc[m].pc \in Owning /\ at[proc[m].path] = proc[m].dir
          /\ proc[m].dir \in Dir /\ proc[m].path \in Path
      BY <1>2, <1>5, <2>2 DEF InPlace, HomeInv, Owners, ProcType
    <3>2. QED
      BY <1>3, <3>1, HomeAssumption
  <2>3. QED
    BY <2>1, <2>2
<1>10. Meddled'
  BY <1>2, <1>9 DEF HomeInv, Meddled, Kept
<1>11. QED
  BY <1>4, <1>6, <1>7, <1>8, <1>10 DEF HomeInv

\* Of the two locks, the directory's goes first.
LEMMA ReleaseLegacyHome ==
    ASSUME HomeInv, NEW n \in Launch, ReleaseLegacy(n) PROVE HomeInv'
<1>1. /\ UNCHANGED <<at, file, meddling, discovery, credentials>>
      /\ proc[n].pc = "undiscovered" /\ held' = {h \in held : h[3] # n \/ h[1] # proc[n].dir}
      /\ proc \in [Launch -> ProcType] /\ proc' \in [Launch -> ProcType]
      /\ proc'[n].pc = "half" /\ proc'[n].path = proc[n].path
      /\ \A m \in Launch : m # n => proc'[m] = proc[m]
  BY DEF ReleaseLegacy, At, Unchanged, HomeInv, HomeTyped, ProcType, Stage
<1>2. proc[n].path # proc[n].dir
  BY <1>1, HomeAssumption DEF HomeInv, Owners, Owning, ProcType
<1>3. MovesOn(n)
  BY <1>1, <1>2 DEF MovesOn, Owning
<1>4. \A m \in Launch : m # n => MovesOn(m)
  BY <1>1 DEF MovesOn
<1>5. Locks'
  BY <1>1, LocksShrink
<1>6. QED
  BY <1>1, <1>3, <1>4, <1>5, HomeKept DEF HomeInv, HomeTyped

\* A removed lock file leaves every home in its place ...
LEMMA RemoveLockFileHome ==
    ASSUME HomeInv, NEW l \in LockPath, RemoveLockFile(l) PROVE HomeInv'
<1>1. /\ UNCHANGED <<at, held, proc, discovery, credentials>> /\ meddling' = meddling + 1
      /\ meddling < MaxMeddling /\ meddling \in Nat /\ file \in [LockPath -> Nat]
      /\ file' = [file EXCEPT ![l] = file[l] + 1] /\ MaxMeddling \in Nat
  BY HomeAssumption DEF RemoveLockFile, HomeInv, HomeTyped
<1>2. /\ file' \in [LockPath -> Nat]
      /\ \A k \in LockPath : file[k] <= file'[k] /\ (k # l => file'[k] = file[k])
  BY <1>1
<1>3. HomeTyped'
  BY <1>1, <1>2 DEF HomeInv, HomeTyped
<1>4. Locks'
  <2>1. \A h \in held : h[1] \in LockPath => h[2] <= file'[h[1]]
    BY <1>1, <1>2 DEF HomeInv, Locks
  <2>2. QED
    BY <1>1, <2>1 DEF HomeInv, Locks
<1>5. Owners' /\ OnePlace'
  BY <1>1 DEF HomeInv, Owners, Holds, OnePlace
<1>6. Meddled'
  <2>1. meddling' = 1 => InPlace /\ \A k \in LockPath : k # l => Kept(k)'
    BY <1>1, <1>2 DEF HomeInv, HomeTyped, Meddled, Kept
  <2>2. InPlace' <=> InPlace
    BY <1>1 DEF InPlace
  <2>3. QED
    BY <1>1, <2>1, <2>2 DEF Meddled
<1>7. QED
  BY <1>3, <1>4, <1>5, <1>6 DEF HomeInv

\* ... and a moved home leaves the lock files.
LEMMA MoveHomeHome ==
    ASSUME HomeInv, NEW p \in Path, NEW q \in Path, MoveHome(p, q) PROVE HomeInv'
<1>1. /\ UNCHANGED <<file, held, proc, discovery, credentials>> /\ meddling' = meddling + 1
      /\ meddling < MaxMeddling /\ meddling \in Nat /\ at \in [Path -> Dir \cup {None}]
      /\ at' = [at EXCEPT ![p] = None, ![q] = at[p]] /\ MaxMeddling \in Nat
      /\ at[p] # None /\ at[q] = None
      /\ file \in [LockPath -> Nat]
  BY HomeAssumption DEF MoveHome, HomeInv, HomeTyped
<1>2. /\ p # q /\ at' \in [Path -> Dir \cup {None}] /\ at'[p] = None /\ at'[q] = at[p]
      /\ \A r \in Path \ {p, q} : at'[r] = at[r]
  BY <1>1
<1>3. HomeTyped'
  BY <1>1, <1>2 DEF HomeInv, HomeTyped
<1>4. Locks' /\ Owners'
  BY <1>1 DEF HomeInv, Locks, Owners, Holds
<1>5. OnePlace'
  BY <1>1, <1>2 DEF HomeInv, OnePlace
<1>6. Meddled'
  BY <1>1 DEF HomeInv, HomeTyped, Meddled, Kept
<1>7. QED
  BY <1>3, <1>4, <1>5, <1>6 DEF HomeInv

-----------------------------------------------------------------------------
(* One owner *)

\* Two owners of one directory have locked two files of its name, so the first
\* was removed; then nobody moved a home, both are at the same path, and that
\* guard was not removed too.
LEMMA OneOwnerHolds == HomeInv /\ meddling <= 1 => OneOwner
<1> SUFFICES ASSUME HomeInv, meddling <= 1, NEW m \in Launch, NEW n \in Launch,
                    proc[m].pc \in Owning, proc[n].pc \in Owning, proc[m].dir = proc[n].dir
             PROVE  m = n
  BY DEF OneOwner
<1> DEFINE d == proc[m].dir
<1>1. PICK h \in held : h[1] = d /\ h[3] = m
  BY DEF HomeInv, Owners, Holds
<1>2. PICK k \in held : k[1] = d /\ k[3] = n
  BY DEF HomeInv, Owners, Holds
<1>3. /\ d \in Dir /\ d \in LockPath /\ d # None /\ file[d] \in Nat /\ h[2] \in Nat /\ k[2] \in Nat
      /\ h[2] <= file[d] /\ k[2] <= file[d] /\ file[d] <= meddling /\ meddling \in Nat
  BY <1>1, <1>2, HomeAssumption DEF HomeInv, HomeTyped, Owners, LockPath, Locks
<1>4. CASE h[2] = k[2]
  BY <1>1, <1>2, <1>4 DEF HomeInv, Locks
<1>5. CASE h[2] # k[2]
  <2>1. ~Kept(d) /\ meddling = 1
    BY <1>3, <1>5 DEF Kept
  <2>2. InPlace /\ \A l \in LockPath : l # d => Kept(l)
    BY <1>3, <2>1 DEF HomeInv, Meddled
  <2>3. /\ proc[m].path = proc[n].path
        /\ proc[m].path \in Path /\ proc[m].path \in LockPath /\ proc[m].path # d
    BY <1>3, <2>2, HomeAssumption DEF InPlace, HomeInv, OnePlace, HomeTyped, ProcType, LockPath
  <2>4. PICK g \in held : g[1] = proc[m].path /\ g[3] = m
    BY DEF HomeInv, Owners, Holds
  <2>5. PICK f \in held : f[1] = proc[m].path /\ f[3] = n
    BY <2>3 DEF HomeInv, Owners, Holds
  <2>6. g[2] \in Nat /\ f[2] \in Nat /\ g[2] <= 0 /\ f[2] <= 0
    BY <2>2, <2>3, <2>4, <2>5 DEF HomeInv, Locks, Kept
  <2>7. QED
    BY <2>4, <2>5, <2>6 DEF HomeInv, Locks
<1>6. QED
  BY <1>4, <1>5

PublishedBy(n) ==
    /\ proc[n].pc \in {"credential", "open", "serving"} => n \in credentials[proc[n].dir]
    /\ proc[n].pc = "serving" => discovery[proc[n].dir] = n

\* A step of one owner, which touches the files of its own directory only.
LEMMA OwnerPublishes ==
    ASSUME HomeInv, meddling <= 1, Published, NEW n \in Launch, proc[n].pc \in Owning,
           \A m \in Launch : m # n => proc'[m] = proc[m],
           \A d \in Dir : d # proc[n].dir =>
              credentials'[d] = credentials[d] /\ discovery'[d] = discovery[d],
           PublishedBy(n)'
    PROVE  Published'
<1> SUFFICES ASSUME NEW m \in Launch, m # n PROVE PublishedBy(m)'
  BY DEF Published, PublishedBy
<1>1. proc'[m] = proc[m]
  OBVIOUS
<1>2. CASE proc[m].pc \in {"credential", "open", "serving"}
  <2>1. proc[m].dir # proc[n].dir /\ proc[m].dir \in Dir
    BY <1>2, OneOwnerHolds DEF OneOwner, HomeInv, Owners, Owning
  <2>2. QED
    BY <1>1, <1>2, <2>1 DEF Published, PublishedBy
<1>3. CASE proc[m].pc \notin {"credential", "open", "serving"}
  BY <1>1, <1>3 DEF PublishedBy
<1>4. QED
  BY <1>2, <1>3

\* A step that publishes and removes nothing.
LEMMA PublishedKept ==
    ASSUME Published, UNCHANGED <<discovery, credentials>>,
           \A m \in Launch :
              \/ proc'[m].pc \notin {"credential", "open", "serving"}
              \/ proc'[m] = proc[m]
    PROVE  Published'
BY DEF Published

\* Every step of a daemon, and its start in a terminal.
LEMMA DaemonFiles ==
    ASSUME FilesInv, NEW n \in Launch,
           \/ DaemonStep(n) \/ StartFails(n) \/ Drain(n) \/ Die(n)
           \/ \E p \in Path : RunForeground(n, p)
    PROVE  FilesInv'
<1> USE DEF FilesInv
<1>1. /\ proc \in [Launch -> ProcType] /\ discovery \in [Dir -> Launch \cup {None}]
      /\ credentials \in [Dir -> SUBSET Launch] /\ MaxMeddling \in Nat /\ meddling \in Nat
      /\ proc[n].pc \in Owning => proc[n].dir \in Dir
  BY HomeAssumption DEF HomeInv, HomeTyped, Owners
<1>2. ASSUME NEW s \in Owning, s \notin {"credential", "open", "serving"},
             proc[n].pc \in Owning, At(n, s),
             UNCHANGED <<at, file, held, meddling, discovery, credentials>>
      PROVE  FilesInv'
  <2>1. HomeInv'
    BY <1>1, <1>2, StageHome
  <2>2. \A m \in Launch : proc'[m].pc \notin {"credential", "open", "serving"} \/ proc'[m] = proc[m]
    BY <1>1, <1>2 DEF At, ProcType
  <2>3. QED
    BY <1>2, <2>1, <2>2, PublishedKept
<1>3. ASSUME proc' = [proc EXCEPT ![n].pc = "dead"], held' = held \ HeldBy(n),
             UNCHANGED <<at, file, meddling, discovery, credentials>>
      PROVE  FilesInv'
  <2>1. HomeInv'
    BY <1>3, ExitHome
  <2>2. \A m \in Launch : proc'[m].pc \notin {"credential", "open", "serving"} \/ proc'[m] = proc[m]
    BY <1>1, <1>3 DEF ProcType
  <2>3. QED
    BY <1>3, <2>1, <2>2, PublishedKept
<1>4. ASSUME NEW s \in Owning, proc[n].pc \in Owning, At(n, s),
             UNCHANGED <<at, file, held, meddling>>,
             discovery' \in [Dir -> Launch \cup {None}], credentials' \in [Dir -> SUBSET Launch],
             \A d \in Dir : d # proc[n].dir =>
                credentials'[d] = credentials[d] /\ discovery'[d] = discovery[d],
             meddling <= 1 => PublishedBy(n)'
      PROVE  FilesInv'
  <2>1. HomeInv'
    BY <1>4, StageHome
  <2>2. \A m \in Launch : m # n => proc'[m] = proc[m]
    BY <1>1, <1>4 DEF At
  <2>3. QED
    BY <1>4, <2>1, <2>2, OwnerPublishes
<1>5. CASE AcquireExternal(n)
  <2>1. \A m \in Launch : proc'[m].pc \notin {"credential", "open", "serving"} \/ proc'[m] = proc[m]
    BY <1>1, <1>5 DEF AcquireExternal, Exit, At, ProcType
  <2>2. QED
    BY <1>5, <2>1, AcquireExternalHome, PublishedKept DEF AcquireExternal, Unchanged
<1>6. CASE AcquireLegacy(n)
  <2>1. \A m \in Launch : proc'[m].pc \notin {"credential", "open", "serving"} \/ proc'[m] = proc[m]
    BY <1>1, <1>6 DEF AcquireLegacy, Exit, At, ProcType
  <2>2. QED
    BY <1>6, <2>1, AcquireLegacyHome, PublishedKept DEF AcquireLegacy
<1>7. CASE ReleaseLegacy(n)
  <2>1. \A m \in Launch : proc'[m].pc \notin {"credential", "open", "serving"} \/ proc'[m] = proc[m]
    BY <1>1, <1>7 DEF ReleaseLegacy, At, ProcType
  <2>2. QED
    BY <1>7, <2>1, ReleaseLegacyHome, PublishedKept DEF ReleaseLegacy, Unchanged
<1>8. CASE CloseFails(n) \/ ReleaseExternal(n) \/ Die(n)
  BY <1>3, <1>8 DEF CloseFails, ReleaseExternal, Die, Exit, At, Unchanged
<1>9. CASE StartFails(n) \/ Drain(n) \/ CloseLedger(n)
  BY <1>2, <1>9 DEF StartFails, Drain, CloseLedger, Unchanged, Owning
<1>10. CASE CleanCredential(n)
  <2>1. /\ proc[n].pc = "leased" /\ proc[n].dir \in Dir
        /\ credentials' = [credentials EXCEPT ![proc[n].dir] =
                              credentials[proc[n].dir] \ {discovery[proc[n].dir]}]
        /\ \E s \in {"clean", "cleaning"} : At(n, s)
        /\ UNCHANGED <<at, file, held, meddling, discovery>>
    BY <1>1, <1>10 DEF CleanCredential, Owning
  <2>2. /\ credentials' \in [Dir -> SUBSET Launch]
        /\ \A d \in Dir : d # proc[n].dir => credentials'[d] = credentials[d]
    BY <1>1, <2>1
  <2>3. proc'[n].pc \in {"clean", "cleaning"}
    BY <1>1, <2>1 DEF At, ProcType
  <2>4. PublishedBy(n)'
    BY <2>3 DEF PublishedBy
  <2>5. QED
    BY <1>1, <1>4, <2>1, <2>2, <2>4 DEF Owning
<1>11. CASE CleanDiscovery(n)
  <2>1. /\ proc[n].pc = "cleaning" /\ proc[n].dir \in Dir /\ At(n, "clean")
        /\ discovery' = [discovery EXCEPT ![proc[n].dir] = None]
        /\ UNCHANGED <<at, file, held, meddling, credentials>>
    BY <1>1, <1>11 DEF CleanDiscovery, Owning
  <2>2. /\ discovery' \in [Dir -> Launch \cup {None}]
        /\ \A d \in Dir : d # proc[n].dir => discovery'[d] = discovery[d]
    BY <1>1, <2>1
  <2>3. PublishedBy(n)'
    BY <1>1, <2>1 DEF PublishedBy, At, ProcType
  <2>4. QED
    BY <1>1, <1>4, <2>1, <2>2, <2>3 DEF Owning
<1>12. CASE CreateCredential(n)
  <2>1. /\ proc[n].pc = "clean" /\ proc[n].dir \in Dir /\ At(n, "credential")
        /\ credentials' = [credentials EXCEPT ![proc[n].dir] = credentials[proc[n].dir] \cup {n}]
        /\ UNCHANGED <<at, file, held, meddling, discovery>>
    BY <1>1, <1>12 DEF CreateCredential, Owning
  <2>2. /\ credentials' \in [Dir -> SUBSET Launch] /\ n \in credentials'[proc[n].dir]
        /\ \A d \in Dir : d # proc[n].dir => credentials'[d] = credentials[d]
    BY <1>1, <2>1
  <2>3. PublishedBy(n)'
    BY <1>1, <2>1, <2>2 DEF PublishedBy, At, ProcType
  <2>4. QED
    BY <1>1, <1>4, <2>1, <2>2, <2>3 DEF Owning
<1>13. CASE OpenLedger(n)
  <2>1. /\ proc[n].pc = "credential" /\ At(n, "open")
        /\ UNCHANGED <<at, file, held, meddling, discovery, credentials>>
    BY <1>13 DEF OpenLedger, Unchanged
  <2>2. meddling <= 1 => PublishedBy(n)'
    BY <1>1, <2>1 DEF Published, PublishedBy, At, ProcType
  <2>3. QED
    BY <1>1, <1>4, <2>1, <2>2 DEF Owning
<1>14. CASE Publish(n)
  <2>1. /\ proc[n].pc = "open" /\ proc[n].dir \in Dir /\ At(n, "serving")
        /\ discovery' = [discovery EXCEPT ![proc[n].dir] = n]
        /\ UNCHANGED <<at, file, held, meddling, credentials>>
    BY <1>1, <1>14 DEF Publish, Owning
  <2>2. /\ discovery' \in [Dir -> Launch \cup {None}] /\ discovery'[proc[n].dir] = n
        /\ \A d \in Dir : d # proc[n].dir => discovery'[d] = discovery[d]
    BY <1>1, <2>1
  <2>3. meddling <= 1 => PublishedBy(n)'
    BY <1>1, <2>1, <2>2 DEF Published, PublishedBy, At, ProcType
  <2>4. QED
    BY <1>1, <1>4, <2>1, <2>2, <2>3 DEF Owning
<1>15. CASE RemoveCredential(n)
  <2>1. /\ proc[n].pc = "closed" /\ proc[n].dir \in Dir /\ At(n, "uncredentialed")
        /\ credentials' = [credentials EXCEPT ![proc[n].dir] = credentials[proc[n].dir] \ {n}]
        /\ UNCHANGED <<at, file, held, meddling, discovery>>
    BY <1>1, <1>15 DEF RemoveCredential, Owning
  <2>2. /\ credentials' \in [Dir -> SUBSET Launch]
        /\ \A d \in Dir : d # proc[n].dir => credentials'[d] = credentials[d]
    BY <1>1, <2>1
  <2>3. PublishedBy(n)'
    BY <1>1, <2>1 DEF PublishedBy, At, ProcType
  <2>4. QED
    BY <1>1, <1>4, <2>1, <2>2, <2>3 DEF Owning
<1>16. CASE RemoveDiscovery(n)
  <2>1. /\ proc[n].pc = "uncredentialed" /\ proc[n].dir \in Dir /\ At(n, "undiscovered")
        /\ \E x \in Launch \cup {None} : discovery' = [discovery EXCEPT ![proc[n].dir] = x]
        /\ UNCHANGED <<at, file, held, meddling, credentials>>
    BY <1>1, <1>16 DEF RemoveDiscovery, Owning
  <2>2. /\ discovery' \in [Dir -> Launch \cup {None}]
        /\ \A d \in Dir : d # proc[n].dir => discovery'[d] = discovery[d]
    BY <1>1, <2>1
  <2>3. PublishedBy(n)'
    BY <1>1, <2>1 DEF PublishedBy, At, ProcType
  <2>4. QED
    BY <1>1, <1>4, <2>1, <2>2, <2>3 DEF Owning
<1>17. ASSUME NEW p \in Path, RunForeground(n, p) PROVE FilesInv'
  <2>1. HomeInv'
    BY <1>17, BornHome DEF RunForeground
  <2>2. \A m \in Launch : proc'[m].pc \notin {"credential", "open", "serving"} \/ proc'[m] = proc[m]
    BY <1>1, <1>17 DEF RunForeground, Born, Unborn
  <2>3. QED
    BY <1>17, <2>1, <2>2, PublishedKept DEF RunForeground
<1>18. QED
  BY <1>5, <1>6, <1>7, <1>8, <1>9, <1>10, <1>11, <1>12, <1>13, <1>14, <1>15, <1>16, <1>17
     DEF DaemonStep

\* Somebody's meddling publishes nothing and removes nothing that was published.
LEMMA MeddlingFiles ==
    ASSUME FilesInv,
           \/ \E l \in LockPath : RemoveLockFile(l)
           \/ \E p, q \in Path : MoveHome(p, q)
    PROVE  FilesInv'
<1>1. HomeInv' /\ UNCHANGED <<proc, discovery, credentials>>
  BY RemoveLockFileHome, MoveHomeHome DEF FilesInv, RemoveLockFile, MoveHome
<1>2. meddling' <= 1 => meddling <= 1
  BY DEF FilesInv, HomeInv, HomeTyped, RemoveLockFile, MoveHome
<1>3. QED
  BY <1>1, <1>2, PublishedKept DEF FilesInv

\* The locks of a command are none of a home's.
LEMMA CommandFiles ==
    ASSUME FilesInv, UNCHANGED <<at, file, meddling, discovery, credentials, proc>>, Locks',
           \A h \in held : h[3] \in Launch => h \in held'
    PROVE  FilesInv'
BY CliHome, PublishedKept DEF FilesInv

-----------------------------------------------------------------------------
(* The invariant of the commands *)

Exists(n) == n \in Launch /\ proc[n].pc # "unborn"

Dead(n) == n \in Launch /\ proc[n].pc = "dead"

\* A command at work.  What it terminates has been started and is guarded by no
\* other command; what it removes is dead; what it spawns has its directory.
CommandInv(c) ==
    /\ cli[c].cmd = "stop" => cli[c].pc \in {"look", "shutdown", "wait", "remove"}
    /\ cli[c].cmd = "start" => cli[c].pc \notin {"shutdown", "wait"}
    /\ cli[c].cmd = "start" /\ cli[c].pc \notin {"idle", "look", "launch"} =>
          cli[c].own \in Launch /\ <<cli[c].own, 0, c>> \in held
    /\ cli[c].pc \in {"note", "await", "shutdown", "wait"} => Exists(cli[c].own)
    /\ cli[c].pc = "terminate" =>
          Exists(cli[c].prior) /\ (cli[c].prior = cli[c].own \/ ~Guarded(cli[c].prior))
    /\ cli[c].pc = "remove" =>
          Dead(cli[c].prior) /\ (cli[c].cmd = "stop" => cli[c].prior = cli[c].own)
    /\ cli[c].pc = "spawn" /\ proc[cli[c].own].pc = "unborn" => evidence[cli[c].own] = "empty"

\* Evidence with metadata is of a process that was started, and no evidence is
\* of a launch without a background process.
EvidenceInv ==
    /\ evidence \in [Launch -> EvidenceType]
    /\ \A n \in Launch : evidence[n] \in {"known", "quarantine"} => proc[n].pc # "unborn"
    /\ LiveDaemonHasEvidence

\* Only what is dead has lost its pid.
RecycledDead == recycled \subseteq {n \in Launch : proc[n].pc = "dead"}

ControlInv ==
    /\ FilesInv
    /\ cli \in [Cli -> CliType]
    /\ \A c \in Cli : CommandInv(c)
    /\ EvidenceInv
    /\ RecycledDead
    /\ OnlyItsOwnIsSignalled

\* Nobody is born twice or raised from the dead.
Mortal ==
    \A n \in Launch : /\ proc[n].pc # "unborn" => proc'[n].pc # "unborn"
                      /\ proc[n].pc = "dead" => proc'[n].pc = "dead"

\* Only a launch that was not started is guarded anew.
NoNewGuard == \A h \in held' : h[1] \in Launch => h \in held \/ proc[h[1]].pc = "unborn"

\* A launch that was started is identified by its pid and start time exactly while
\* it is alive, whoever has its pid afterwards.
LEMMA ExactIsAlive ==
    ASSUME ControlInv, NEW n \in Launch
    PROVE  Exact(n) <=> Alive(n)
<1>1. n \in recycled => ~Alive(n)
  BY DEF ControlInv, RecycledDead, Alive
<1>2. QED
  BY <1>1 DEF Exact, Found, StartTime

\* The dead stay dead, and so does what is recycled.
LEMMA RecycledKept ==
    ASSUME ControlInv, Mortal, recycled' = recycled
    PROVE  RecycledDead'
BY DEF ControlInv, RecycledDead, Mortal

\* Command b is not the one that moves.
Rests(b) ==
    /\ cli'[b] = cli[b]
    /\ \A n \in Launch : <<n, 0, b>> \in held => <<n, 0, b>> \in held'
    /\ cli[b].pc = "spawn" /\ proc[cli[b].own].pc = "unborn" =>
          evidence'[cli[b].own] = evidence[cli[b].own]

\* What a command at rest knows stays true.
LEMMA RestsKept ==
    ASSUME ControlInv, Mortal, NoNewGuard, NEW b \in Cli, Rests(b)
    PROVE  CommandInv(b)'
<1>1. CommandInv(b) /\ cli'[b] = cli[b] /\ cli[b] \in CliType
  BY DEF ControlInv, Rests
<1>2. cli[b].cmd = "start" /\ cli[b].pc \notin {"idle", "look", "launch"} =>
         cli[b].own \in Launch /\ <<cli[b].own, 0, b>> \in held'
  BY <1>1 DEF CommandInv, Rests
<1>3. cli[b].pc \in {"note", "await", "shutdown", "wait"} =>
         cli[b].own \in Launch /\ proc'[cli[b].own].pc # "unborn"
  BY <1>1 DEF CommandInv, Exists, Mortal
<1>4. cli[b].pc = "terminate" =>
         /\ cli[b].prior \in Launch /\ proc'[cli[b].prior].pc # "unborn"
         /\ cli[b].prior = cli[b].own \/ \A h \in held' : h[1] # cli[b].prior
  BY <1>1 DEF CommandInv, Exists, Mortal, NoNewGuard, Guarded
<1>5. cli[b].pc = "remove" =>
         /\ cli[b].prior \in Launch /\ proc'[cli[b].prior].pc = "dead"
         /\ cli[b].cmd = "stop" => cli[b].prior = cli[b].own
  BY <1>1 DEF CommandInv, Dead, Mortal
<1>6. cli[b].pc = "spawn" /\ proc'[cli[b].own].pc = "unborn" => evidence'[cli[b].own] = "empty"
  <2>1. cli[b].pc = "spawn" => cli[b].own \in Launch
    BY <1>1 DEF CommandInv, CliType
  <2>2. QED
    BY <1>1, <2>1 DEF CommandInv, Mortal, Rests
<1>7. QED
  BY <1>1, <1>2, <1>3, <1>4, <1>5, <1>6 DEF CommandInv, Exists, Dead, Guarded

\* The daemons and those who meddle leave the commands alone.
LEMMA ControlKept ==
    ASSUME ControlInv, FilesInv', UNCHANGED <<cli, evidence, wronged>>, Mortal, NoNewGuard,
           RecycledDead',
           \A h \in held : h[3] \in Cli => h \in held',
           \A n \in Launch : proc'[n].pc \notin {"unborn", "dead"} /\ proc'[n].background =>
                                proc[n].pc \notin {"unborn", "dead"} /\ proc[n].background
    PROVE  ControlInv'
<1>1. \A b \in Cli : Rests(b)
  BY DEF Rests
<1>2. \A b \in Cli : CommandInv(b)'
  BY <1>1, RestsKept
<1>3. EvidenceInv'
  BY DEF ControlInv, EvidenceInv, LiveDaemonHasEvidence, Alive, Mortal
<1>4. QED
  BY <1>2, <1>3 DEF ControlInv, OnlyItsOwnIsSignalled

\* A command moves, and the daemons at most die.
LEMMA CommandMoves ==
    ASSUME ControlInv, FilesInv', NEW c \in Cli, CommandInv(c)', cli' \in [Cli -> CliType],
           \A b \in Cli \ {c} : Rests(b), Mortal, NoNewGuard, EvidenceInv', wronged' = {},
           recycled' = recycled
    PROVE  ControlInv'
BY RestsKept, RecycledKept DEF ControlInv, OnlyItsOwnIsSignalled

\* The evidence after a step that kills at most and writes one launch's.
LEMMA EvidenceMoves ==
    ASSUME ControlInv, Mortal,
           \A n \in Launch : proc'[n].pc \notin {"unborn", "dead"} /\ proc'[n].background =>
                                proc[n].pc \notin {"unborn", "dead"} /\ proc[n].background,
           NEW m \in Launch, NEW e \in EvidenceType, evidence' = [evidence EXCEPT ![m] = e],
           e \in {"known", "quarantine"} => proc'[m].pc # "unborn",
           e = "none" => proc'[m].pc = "dead"
    PROVE  EvidenceInv'
<1>1. /\ evidence \in [Launch -> EvidenceType] /\ evidence' \in [Launch -> EvidenceType]
      /\ evidence'[m] = e /\ \A n \in Launch : n # m => evidence'[n] = evidence[n]
  BY DEF ControlInv, EvidenceInv
<1>2. \A n \in Launch : evidence'[n] \in {"known", "quarantine"} => proc'[n].pc # "unborn"
  BY <1>1 DEF ControlInv, EvidenceInv, Mortal
<1>3. LiveDaemonHasEvidence'
  BY <1>1 DEF ControlInv, EvidenceInv, LiveDaemonHasEvidence, Alive
<1>4. QED
  BY <1>1, <1>2, <1>3 DEF EvidenceInv

\* A command that returns gives back its locks and knows nothing any more.
LEMMA DoneMoves ==
    ASSUME ControlInv, NEW c \in Cli, Done(c), Control, UNCHANGED proc
    PROVE  /\ FilesInv' /\ CommandInv(c)' /\ cli' \in [Cli -> CliType] /\ Mortal /\ NoNewGuard
           /\ \A b \in Cli \ {c} : cli'[b] = cli[b]
           /\ \A h \in held : h[3] # c => h \in held'
<1>1. Idle \in CliType /\ Idle.pc = "idle" /\ Idle.cmd = "start"
  BY DEF Idle, CliType
<1>2. /\ held' = held \ HeldBy(c) /\ cli' = [cli EXCEPT ![c] = Idle] /\ cli \in [Cli -> CliType]
      /\ UNCHANGED <<at, file, meddling, discovery, credentials>>
  BY DEF Done, Control, ControlInv
<1>3. \A h \in held : h[3] # c => h \in held'
  BY <1>2 DEF HeldBy
<1>4. c \notin Launch
  BY ControlAssumption
<1>5. FilesInv'
  <2>1. Locks'
    BY <1>2, LocksShrink DEF ControlInv, FilesInv
  <2>2. QED
    BY <1>2, <1>3, <1>4, <2>1, CommandFiles DEF ControlInv
<1>6. CommandInv(c)'
  BY <1>1, <1>2 DEF CommandInv
<1>7. QED
  BY <1>1, <1>2, <1>3, <1>5, <1>6 DEF Mortal, NoNewGuard

\* Each launch has one guard at most.
LEMMA OneGuard ==
    ASSUME HomeInv, NEW n \in Launch, NEW h \in held, h[1] = n, NEW c \in Cli, <<n, 0, c>> \in held
    PROVE  h[3] = c
BY DEF HomeInv, Locks

-----------------------------------------------------------------------------
(* Each step of a command *)

\* A command returns and leaves the evidence as it is.
LEMMA ReturnControl ==
    ASSUME ControlInv, NEW c \in Cli, Done(c), Control, UNCHANGED <<proc, evidence, wronged>>
    PROVE  ControlInv'
<1>1. \A b \in Cli \ {c} : Rests(b)
  BY DoneMoves DEF Rests
<1>2. EvidenceInv' /\ wronged' = {}
  BY DEF ControlInv, EvidenceInv, LiveDaemonHasEvidence, Alive, OnlyItsOwnIsSignalled
<1>3. QED
  BY <1>1, <1>2, DoneMoves, CommandMoves DEF Control

\* A command changes its own state and nothing else.
LEMMA ThinkControl ==
    ASSUME ControlInv, NEW c \in Cli, UNCHANGED <<held, proc, evidence, wronged>>, Control,
           NEW row \in CliType, cli' = [cli EXCEPT ![c] = row], CommandInv(c)'
    PROVE  ControlInv'
<1>1. /\ cli' \in [Cli -> CliType] /\ \A b \in Cli \ {c} : cli'[b] = cli[b]
      /\ UNCHANGED <<at, file, meddling, discovery, credentials, recycled>>
  BY DEF ControlInv, Control
<1>2. \A b \in Cli \ {c} : Rests(b)
  BY <1>1 DEF Rests
<1>3. FilesInv'
  BY <1>1, CommandFiles, LocksShrink DEF ControlInv, FilesInv
<1>4. EvidenceInv' /\ wronged' = {} /\ Mortal /\ NoNewGuard
  BY DEF ControlInv, EvidenceInv, LiveDaemonHasEvidence, Alive, OnlyItsOwnIsSignalled, Mortal,
         NoNewGuard
<1>5. QED
  BY <1>1, <1>2, <1>3, <1>4, CommandMoves

\* The process that daemon.json names is a launch.
LEMMA NamedTyped == ASSUME ControlInv, Named # None PROVE Named \in Launch
BY HomeAssumption DEF ControlInv, FilesInv, HomeInv, HomeTyped, Named

\* The coordination lock.
LEMMA CoordinateControl ==
    ASSUME ControlInv, NEW c \in Cli, NEW cmd \in {"start", "stop"}, Coordinate(c, cmd)
    PROVE  ControlInv'
<1> DEFINE row == [Idle EXCEPT !.pc = "look", !.cmd = cmd]
<1>1. row \in CliType /\ row.pc = "look"
  BY DEF Idle, CliType
<1>2. /\ held' = held \cup {Lock("coordinator", c)} /\ ~Locked("coordinator")
      /\ cli' = [cli EXCEPT ![c] = row] /\ cli \in [Cli -> CliType]
      /\ UNCHANGED <<at, file, meddling, discovery, credentials, recycled, proc, evidence, wronged>>
  BY DEF Coordinate, Control, ControlInv
<1> HIDE DEF row
<1>3. Lock("coordinator", c)[1] = "coordinator" /\ "coordinator" \in LockPath
      /\ "coordinator" \notin Launch
  BY ControlAssumption DEF Lock, LockPath
<1>4. FilesInv'
  BY <1>2, <1>3, LocksGrow, CommandFiles DEF ControlInv, FilesInv
<1>5. CommandInv(c)'
  BY <1>1, <1>2 DEF CommandInv, CliType
<1>6. \A b \in Cli \ {c} : Rests(b)
  BY <1>2 DEF Rests
<1>7. EvidenceInv' /\ wronged' = {} /\ Mortal /\ NoNewGuard
  BY <1>2, <1>3 DEF ControlInv, EvidenceInv, LiveDaemonHasEvidence, Alive, OnlyItsOwnIsSignalled,
       Mortal, NoNewGuard
<1>8. QED
  BY <1>1, <1>2, <1>4, <1>5, <1>6, <1>7, CommandMoves

\* The first look at daemon.json.
LEMMA LookControl ==
    ASSUME ControlInv, NEW c \in Cli, LookToLaunch(c) \/ LookToStop(c) \/ LookIsEnough(c)
    PROVE  ControlInv'
<1>1. cli[c] \in CliType /\ cli \in [Cli -> CliType]
  BY DEF ControlInv
<1>2. CASE LookToLaunch(c)
  <2> DEFINE row == [cli[c] EXCEPT !.pc = "launch"]
  <2>1. row \in CliType /\ row.pc = "launch" /\ row.cmd = "start"
    BY <1>1, <1>2 DEF LookToLaunch, CliType
  <2>2. cli' = [cli EXCEPT ![c] = row]
    BY <1>1, <1>2 DEF LookToLaunch, Go
  <2> HIDE DEF row
  <2>3. CommandInv(c)'
    BY <1>1, <2>1, <2>2 DEF CommandInv
  <2>4. QED
    BY <1>2, <2>1, <2>2, <2>3, ThinkControl DEF LookToLaunch
<1>3. CASE LookToStop(c)
  <2> DEFINE row == [cli[c] EXCEPT !.pc = "shutdown", !.own = Named]
  <2>1. Named \in Launch /\ proc[Named].pc # "unborn" /\ proc' = proc
    BY <1>3, NamedTyped DEF LookToStop, Answers, Loadable, Alive
  <2>2. row \in CliType /\ row.pc = "shutdown" /\ row.cmd = "stop" /\ row.own = Named
    BY <1>1, <1>3, <2>1 DEF LookToStop, CliType
  <2>3. cli' = [cli EXCEPT ![c] = row]
    BY <1>1, <1>3 DEF LookToStop
  <2> HIDE DEF row
  <2>4. CommandInv(c)'
    BY <1>1, <2>1, <2>2, <2>3 DEF CommandInv, Exists
  <2>5. QED
    BY <1>3, <2>2, <2>3, <2>4, ThinkControl DEF LookToStop
<1>4. CASE LookIsEnough(c)
  BY <1>4, ReturnControl DEF LookIsEnough
<1>5. QED
  BY <1>2, <1>3, <1>4

\* A launch that was not started and is not guarded.
LEMMA GuardControl ==
    ASSUME ControlInv, NEW c \in Cli, NEW n \in Launch, Guard(c, n)
    PROVE  ControlInv'
<1> DEFINE row == [cli[c] EXCEPT !.pc = "recover", !.own = n]
<1>1. cli[c] \in CliType /\ cli \in [Cli -> CliType] /\ cli[c].cmd = "start"
  BY DEF ControlInv, CommandInv, CliType, Guard
<1>2. row \in CliType /\ row.pc = "recover" /\ row.cmd = "start" /\ row.own = n
  BY <1>1 DEF CliType
<1>3. /\ held' = held \cup {<<n, 0, c>>} /\ ~Guarded(n) /\ proc[n].pc = "unborn"
      /\ cli' = [cli EXCEPT ![c] = row]
      /\ UNCHANGED <<at, file, meddling, discovery, credentials, recycled, proc, evidence, wronged>>
  BY <1>1 DEF Guard, Control
<1> HIDE DEF row
<1>4. FilesInv'
  BY <1>3, LocksGuard, CommandFiles DEF ControlInv, FilesInv
<1>5. CommandInv(c)'
  BY <1>1, <1>2, <1>3 DEF CommandInv
<1>6. \A b \in Cli \ {c} : Rests(b)
  BY <1>1, <1>3 DEF Rests
<1>7. EvidenceInv' /\ wronged' = {} /\ Mortal /\ NoNewGuard
  BY <1>3 DEF ControlInv, EvidenceInv, LiveDaemonHasEvidence, Alive, OnlyItsOwnIsSignalled,
       Mortal, NoNewGuard
<1>8. QED
  BY <1>1, <1>2, <1>3, <1>4, <1>5, <1>6, <1>7, CommandMoves

\* A command goes on and rewrites the evidence of a launch that was started.
LEMMA NoteControl ==
    ASSUME ControlInv, NEW c \in Cli, UNCHANGED <<held, proc, wronged>>, Control,
           NEW row \in CliType, cli' = [cli EXCEPT ![c] = row], CommandInv(c)',
           NEW m, Exists(m), NEW e \in EvidenceType, evidence' = [evidence EXCEPT ![m] = e],
           e = "none" => Dead(m)
    PROVE  ControlInv'
<1>1. /\ cli' \in [Cli -> CliType] /\ \A b \in Cli \ {c} : cli'[b] = cli[b]
      /\ UNCHANGED <<at, file, meddling, discovery, credentials, recycled>> /\ m \in Launch
      /\ proc[m].pc # "unborn"
  BY DEF ControlInv, Control, Exists
<1>2. \A b \in Cli \ {c} : Rests(b)
  BY <1>1 DEF Rests, ControlInv, EvidenceInv
<1>3. FilesInv'
  BY <1>1, CommandFiles, LocksShrink DEF ControlInv, FilesInv
<1>4. wronged' = {} /\ Mortal /\ NoNewGuard
  BY DEF ControlInv, OnlyItsOwnIsSignalled, Mortal, NoNewGuard
<1>5. EvidenceInv'
  BY <1>1, <1>4, EvidenceMoves DEF Dead
<1>6. QED
  BY <1>1, <1>2, <1>3, <1>4, <1>5, CommandMoves

\* What is left of an earlier launch.
LEMMA RecoverControl ==
    ASSUME ControlInv, NEW c \in Cli, NEW m \in Launch, Recover(c, m)
    PROVE  ControlInv'
<1>1. /\ cli[c] \in CliType /\ cli \in [Cli -> CliType] /\ cli[c].cmd = "start"
      /\ cli[c].own \in Launch /\ <<cli[c].own, 0, c>> \in held
      /\ evidence[m] \in EvidenceType /\ proc[m].pc \in Stage
  BY DEF ControlInv, CommandInv, CliType, Recover, EvidenceInv, FilesInv, HomeInv, HomeTyped, ProcType
<1>2. CASE Guarded(m) \/ evidence[m] = "empty"
  BY <1>2, ReturnControl DEF Recover
<1>3. CASE ~(Guarded(m) \/ evidence[m] = "empty")
  <2> DEFINE next == IF Exact(m) THEN "terminate" ELSE "remove"
  <2> DEFINE row == [cli[c] EXCEPT !.prior = m, !.pc = next]
  <2> DEFINE e == IF Exact(m) THEN "known" ELSE "quarantine"
  <2>1. /\ row \in CliType /\ row.pc = next /\ row.cmd = "start"
        /\ row.own = cli[c].own /\ row.prior = m
    BY <1>1 DEF CliType
  <2>2. cli' = [cli EXCEPT ![c] = row] /\ evidence' = [evidence EXCEPT ![m] = e]
        /\ UNCHANGED <<held, proc, wronged>>
    BY <1>1, <1>3 DEF Recover
  <2>3. Exists(m)
    BY <1>1, <1>3 DEF Recover, ControlInv, EvidenceInv, EvidenceType, Exists
  <2>4. /\ next = "terminate" => ~Guarded(m)
        /\ next = "remove" => Dead(m)
        /\ next \in {"terminate", "remove"}
        /\ e \in EvidenceType /\ e # "none"
    BY <1>3, <2>3, ExactIsAlive DEF Exists, Dead, Alive, EvidenceType
  <2> HIDE DEF next, row, e
  <2>5. CommandInv(c)'
    <3>1. cli'[c] = row
      BY <1>1, <2>2
    <3>2. QED
      BY <1>1, <2>1, <2>2, <2>3, <2>4, <3>1 DEF CommandInv, Exists, Dead, Guarded
  <2>6. Control
    BY DEF Recover
  <2>7. QED
    BY <2>1, <2>2, <2>3, <2>4, <2>5, <2>6, NoteControl
<1>4. QED
  BY <1>2, <1>3

\* The exact process is terminated; no other command brings it up.
LEMMA TerminateControl ==
    ASSUME ControlInv, NEW c \in Cli, Terminate(c)
    PROVE  ControlInv'
<1> SUFFICES ASSUME NEW m \in Launch, m = cli[c].prior PROVE ControlInv'
  BY DEF ControlInv, CommandInv, Terminate, Exists
<1> DEFINE row == [cli[c] EXCEPT !.pc = "remove"]
<1>1. /\ cli[c] \in CliType /\ cli \in [Cli -> CliType] /\ cli[c].pc = "terminate"
      /\ proc[m].pc # "unborn"
      /\ m = cli[c].own \/ ~Guarded(m)
      /\ cli[c].cmd = "start" /\ cli[c].own \in Launch /\ <<cli[c].own, 0, c>> \in held
  BY DEF ControlInv, CommandInv, CliType, Terminate, Exists
<1>2. /\ row \in CliType /\ row.pc = "remove" /\ row.cmd = "start"
      /\ row.own = cli[c].own /\ row.prior = m
  BY <1>1 DEF CliType
<1>3. /\ cli' = [cli EXCEPT ![c] = row] /\ evidence' = [evidence EXCEPT ![m] = "quarantine"]
      /\ UNCHANGED <<at, file, meddling, discovery, credentials, recycled>> /\ Signal(m)
      /\ Exact(m) <=> Alive(m)
  BY <1>1, ExactIsAlive DEF Terminate, Go, Control
<1>4. /\ proc \in [Launch -> ProcType] /\ proc' \in [Launch -> ProcType] /\ proc'[m].pc = "dead"
      /\ \A n \in Launch : n # m => proc'[n] = proc[n]
      /\ held' \subseteq held /\ \A h \in held : h[3] # m => h \in held'
  <2>1. proc \in [Launch -> ProcType]
    BY DEF ControlInv, FilesInv, HomeInv, HomeTyped
  <2>2. CASE Alive(m)
    <3>1. proc' = [proc EXCEPT ![m].pc = "dead"] /\ held' = held \ HeldBy(m)
      BY <1>3, <2>2 DEF Signal, Kill
    <3>2. QED
      BY <2>1, <3>1 DEF HeldBy, ProcType, Stage
  <2>3. CASE ~Alive(m)
    <3>1. proc' = proc /\ held' = held
      BY <1>3, <2>3 DEF Signal
    <3>2. proc[m].pc = "dead"
      BY <1>1, <2>3 DEF Alive
    <3>3. QED
      BY <2>1, <3>1, <3>2
  <2>4. QED
    BY <2>2, <2>3
<1>5. wronged' = {}
  <2>1. wronged = {}
    BY DEF ControlInv, OnlyItsOwnIsSignalled
  <2>2. \A h \in held : h[1] = m => cli[h[3]].prior = m
    BY <1>1, OneGuard DEF Guarded, ControlInv, FilesInv
  <2>3. Exact(m) => m \notin recycled
    BY DEF Exact, StartTime
  <2>4. QED
    BY <1>3, <2>1, <2>2, <2>3 DEF Signal, Kill
<1>6. FilesInv'
  <2>1. CASE Alive(m)
    <3>1. proc' = [proc EXCEPT ![m].pc = "dead"] /\ held' = held \ HeldBy(m)
      BY <1>3, <2>1 DEF Signal, Kill
    <3>2. HomeInv /\ UNCHANGED <<at, file, meddling, discovery, credentials, recycled>>
      BY <1>3 DEF ControlInv, FilesInv
    <3>3. HomeInv'
      BY <3>1, <3>2, ExitHome
    <3>4. \A n \in Launch : proc'[n].pc \notin {"credential", "open", "serving"} \/ proc'[n] = proc[n]
      BY <1>4
    <3>5. QED
      BY <1>3, <3>3, <3>4, PublishedKept DEF ControlInv, FilesInv
  <2>2. CASE ~Alive(m)
    <3>1. proc' = proc /\ held' = held
      BY <1>3, <2>2 DEF Signal
    <3>2. QED
      BY <1>3, <3>1, CommandFiles, LocksShrink DEF ControlInv, FilesInv
  <2>3. QED
    BY <2>1, <2>2
<1>7. Mortal /\ NoNewGuard
  BY <1>1, <1>4 DEF Mortal, NoNewGuard
<1> HIDE DEF row
<1>8. EvidenceInv'
  <2>1. \A n \in Launch : proc'[n].pc \notin {"unborn", "dead"} /\ proc'[n].background =>
                             proc[n].pc \notin {"unborn", "dead"} /\ proc[n].background
    BY <1>4
  <2>2. QED
    BY <1>1, <1>3, <1>4, <1>7, <2>1, EvidenceMoves DEF EvidenceType
<1>9. m \notin Cli
  BY <1>1, ControlAssumption
<1>10. CommandInv(c)'
  <2>1. cli'[c] = row /\ <<row.own, 0, c>> \in held'
    BY <1>1, <1>2, <1>3, <1>4, <1>9
  <2>2. QED
    BY <1>1, <1>2, <1>4, <2>1 DEF CommandInv, Dead
<1>11. \A b \in Cli \ {c} : Rests(b)
  <2> SUFFICES ASSUME NEW b \in Cli, b # c PROVE Rests(b)
    OBVIOUS
  <2>1. cli'[b] = cli[b] /\ b # m
    BY <1>1, <1>3, <1>9
  <2>2. \A n \in Launch : <<n, 0, b>> \in held => <<n, 0, b>> \in held'
    BY <1>4, <2>1
  <2>3. cli[b].pc = "spawn" /\ proc[cli[b].own].pc = "unborn" =>
           evidence'[cli[b].own] = evidence[cli[b].own]
    <3>1. cli[b].pc = "spawn" => cli[b].own \in Launch
      BY DEF ControlInv, CommandInv, CliType
    <3>2. \A n \in Launch : n # m => evidence'[n] = evidence[n]
      BY <1>3 DEF ControlInv, EvidenceInv
    <3>3. cli[b].pc = "spawn" /\ proc[cli[b].own].pc = "unborn" =>
             cli[b].own \in Launch /\ cli[b].own # m
      BY <1>1, <3>1
    <3>4. QED
      BY <3>2, <3>3
  <2>4. QED
    BY <2>1, <2>2, <2>3 DEF Rests
<1>12. QED
  BY <1>1, <1>2, <1>3, <1>5, <1>6, <1>7, <1>8, <1>10, <1>11, CommandMoves

\* The evidence of the dead is removed.
LEMMA RemoveControl ==
    ASSUME ControlInv, NEW c \in Cli, Remove(c)
    PROVE  ControlInv'
<1> SUFFICES ASSUME NEW m \in Launch, m = cli[c].prior, proc[m].pc = "dead" PROVE ControlInv'
  BY DEF ControlInv, CommandInv, Remove, Dead
<1>1. /\ cli[c] \in CliType /\ cli \in [Cli -> CliType] /\ cli[c].pc = "remove"
      /\ evidence' = [evidence EXCEPT ![m] = "none"]
      /\ UNCHANGED <<at, file, meddling, discovery, credentials, recycled, proc, wronged>>
      /\ evidence \in [Launch -> EvidenceType] /\ "none" \in EvidenceType
  BY DEF ControlInv, Remove, Control, EvidenceInv, EvidenceType
<1>2. CASE m = cli[c].own
  <2>1. Done(c) /\ Control
    BY <1>2 DEF Remove
  <2>2. \A b \in Cli \ {c} : Rests(b)
    <3>1. \A b \in Cli : cli[b].pc = "spawn" => cli[b].own \in Launch
      BY DEF ControlInv, CommandInv, CliType
    <3>2. \A n \in Launch : n # m => evidence'[n] = evidence[n]
      BY <1>1
    <3>3. QED
      BY <1>1, <2>1, <3>1, <3>2, DoneMoves DEF Rests
  <2>3. EvidenceInv'
    BY <1>1, <2>1, DoneMoves, EvidenceMoves
  <2>4. wronged' = {}
    BY <1>1 DEF ControlInv, OnlyItsOwnIsSignalled
  <2>5. QED
    BY <1>1, <2>1, <2>2, <2>3, <2>4, DoneMoves, CommandMoves
<1>3. CASE m # cli[c].own
  <2> DEFINE row == [cli[c] EXCEPT !.pc = "recover"]
  <2>1. /\ cli[c].cmd = "start" /\ cli[c].own \in Launch /\ <<cli[c].own, 0, c>> \in held
    BY <1>1, <1>3 DEF ControlInv, CommandInv, CliType
  <2>2. row \in CliType /\ row.pc = "recover" /\ row.cmd = "start" /\ row.own = cli[c].own
    BY <1>1, <2>1 DEF CliType
  <2>3. cli' = [cli EXCEPT ![c] = row] /\ held' = held /\ Control
    BY <1>1, <1>3 DEF Remove, Go
  <2> HIDE DEF row
  <2>4. CommandInv(c)'
    BY <1>1, <2>1, <2>2, <2>3 DEF CommandInv
  <2>5. Exists(m) /\ Dead(m)
    BY DEF Exists, Dead
  <2>6. QED
    BY <1>1, <2>2, <2>3, <2>4, <2>5, NoteControl
<1>4. QED
  BY <1>2, <1>3

\* The directory of a launch; only its guard makes it.
LEMMA MakeControl ==
    ASSUME ControlInv, NEW c \in Cli, Make(c)
    PROVE  ControlInv'
<1> SUFFICES ASSUME NEW n \in Launch, n = cli[c].own, <<n, 0, c>> \in held, cli[c].cmd = "start"
             PROVE  ControlInv'
  BY DEF ControlInv, CommandInv, CliType, Make
<1> DEFINE row == [cli[c] EXCEPT !.pc = "spawn"]
<1>1. /\ cli[c] \in CliType /\ cli \in [Cli -> CliType]
      /\ evidence' = [evidence EXCEPT ![n] = "empty"] /\ cli' = [cli EXCEPT ![c] = row]
      /\ UNCHANGED <<at, file, meddling, discovery, credentials, recycled, proc, held, wronged>>
      /\ evidence \in [Launch -> EvidenceType] /\ "empty" \in EvidenceType
  BY DEF ControlInv, Make, Go, Control, EvidenceInv, EvidenceType
<1>2. row \in CliType /\ row.pc = "spawn" /\ row.cmd = "start" /\ row.own = n
  BY <1>1 DEF CliType
<1> HIDE DEF row
<1>3. CommandInv(c)'
  BY <1>1, <1>2 DEF CommandInv
<1>4. \A b \in Cli \ {c} : Rests(b)
  <2>1. \A b \in Cli : cli[b].pc = "spawn" => cli[b].own \in Launch /\ <<cli[b].own, 0, b>> \in held
    BY DEF ControlInv, CommandInv, CliType
  <2>2. \A b \in Cli : <<n, 0, b>> \in held => b = c
    BY DEF ControlInv, FilesInv, HomeInv, Locks
  <2>3. \A b \in Cli \ {c} : cli[b].pc = "spawn" => cli[b].own # n
    BY <2>1, <2>2
  <2>4. QED
    BY <1>1, <2>1, <2>3 DEF Rests
<1>5. Mortal /\ NoNewGuard /\ wronged' = {}
  BY <1>1 DEF Mortal, NoNewGuard, ControlInv, OnlyItsOwnIsSignalled
<1>6. EvidenceInv'
  BY <1>1, <1>5, EvidenceMoves
<1>7. FilesInv'
  BY <1>1, CommandFiles, LocksShrink DEF ControlInv, FilesInv
<1>8. QED
  BY <1>1, <1>2, <1>3, <1>4, <1>5, <1>6, <1>7, CommandMoves

\* The process starts where its directory is, or nothing starts.
LEMMA SpawnControl ==
    ASSUME ControlInv, NEW c \in Cli, Spawn(c)
    PROVE  ControlInv'
<1> SUFFICES ASSUME NEW n \in Launch, n = cli[c].own, <<n, 0, c>> \in held, cli[c].cmd = "start"
             PROVE  ControlInv'
  BY DEF ControlInv, CommandInv, CliType, Spawn
<1>1. CASE Done(c) /\ UNCHANGED proc
  BY <1>1, ReturnControl DEF Spawn
<1>2. CASE Born(n, Home, TRUE) /\ Go(c, "note") /\ UNCHANGED held
  <2> DEFINE row == [cli[c] EXCEPT !.pc = "note"]
  <2> DEFINE new == [Unborn EXCEPT !.pc = "new", !.path = Home, !.background = TRUE]
  <2>1. /\ cli[c] \in CliType /\ cli \in [Cli -> CliType] /\ cli' = [cli EXCEPT ![c] = row]
        /\ UNCHANGED <<at, file, meddling, discovery, credentials, recycled, held, evidence, wronged>>
        /\ proc[n].pc = "unborn" /\ proc' = [proc EXCEPT ![n] = new]
        /\ proc \in [Launch -> ProcType] /\ evidence[n] = "empty"
    BY <1>2 DEF ControlInv, Spawn, Go, Control, Born, FilesInv, HomeInv, HomeTyped, CommandInv
  <2>2. row \in CliType /\ row.pc = "note" /\ row.cmd = "start" /\ row.own = n
    BY <2>1 DEF CliType
  <2>3. new.pc = "new"
    BY DEF Unborn
  <2> HIDE DEF row, new
  <2>4. proc'[n] = new /\ \A m \in Launch : m # n => proc'[m] = proc[m]
    BY <2>1
  <2>5. Mortal /\ NoNewGuard /\ wronged' = {}
    BY <2>1, <2>3, <2>4 DEF Mortal, NoNewGuard, ControlInv, OnlyItsOwnIsSignalled
  <2>6. CommandInv(c)'
    BY <2>1, <2>2, <2>3, <2>4 DEF CommandInv, Exists
  <2>7. \A b \in Cli \ {c} : Rests(b)
    BY <2>1 DEF Rests
  <2>8. EvidenceInv'
    BY <2>1, <2>3, <2>4 DEF ControlInv, EvidenceInv, LiveDaemonHasEvidence, Alive
  <2>9. FilesInv'
    <3>1. HomeInv'
      BY <1>2, <2>1, BornHome, HomeAssumption DEF ControlInv, FilesInv
    <3>2. \A m \in Launch : proc'[m].pc \notin {"credential", "open", "serving"} \/ proc'[m] = proc[m]
      BY <2>3, <2>4
    <3>3. QED
      BY <2>1, <3>1, <3>2, PublishedKept DEF ControlInv, FilesInv
  <2>10. QED
    BY <2>1, <2>2, <2>5, <2>6, <2>7, <2>8, <2>9, CommandMoves
<1>3. QED
  BY <1>1, <1>2 DEF Spawn

\* The process is recorded, or terminated because it cannot be verified.
LEMMA RecordControl ==
    ASSUME ControlInv, NEW c \in Cli, Note(c) \/ StartTimesOut(c)
    PROVE  ControlInv'
<1> SUFFICES ASSUME NEW n \in Launch, n = cli[c].own, <<n, 0, c>> \in held, Exists(n),
                    cli[c].cmd = "start"
             PROVE  ControlInv'
  BY DEF ControlInv, CommandInv, CliType, Note, StartTimesOut
<1> DEFINE waits == [cli[c] EXCEPT !.pc = "await"]
<1> DEFINE ends == [cli[c] EXCEPT !.pc = "terminate", !.prior = n]
<1>1. /\ cli[c] \in CliType /\ cli \in [Cli -> CliType] /\ proc[n].pc # "unborn"
      /\ UNCHANGED <<held, proc, wronged>> /\ Control
      /\ "known" \in EvidenceType
      /\ cli' = [cli EXCEPT ![c] = waits] \/ cli' = [cli EXCEPT ![c] = ends]
  BY DEF ControlInv, Note, StartTimesOut, Go, EvidenceType, Exists
<1>2. /\ waits \in CliType /\ waits.pc = "await" /\ waits.cmd = "start" /\ waits.own = n
      /\ ends \in CliType /\ ends.pc = "terminate" /\ ends.cmd = "start" /\ ends.own = n
      /\ ends.prior = n
  BY <1>1 DEF CliType
<1> HIDE DEF waits, ends
<1>3. CommandInv(c)'
  <2>1. cli'[c] \in {waits, ends}
    BY <1>1
  <2>2. QED
    BY <1>1, <1>2, <2>1 DEF CommandInv, Exists
<1>4. CASE StartTimesOut(c)
  BY <1>1, <1>2, <1>3, <1>4, ThinkControl DEF StartTimesOut
<1>5. CASE Note(c)
  <2>1. evidence' = [evidence EXCEPT ![n] = "known"]
    BY <1>5 DEF Note
  <2>2. QED
    BY <1>1, <1>2, <1>3, <2>1, NoteControl
<1>6. QED
  BY <1>4, <1>5

\* The process has exited by itself, or was asked to.
LEMMA GoneControl ==
    ASSUME ControlInv, NEW c \in Cli, Exited(c) \/ Stopped(c)
    PROVE  ControlInv'
<1> SUFFICES ASSUME NEW n \in Launch, n = cli[c].own, Exists(n) PROVE ControlInv'
  BY DEF ControlInv, CommandInv, Exited, Stopped, Exists
<1> DEFINE row == [cli[c] EXCEPT !.pc = "remove", !.prior = n]
<1>1. /\ cli[c] \in CliType /\ cli \in [Cli -> CliType] /\ cli' = [cli EXCEPT ![c] = row]
      /\ UNCHANGED <<held, proc, wronged>> /\ Control /\ proc[n].pc = "dead"
      /\ "quarantine" \in EvidenceType /\ evidence' = [evidence EXCEPT ![n] = "quarantine"]
  BY ExactIsAlive DEF ControlInv, Exited, Stopped, Gone, Alive, Exists, EvidenceType
<1>2. /\ row \in CliType /\ row.pc = "remove" /\ row.cmd = cli[c].cmd /\ row.own = n
      /\ row.prior = n
  BY <1>1 DEF CliType
<1>3. cli[c].cmd = "start" => <<n, 0, c>> \in held
  BY DEF ControlInv, CommandInv, Exited, Stopped
<1> HIDE DEF row
<1>4. CommandInv(c)'
  BY <1>1, <1>2, <1>3 DEF CommandInv, Dead
<1>5. QED
  BY <1>1, <1>2, <1>4, NoteControl

\* The request to shut down.
LEMMA ShutdownControl ==
    ASSUME ControlInv, NEW c \in Cli, Shutdown(c)
    PROVE  ControlInv'
<1> SUFFICES ASSUME NEW n \in Launch, n = cli[c].own, Exists(n), cli[c].cmd = "stop"
             PROVE  ControlInv'
  BY DEF ControlInv, CommandInv, Shutdown, Exists, CliType
<1>1. CASE proc[n].pc # "serving"
  BY <1>1, ReturnControl DEF Shutdown
<1>2. CASE proc[n].pc = "serving"
  <2> DEFINE row == [cli[c] EXCEPT !.pc = "wait"]
  <2>1. /\ cli[c] \in CliType /\ cli \in [Cli -> CliType] /\ cli' = [cli EXCEPT ![c] = row]
        /\ UNCHANGED <<at, file, meddling, discovery, credentials, recycled, held, evidence, wronged>>
        /\ At(n, "draining") /\ proc \in [Launch -> ProcType]
        /\ discovery \in [Dir -> Launch \cup {None}] /\ credentials \in [Dir -> SUBSET Launch]
    BY <1>2 DEF ControlInv, Shutdown, Go, Control, FilesInv, HomeInv, HomeTyped
  <2>2. row \in CliType /\ row.pc = "wait" /\ row.cmd = "stop" /\ row.own = n
    BY <2>1 DEF CliType
  <2> HIDE DEF row
  <2>3. /\ \A m \in Launch : m # n => proc'[m] = proc[m]
        /\ proc'[n].pc = "draining" /\ proc'[n].background = proc[n].background
    BY <2>1 DEF At, ProcType
  <2>4. Mortal /\ NoNewGuard /\ wronged' = {}
    BY <1>2, <2>1, <2>3 DEF Mortal, NoNewGuard, ControlInv, OnlyItsOwnIsSignalled
  <2>5. CommandInv(c)'
    BY <2>1, <2>2, <2>3 DEF CommandInv, Exists
  <2>6. \A b \in Cli \ {c} : Rests(b)
    BY <2>1 DEF Rests
  <2>7. EvidenceInv'
    BY <1>2, <2>1, <2>3 DEF ControlInv, EvidenceInv, LiveDaemonHasEvidence, Alive
  <2>8. FilesInv'
    <3>1. HomeInv'
      BY <1>2, <2>1, StageHome DEF ControlInv, FilesInv, Owning
    <3>2. \A m \in Launch : proc'[m].pc \notin {"credential", "open", "serving"} \/ proc'[m] = proc[m]
      BY <2>3
    <3>3. QED
      BY <2>1, <3>1, <3>2, PublishedKept DEF ControlInv, FilesInv
  <2>9. QED
    BY <2>1, <2>2, <2>4, <2>5, <2>6, <2>7, <2>8, CommandMoves
<1>3. QED
  BY <1>1, <1>2

\* Whatever a command does.
LEMMA CommandStep ==
    ASSUME ControlInv, NEW c \in Cli,
           \/ Coordinate(c, "start") \/ Coordinate(c, "stop") \/ CliStep(c)
           \/ StartTimesOut(c) \/ CliDies(c)
    PROVE  ControlInv'
<1>1. CASE Started(c) \/ StopTimesOut(c) \/ CliDies(c)
  BY <1>1, ReturnControl DEF Started, StopTimesOut, CliDies
<1>2. CASE LookToLaunch(c) \/ LookToStop(c) \/ LookIsEnough(c)
  BY <1>2, LookControl
<1>3. ASSUME NEW n \in Launch, Guard(c, n) \/ Recover(c, n) PROVE ControlInv'
  BY <1>3, GuardControl, RecoverControl
<1>4. CASE Terminate(c) \/ Remove(c) \/ Make(c) \/ Spawn(c) \/ Note(c) \/ StartTimesOut(c)
  BY <1>4, TerminateControl, RemoveControl, MakeControl, SpawnControl, RecordControl
<1>5. CASE Exited(c) \/ Shutdown(c) \/ Stopped(c)
  BY <1>5, GoneControl, ShutdownControl
<1>6. CASE Coordinate(c, "start") \/ Coordinate(c, "stop")
  BY <1>6, CoordinateControl
<1>7. QED
  BY <1>1, <1>2, <1>3, <1>4, <1>5, <1>6 DEF CliStep

\* What a daemon does to the world of the commands.
LEMMA DaemonControls ==
    ASSUME ControlInv, NEW n \in Launch,
           \/ DaemonStep(n) \/ StartFails(n) \/ Drain(n) \/ Die(n)
           \/ \E p \in Path : RunForeground(n, p),
           UNCHANGED <<evidence, recycled, cli, wronged>>
    PROVE  ControlInv'
<1>1. FilesInv'
  BY DaemonFiles DEF ControlInv
<1>2. /\ proc \in [Launch -> ProcType] /\ n \notin Cli
      /\ \A h \in held : h[3] \in Launch \cup Cli
  BY ControlAssumption DEF ControlInv, FilesInv, HomeInv, HomeTyped, Locks
<1> DEFINE moves == /\ \A m \in Launch : m # n => proc'[m] = proc[m]
                    /\ \/ /\ proc[n].pc \notin {"unborn", "dead"} /\ proc'[n].pc # "unborn"
                          /\ proc'[n].background = proc[n].background
                       \/ proc[n].pc = "unborn" /\ ~proc'[n].background
                    /\ \A h \in held' : h[1] \in Launch => h \in held
                    /\ \A h \in held : h[3] \in Cli => h \in held'
<1>3. ASSUME proc[n].pc \notin {"unborn", "dead"},
             \E x \in Stage \ {"unborn"} : At(n, x), held' \in {held, held \ HeldBy(n)}
      PROVE  moves
  <2>1. /\ \A m \in Launch : m # n => proc'[m] = proc[m]
        /\ proc'[n].pc # "unborn" /\ proc'[n].background = proc[n].background
    BY <1>2, <1>3 DEF At, ProcType
  <2>2. held' \subseteq held /\ \A h \in held : h[3] \in Cli => h \in held'
    BY <1>2, <1>3 DEF HeldBy
  <2>3. QED
    BY <1>3, <2>1, <2>2
<1>4. ASSUME proc[n].pc \notin {"unborn", "dead"}, NEW l \in LockPath,
             held' = held \cup {Lock(l, n)}, NEW d,
             \/ At(n, "external")
             \/ proc' = [proc EXCEPT ![n].pc = "leased", ![n].dir = d]
      PROVE  moves
  <2>1. /\ \A m \in Launch : m # n => proc'[m] = proc[m]
        /\ proc'[n].pc # "unborn" /\ proc'[n].background = proc[n].background
    BY <1>2, <1>4 DEF At, ProcType
  <2>2. Lock(l, n)[1] = l /\ l \notin Launch
    BY ControlAssumption DEF Lock, LockPath
  <2>3. QED
    BY <1>4, <2>1, <2>2
<1>5. moves
  <2>1. CASE AcquireExternal(n)
    <3>1. proc[n].path \in LockPath
      BY <1>2 DEF ProcType, LockPath
    <3>2. proc[n].pc \notin {"unborn", "dead"} /\ "dead" \in Stage \ {"unborn"}
      BY <2>1 DEF AcquireExternal, Stage
    <3>3. CASE Locked(proc[n].path)
      BY <1>3, <2>1, <3>2, <3>3 DEF AcquireExternal, Exit
    <3>4. CASE ~Locked(proc[n].path)
      BY <1>4, <2>1, <3>1, <3>2, <3>4 DEF AcquireExternal
    <3>5. QED
      BY <3>3, <3>4
  <2>2. CASE AcquireLegacy(n)
    <3>1. proc[n].pc \notin {"unborn", "dead"} /\ "dead" \in Stage \ {"unborn"}
      BY <2>2 DEF AcquireLegacy, Stage
    <3>2. PICK d \in Dir : \/ Exit(n)
                           \/ /\ held' = held \cup {Lock(d, n)}
                              /\ proc' = [proc EXCEPT ![n].pc = "leased", ![n].dir = d]
      BY <2>2 DEF AcquireLegacy
    <3>3. CASE Exit(n)
      BY <1>3, <3>1, <3>3 DEF Exit
    <3>4. CASE ~Exit(n)
      BY <1>4, <3>1, <3>2, <3>4 DEF LockPath
    <3>5. QED
      BY <3>3, <3>4
  <2>3. CASE ReleaseLegacy(n)
    <3>1. /\ \A m \in Launch : m # n => proc'[m] = proc[m]
          /\ proc'[n].pc # "unborn" /\ proc'[n].background = proc[n].background
          /\ proc[n].pc = "undiscovered"
      BY <1>2, <2>3 DEF ReleaseLegacy, At, ProcType
    <3>2. held' \subseteq held /\ \A h \in held : h[3] \in Cli => h \in held'
      BY <1>2, <2>3 DEF ReleaseLegacy
    <3>3. QED
      BY <3>1, <3>2
  <2>4. ASSUME NEW p \in Path, RunForeground(n, p) PROVE moves
    <3> DEFINE row == [Unborn EXCEPT !.pc = "new", !.path = p, !.background = FALSE]
    <3>1. row.background = FALSE
      BY DEF Unborn
    <3>2. proc' = [proc EXCEPT ![n] = row] /\ held' = held /\ proc[n].pc = "unborn"
      BY <2>4 DEF RunForeground, Born
    <3> HIDE DEF row
    <3>3. QED
      BY <1>2, <3>1, <3>2
  <2>5. CASE ReleaseExternal(n) \/ CloseFails(n) \/ Die(n)
    BY <1>3, <2>5 DEF ReleaseExternal, CloseFails, Die, Alive, Exit, Stage
  <2>6. CASE \/ CleanCredential(n) \/ CleanDiscovery(n) \/ CreateCredential(n)
             \/ OpenLedger(n) \/ Publish(n) \/ CloseLedger(n)
             \/ RemoveCredential(n) \/ RemoveDiscovery(n)
    BY <1>3, <2>6 DEF CleanCredential, CleanDiscovery, CreateCredential, OpenLedger, Publish,
       CloseLedger, RemoveCredential, RemoveDiscovery, Stage
  <2>7. CASE StartFails(n) \/ Drain(n)
    BY <1>3, <2>7 DEF StartFails, Drain, Stage
  <2>8. QED
    BY <2>1, <2>2, <2>3, <2>4, <2>5, <2>6, <2>7 DEF DaemonStep
<1>6. Mortal
  <2>1. proc[n].pc = "dead" => FALSE
    BY <1>5
  <2>2. QED
    BY <1>5, <2>1 DEF Mortal
<1>7. NoNewGuard
  BY <1>5 DEF NoNewGuard
<1>8. RecycledDead'
  BY <1>6, RecycledKept
<1>9. QED
  BY <1>1, <1>2, <1>5, <1>6, <1>7, <1>8, ControlKept

-----------------------------------------------------------------------------
(* The theorems *)

LEMMA ControlInit == Init => ControlInv
<1> SUFFICES ASSUME Init PROVE ControlInv
  OBVIOUS
<1> USE HomeAssumption
<1>1. Unborn \in ProcType /\ Unborn.pc = "unborn" /\ Idle \in CliType /\ Idle.pc = "idle" /\ Idle.cmd = "start"
  BY DEF Unborn, ProcType, Stage, Idle, CliType
<1>2. \A n \in Launch : proc[n].pc = "unborn"
  BY <1>1 DEF Init, HomeInit
<1>3. HomeTyped
  BY <1>1 DEF Init, HomeInit, HomeTyped, LockPath
<1>4. Locks /\ Owners /\ OnePlace /\ Published
  BY <1>2 DEF Init, HomeInit, Locks, Owners, OnePlace, Published, Owning
<1>5. Meddled
  BY <1>2 DEF Init, HomeInit, Meddled, InPlace, Owning
<1>6. \A c \in Cli : CommandInv(c)
  BY <1>1 DEF Init, CommandInv
<1>7. EvidenceInv /\ RecycledDead /\ OnlyItsOwnIsSignalled
  BY <1>2 DEF Init, EvidenceInv, EvidenceType, LiveDaemonHasEvidence, Alive, RecycledDead,
              OnlyItsOwnIsSignalled
<1>8. cli \in [Cli -> CliType]
  BY <1>1 DEF Init
<1>9. QED
  BY <1>3, <1>4, <1>5, <1>6, <1>7, <1>8 DEF ControlInv, FilesInv, HomeInv

LEMMA ControlStep == ControlInv /\ [Next]_vars => ControlInv'
<1> SUFFICES ASSUME ControlInv, [Next]_vars PROVE ControlInv'
  OBVIOUS
<1>1. ASSUME UNCHANGED <<at, file, held, meddling, discovery, credentials, proc, cli, evidence, wronged>>,
             RecycledDead'
      PROVE  ControlInv'
  <2>1. FilesInv'
    BY <1>1, CommandFiles, LocksShrink DEF ControlInv, FilesInv
  <2>2. Mortal /\ NoNewGuard
    BY <1>1 DEF Mortal, NoNewGuard
  <2>3. QED
    BY <1>1, <2>1, <2>2, ControlKept
<1>2. ASSUME NEW c \in Cli,
             \/ Coordinate(c, "start") \/ Coordinate(c, "stop") \/ CliStep(c)
             \/ StartTimesOut(c) \/ CliDies(c)
      PROVE  ControlInv'
  BY <1>2, CommandStep
<1>3. ASSUME NEW n \in Launch,
             \/ DaemonStep(n) \/ StartFails(n) \/ Drain(n) \/ Die(n)
             \/ \E p \in Path : RunForeground(n, p),
             UNCHANGED <<evidence, recycled, cli, wronged>>
      PROVE  ControlInv'
  BY <1>3, DaemonControls
<1>4. ASSUME \/ \E l \in Path \cup Dir \cup {"coordinator"} : RemoveLockFile(l)
             \/ \E p, q \in Path : MoveHome(p, q),
             UNCHANGED <<evidence, recycled, cli, wronged>>
      PROVE  ControlInv'
  <2>1. FilesInv'
    BY <1>4, MeddlingFiles DEF ControlInv, LockPath
  <2>2. UNCHANGED <<held, proc>>
    BY <1>4 DEF RemoveLockFile, MoveHome
  <2>3. Mortal /\ NoNewGuard
    BY <2>2 DEF Mortal, NoNewGuard
  <2>4. RecycledDead'
    BY <1>4, <2>3, RecycledKept
  <2>5. QED
    BY <1>4, <2>1, <2>2, <2>3, <2>4, ControlKept
<1>5. ASSUME NEW n \in Launch, Recycle(n) PROVE ControlInv'
  <2>1. RecycledDead'
    BY <1>5 DEF Recycle, homeVars, ControlInv, RecycledDead
  <2>2. QED
    BY <1>1, <1>5, <2>1 DEF Recycle, homeVars
<1>6. CASE UNCHANGED vars
  <2>1. RecycledDead'
    BY <1>6 DEF vars, homeVars, ControlInv, RecycledDead
  <2>2. QED
    BY <1>1, <1>6, <2>1 DEF vars, homeVars
<1>7. QED
  BY <1>2, <1>3, <1>4, <1>5, <1>6 DEF Next

LEMMA ControlHolds == Spec => []ControlInv
BY ControlInit, ControlStep, PTL DEF Spec

\* Every variable has its type, and a process between its acquisition of the
\* directory and its release has both locks (RuntimeLease).
THEOREM ControlTyped == Spec => []TypeOK
<1>1. ControlInv => TypeOK
  <2> SUFFICES ASSUME ControlInv PROVE TypeOK
    OBVIOUS
  <2>1. HomeTyped /\ Owners /\ MaxMeddling \in Nat
    BY HomeAssumption DEF ControlInv, FilesInv, HomeInv
  <2>2. \A l \in LockPath : file[l] \in 0 .. MaxMeddling
    BY <2>1 DEF HomeTyped
  <2>3. file \in [Path \cup Dir \cup {"coordinator"} -> 0 .. MaxMeddling]
    BY <2>1, <2>2 DEF HomeTyped, LockPath
  <2>4. ASSUME NEW n \in Launch, proc[n].pc \notin {"unborn", "new", "external", "half", "dead"}
        PROVE  \A l \in {proc[n].path, proc[n].dir} : \E h \in HeldBy(n) : h[1] = l
    <3>1. proc[n].pc \in Owning
      BY <2>1, <2>4 DEF HomeTyped, ProcType, Stage, Owning
    <3>2. Holds(n, proc[n].path) /\ Holds(n, proc[n].dir)
      BY <2>1, <3>1 DEF Owners
    <3>3. QED
      BY <3>2 DEF Holds, HeldBy
  <2>5. QED
    BY <2>1, <2>3, <2>4 DEF TypeOK, HomeTyped, ControlInv, EvidenceInv, RecycledDead
<1>2. QED
  BY <1>1, ControlHolds, PTL

\* After at most one removed lock file or moved home, at most one process has a
\* ledger open: two locks of different files stand behind every SQLite handle, and
\* one act of meddling frees one of them.
THEOREM OneWriterPerHome == Spec => [](meddling <= 1 => OneWriter)
<1>1. ControlInv => (meddling <= 1 => OneWriter)
  BY OneOwnerHolds DEF ControlInv, FilesInv, OneOwner, OneWriter, HasLedger, Owning
<1>2. QED
  BY <1>1, ControlHolds, PTL

\* Under the same bound no start, failure or cleanup of another process takes the
\* daemon.json or the credential of a daemon that serves.
THEOREM ServingStaysDiscoverable == Spec => [](meddling <= 1 => ServingIsDiscoverable)
<1>1. ControlInv => (meddling <= 1 => ServingIsDiscoverable)
  BY DEF ControlInv, FilesInv, Published, ServingIsDiscoverable
<1>2. QED
  BY <1>1, ControlHolds, PTL

\* Where nobody can meddle more than once, both hold without a condition.
THEOREM OneWriterWithinBound ==
  ASSUME MaxMeddling <= 1
  PROVE  Spec => []OneWriter
<1>1. ControlInv => OneWriter
  <2> SUFFICES ASSUME ControlInv PROVE OneWriter
    OBVIOUS
  <2>1. meddling \in 0 .. MaxMeddling /\ MaxMeddling \in Nat
    BY HomeAssumption DEF ControlInv, FilesInv, HomeInv, HomeTyped
  <2>2. meddling <= 1
    BY <2>1
  <2> QED
    BY <2>2, OneOwnerHolds DEF ControlInv, FilesInv, OneOwner, OneWriter, HasLedger, Owning
<1>2. QED
  BY <1>1, ControlHolds, PTL

\* The same for the discovery of a daemon that serves.
THEOREM DiscoverableWithinBound ==
  ASSUME MaxMeddling <= 1
  PROVE  Spec => []ServingIsDiscoverable
<1>1. ControlInv => ServingIsDiscoverable
  <2> SUFFICES ASSUME ControlInv PROVE ServingIsDiscoverable
    OBVIOUS
  <2>1. meddling \in 0 .. MaxMeddling /\ MaxMeddling \in Nat
    BY HomeAssumption DEF ControlInv, FilesInv, HomeInv, HomeTyped
  <2>2. meddling <= 1
    BY <2>1
  <2> QED
    BY <2>2 DEF ControlInv, FilesInv, Published, ServingIsDiscoverable
<1>2. QED
  BY <1>1, ControlHolds, PTL

\* Whatever is done to the files, and whichever command is killed wherever: a daemon
\* that was launched in the background and lives has its launch directory, so the
\* next start terminates it or refuses (DmonAdapter._recover_prior_launches).
THEOREM EveryLaunchLeavesEvidence == Spec => []LiveDaemonHasEvidence
<1>1. ControlInv => LiveDaemonHasEvidence
  BY DEF ControlInv, EvidenceInv
<1>2. QED
  BY <1>1, ControlHolds, PTL

\* No command signals a process that another command is still bringing up: what it
\* terminates is its own launch, or one whose parent guard nobody has, and a guard
\* is taken only for a launch that has not started (terminate_exact).
THEOREM SignalsStayAtHome == Spec => []OnlyItsOwnIsSignalled
<1>1. ControlInv => OnlyItsOwnIsSignalled
  BY DEF ControlInv
<1>2. QED
  BY <1>1, ControlHolds, PTL

=============================================================================
