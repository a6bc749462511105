----------------------------- MODULE NamingLeases -----------------------------
(***************************************************************************)
(* How a brain without a name gets one from the host LLM: the naming       *)
(* events of the brains, the registry of names, the leases under which one *)
(* worker at a time is asked (runtime/store.py), and the workers with      *)
(* their retained intents (hermes/identity.py).  A library client may name *)
(* or rename a brain at any time, leases run out under their workers, and  *)
(* calls are lost or served after the caller gave up.                      *)
(***************************************************************************)
EXTENDS Integers, Sequences, FiniteSets, FiniteSetsExt

CONSTANTS
    Brain, Worker, Lease, Name, None,
    Serves,          \* the brain that the profile of each worker resolves to
    Norm,            \* the normalized form of each name
    MaxRenames,      \* bound of the model on namings by library clients
    MaxFaults        \* bound of the model on lost calls and restarted workers

ASSUME NamingAssumption ==
    /\ Serves \in [Worker -> Brain] /\ DOMAIN Norm = Name
    /\ None \notin Name \cup Lease

VARIABLES
    log,             \* the events of each brain that are about its name
    registry,        \* identity_name_registry: the event that named each brain
    lease,           \* identity_naming_lease
    worker,          \* IdentityNamingWorker: its iteration and _terminal_intent
    inbox, reply,    \* calls on their way to the daemon, and answers to workers
    renames, faults

store == <<log, registry, lease>>
calls == <<worker, inbox, reply>>
vars == <<store, calls, renames, faults>>

NamingKind == {"brain.created", "identity.named"}
EventType == [kind : NamingKind \cup {"cognition.requested", "cognition.completed",
                                      "c1.deliberated", "cognition.failed"},
              lease : Lease \cup {None}, name : Name \cup {None}]
LeaseType == [status : {"absent", "pending", "completed", "failed", "superseded"},
              brain : Brain \cup {None}, over : BOOLEAN, choice : Name \cup {None},
              at : Nat, end : Nat]
IntentType == [op : {"claim", "complete", "fail"}, lease : Lease \cup {None},
               choice : Name \cup {None}]

NoRow == [status |-> "absent", brain |-> None, over |-> FALSE, choice |-> None,
          at |-> 0, end |-> 0]
NoIntent == [op |-> "claim", lease |-> None, choice |-> None]
NoReply == [code |-> "none", lease |-> None]
Fresh == [pc |-> "idle", job |-> None, intent |-> NoIntent]

Event(k, l, n) == [kind |-> k, lease |-> l, name |-> n]

\* The positions of the events that name b, and the name they leave at position k.
Namings(b) == {i \in DOMAIN log[b] : log[b][i].kind \in NamingKind /\ log[b][i].name # None}
NameAt(b, k) ==
    LET is == {i \in Namings(b) : i <= k}
    IN IF is = {} THEN None ELSE log[b][Max(is)].name
NameOf(b) == NameAt(b, Len(log[b]))

\* Brains are created with or without a name, and no name twice.
Init ==
    /\ \E f \in [Brain -> Name \cup {None}] :
          /\ \A b, c \in Brain : b # c /\ f[b] # None /\ f[c] # None => Norm[f[b]] # Norm[f[c]]
          /\ log = [b \in Brain |-> <<Event("brain.created", None, f[b])>>]
          /\ registry = [b \in Brain |-> IF f[b] = None THEN 0 ELSE 1]
    /\ lease = [l \in Lease |-> NoRow]
    /\ worker = [w \in Worker |-> Fresh]
    /\ inbox = {} /\ reply = [w \in Worker |-> NoReply]
    /\ renames = 0 /\ faults = 0

Fault == faults < MaxFaults /\ faults' = faults + 1

-----------------------------------------------------------------------------
(* The store: each of these is one transaction *)

Registered(b) == log[b][registry[b]].name
Elsewhere(b) == {c \in Brain \ {b} : registry[c] # 0}

\* Mutant: names are compared as they are written.
TakenAsWritten(n, b) == \E c \in Elsewhere(b) : Registered(c) = n

\* The name, or one that is normalized to the same, belongs to another brain.
Taken(n, b) == \E c \in Elsewhere(b) : Norm[Registered(c)] = Norm[n]

Write(b, events) == log' = [log EXCEPT ![b] = @ \o events]

\* A library client appends identity.named; the unique index refuses a taken name.
Rename(b, n) ==
    /\ renames < MaxRenames /\ renames' = renames + 1
    /\ ~Taken(n, b)
    /\ Write(b, <<Event("identity.named", None, n)>>)
    /\ registry' = [registry EXCEPT ![b] = Len(log[b]) + 1]
    /\ UNCHANGED <<lease, calls, faults>>

Pending(b) == {l \in Lease : lease[l].status = "pending" /\ lease[l].brain = b}

\* An expired lease cites no event, one that came too late the event that named.
Superseded(l) ==
    [lease EXCEPT ![l].status = "superseded",
                  ![l].end = IF lease[l].over THEN 0 ELSE registry[lease[l].brain]]

Swept(b) == IF Pending(b) = {} THEN lease
            ELSE Superseded(CHOOSE l \in Pending(b) : TRUE)

ClaimNothing(b) ==
    /\ \/ NameOf(b) # None /\ lease' = Swept(b)
       \/ /\ NameOf(b) = None /\ \E l \in Pending(b) : ~lease[l].over
          /\ UNCHANGED lease
    /\ UNCHANGED <<log, registry>>

ClaimLease(b, l) ==
    /\ NameOf(b) = None /\ \A m \in Pending(b) : lease[m].over
    /\ lease[l].status = "absent"
    /\ lease' = [Swept(b) EXCEPT ![l] = [NoRow EXCEPT !.status = "pending", !.brain = b,
                                                      !.at = Len(log[b]) + 1]]
    /\ Write(b, <<Event("cognition.requested", l, None)>>)
    /\ UNCHANGED registry

\* Mutant: only the time of the lease counts.
TooLateByTime(l) == lease[l].over

TooLate(l) == lease[l].over \/ NameOf(lease[l].brain) # None

\* The lease ends with the events and, for a choice, with what was chosen.
Decide(l, status, choice, events) ==
    LET b == lease[l].brain
    IN /\ Write(b, events)
       /\ lease' = [lease EXCEPT ![l].status = status, ![l].choice = choice,
                                 ![l].end = Len(log[b]) + Len(events)]

\* complete_identity_naming of a lease that is pending, in time and for a brain
\* without a name.
Conclude(l, n) ==
    LET b == lease[l].brain
    IN \/ /\ Taken(n, b)
          /\ Decide(l, "failed", n, <<Event("cognition.failed", l, n)>>)
          /\ UNCHANGED registry
       \/ /\ ~Taken(n, b)
          /\ Decide(l, "completed", n, <<Event("cognition.completed", l, n),
                                         Event("c1.deliberated", l, n),
                                         Event("identity.named", l, n)>>)
          /\ registry' = [registry EXCEPT ![b] = Len(log[b]) + 3]

\* The first answer decides; a call that comes again is answered from the row.
Settle(l, i) ==
    \/ lease[l].status # "pending" /\ UNCHANGED store
    \/ /\ lease[l].status = "pending" /\ TooLate(l)
       /\ lease' = Superseded(l) /\ UNCHANGED <<log, registry>>
    \/ /\ lease[l].status = "pending" /\ ~TooLate(l)
       /\ \/ i.op = "complete" /\ Conclude(l, i.choice)
          \/ /\ i.op = "fail"
             /\ Decide(l, "failed", None, <<Event("cognition.failed", l, None)>>)
             /\ UNCHANGED registry

\* Mutant: whoever comes second is told what the row became without him.
CodeOfRow(row, i) == IF row.status = "superseded" /\ i.op = "fail" THEN "failed" ELSE row.status

\* The answer to intent i, from the row as the call leaves it.
CodeOf(row, i) ==
    CASE row.status = "completed" /\ i.op = "complete" /\ row.choice = i.choice -> "completed"
      [] row.status = "completed" /\ i.op = "complete" /\ row.choice # i.choice -> "conflict"
      [] row.status = "failed" /\ row.choice = i.choice -> "failed"
      [] row.status = "failed" /\ row.choice # i.choice ->
            IF i.op = "fail" \/ row.choice # None THEN "conflict" ELSE "superseded"
      [] OTHER -> "superseded"

Expire(l) ==
    /\ lease[l].status = "pending" /\ ~lease[l].over
    /\ lease' = [lease EXCEPT ![l].over = TRUE]
    /\ UNCHANGED <<log, registry, calls, renames, faults>>

-----------------------------------------------------------------------------
(* The workers and their calls *)

Call(w) == [from |-> w, live |-> TRUE, intent |-> worker[w].intent]

\* run_once: a retained intent is submitted before anything is claimed.
Begin(w) ==
    /\ worker[w].pc = "idle"
    /\ worker' = [worker EXCEPT ![w].pc = "waiting"]
    /\ inbox' = inbox \cup {Call(w)}
    /\ UNCHANGED <<store, reply, renames, faults>>

\* The host answers with a choice or fails.
Ask(w) ==
    /\ worker[w].pc = "asking"
    /\ \E i \in {[op |-> "complete", lease |-> worker[w].job, choice |-> n] : n \in Name}
                \cup {[op |-> "fail", lease |-> worker[w].job, choice |-> None]} :
          worker' = [worker EXCEPT ![w] = [Fresh EXCEPT !.intent = i]]
    /\ UNCHANGED <<store, inbox, reply, renames, faults>>

\* An answer drops the intent, an error keeps it.
Receive(w) ==
    LET r == reply[w]
    IN /\ worker[w].pc = "waiting" /\ r # NoReply
       /\ worker' = [worker EXCEPT ![w] =
             CASE r.code = "claimed" -> [Fresh EXCEPT !.pc = "asking", !.job = r.lease]
               [] r.code = "conflict" -> [worker[w] EXCEPT !.pc = "idle"]
               [] OTHER -> Fresh]
       /\ reply' = [reply EXCEPT ![w] = NoReply]
       /\ UNCHANGED <<store, inbox, renames, faults>>

\* The call times out and the intent is kept, or the process is restarted and it
\* is not.
Lose(w) ==
    /\ worker[w] # Fresh /\ Fault
    /\ inbox' = {IF r.from = w THEN [r EXCEPT !.live = FALSE] ELSE r : r \in inbox}
    /\ reply' = [reply EXCEPT ![w] = NoReply]
    /\ \/ worker[w].pc = "waiting" /\ worker' = [worker EXCEPT ![w].pc = "idle"]
       \/ worker' = [worker EXCEPT ![w] = Fresh]
    /\ UNCHANGED <<store, renames>>

Answer(r, code, l) ==
    /\ inbox' = inbox \ {r}
    /\ reply' = IF r.live THEN [reply EXCEPT ![r.from] = [code |-> code, lease |-> l]]
                ELSE reply
    /\ UNCHANGED <<worker, renames, faults>>

ServeClaim(r) ==
    /\ r.intent.op = "claim"
    /\ \/ ClaimNothing(Serves[r.from]) /\ Answer(r, "nothing", None)
       \/ \E l \in Lease : ClaimLease(Serves[r.from], l) /\ Answer(r, "claimed", l)

ServeTerminal(r) ==
    LET i == r.intent
    IN /\ i.op # "claim"
       /\ Settle(i.lease, i)
       /\ Answer(r, CodeOf(lease'[i.lease], i), None)

\* A connection that was closed before its request was read.
Discard(r) ==
    /\ ~r.live
    /\ inbox' = inbox \ {r}
    /\ UNCHANGED <<store, worker, reply, renames, faults>>

-----------------------------------------------------------------------------
Next ==
    \/ \E b \in Brain, n \in Name : Rename(b, n)
    \/ \E l \in Lease : Expire(l)
    \/ \E w \in Worker : Begin(w) \/ Ask(w) \/ Receive(w) \/ Lose(w)
    \/ \E r \in inbox : ServeClaim(r) \/ ServeTerminal(r) \/ Discard(r)

Spec == Init /\ [][Next]_vars

-----------------------------------------------------------------------------
(* Properties *)

TypeOK ==
    /\ log \in [Brain -> Seq(EventType)]
    /\ registry \in [Brain -> Nat]
    /\ lease \in [Lease -> LeaseType]
    /\ \A w \in Worker : worker[w].intent \in IntentType

Covered(l) == IF lease[l].status = "completed"
                 THEN {lease[l].at} \cup (lease[l].end - 2) .. lease[l].end
              ELSE IF lease[l].status = "failed" THEN {lease[l].at, lease[l].end}
              ELSE {lease[l].at}

\* The source of a superseded lease named its brain after the request.
SourceAccepted(l) ==
    LET r == lease[l]
    IN r.end # 0 => r.end > r.at /\ r.end \in Namings(r.brain)

RowAccepted(l) ==
    LET r == lease[l]  events == log[r.brain]
    IN /\ NameAt(r.brain, r.at - 1) = None
       /\ events[r.at] = Event("cognition.requested", l, None)
       /\ r.status = "superseded" => SourceAccepted(l)
       /\ r.status = "completed" => events[r.end] = Event("identity.named", l, r.choice)
       /\ r.status = "failed" => events[r.end] = Event("cognition.failed", l, r.choice)

RegistryAccepted ==
    /\ \A b \in Brain : registry[b] = IF Namings(b) = {} THEN 0 ELSE Max(Namings(b))
    /\ \A b, c \in Brain :
          b # c /\ registry[b] # 0 /\ registry[c] # 0 => Norm[Registered(b)] # Norm[Registered(c)]

EachEventCoveredOnce ==
    \A b \in Brain : \A k \in DOMAIN log[b] : log[b][k].lease # None =>
        Cardinality({l \in Lease : lease[l].brain = b /\ k \in Covered(l)}) = 1

IndexesHold ==
    \A l, m \in Lease : l # m /\ lease[l].brain = lease[m].brain /\ lease[l].brain # None =>
        /\ {lease[l].status, lease[m].status} # {"pending"}
        /\ lease[l].end = lease[m].end => lease[l].end = 0

\* The audit of the next start accepts what was written, or the ledger would not
\* open any more: the registry is what replay says and has no name twice once
\* normalized, each lease followed a brain without a name and has its events, each
\* event of the naming belongs to one lease, and no two leases of a brain are
\* pending or end with the same event, which the schema would refuse.
NamingAudit ==
    /\ RegistryAccepted /\ EachEventCoveredOnce /\ IndexesHold
    /\ \A l \in Lease : lease[l].status # "absent" => RowAccepted(l)

\* The host names a brain only while it has no name: an answer that comes after a
\* client, or after another lease, has named the brain never renames it.
NamesOnlyTheUnnamed ==
    \A b \in Brain : \A k \in Namings(b) :
        log[b][k].lease # None => NameAt(b, k - 1) = None

\* What a worker hears is so: its choice was the one that named its brain, or was
\* refused for its name, its failure is recorded, or its lease was superseded; an
\* intent is never refused, for the worker would submit it for ever.
AnswersAreTrue ==
    \A w \in Worker :
        LET i == worker[w].intent
            row == lease[i.lease]
        IN i.op # "claim" /\ reply[w] # NoReply =>
              /\ reply[w].code = row.status
              /\ row.status \in {"completed", "failed"} => row.choice = i.choice
              /\ row.status = "completed" =>
                    log[row.brain][row.end] = Event("identity.named", i.lease, i.choice)
=============================================================================
