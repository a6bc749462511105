---------------------------- MODULE EnergyWorkers ----------------------------
(***************************************************************************)
(* The workers that have energy assessed by the host LLM (hermes/energy.py *)
(* over hermes/energy_client.py) and their calls to the daemon, on top of  *)
(* EnergyLeases.  A worker is one Hermes process.  It has one call open,   *)
(* over a connection of its own; a call that times out is abandoned, and   *)
(* the daemon may still serve it, in any order with later calls.           *)
(***************************************************************************)
EXTENDS EnergyLeases

CONSTANTS
    Worker,
    Refused,         \* results the worker takes and its port refuses to send
    MaxFaults        \* bound of the model on timeouts, crashes and late answers

ASSUME WorkerAssumption == Refused \subseteq Choice /\ MaxFaults \in Nat

VARIABLES
    worker,          \* EnergyAssessmentWorker: its iteration and _terminal_intent
    inbox,           \* requests on their way to the daemon or being served there
    reply,           \* the answer on its way to each worker
    faults

callVars == <<worker, inbox, reply>>
vars == <<energyVars, callVars, faults>>

NoIntent == [op |-> "none", lease |-> NoLease, evidence |-> NoEvidence]
NoReply == [code |-> "none", lease |-> NoLease]
Fresh == [pc |-> "idle", job |-> NoLease, intent |-> NoIntent]

IntentType == [op : {"none", "complete", "fail"}, lease : Lease \cup {NoLease},
               evidence : Evidence]
WorkerType == [pc : {"idle", "waiting", "assessing"}, job : Lease \cup {NoLease},
               intent : IntentType]
RequestType == [from : Worker, live : BOOLEAN, op : {"claim", "complete", "fail"},
                lease : Lease \cup {NoLease}, evidence : Evidence]
Refusal == {"not_found", "integrity", "idempotency_conflict"}
ReplyType == [code : {"none", "claimed", "nothing", "completed", "failed", "superseded"}
                     \cup Refusal,
              lease : Lease \cup {NoLease}]

\* The store, the workers, their calls and the fault budget have their types.
TypeOK ==
    /\ EnergyTypeOK
    /\ worker \in [Worker -> WorkerType]
    /\ inbox \subseteq RequestType
    /\ reply \in [Worker -> ReplyType]
    /\ faults \in 0 .. MaxFaults

Init ==
    /\ EnergyInit
    /\ worker = [w \in Worker |-> Fresh]
    /\ inbox = {}
    /\ reply = [w \in Worker |-> NoReply]
    /\ faults = 0

Fault == faults < MaxFaults /\ faults' = faults + 1

-----------------------------------------------------------------------------
(* One iteration of the worker *)

RequestOf(w) ==
    LET i == worker[w].intent
    IN [from |-> w, live |-> TRUE, op |-> IF i.op = "none" THEN "claim" ELSE i.op,
        lease |-> i.lease, evidence |-> i.evidence]

\* A retained intent is submitted again before anything else is claimed; the
\* port validates the evidence before it connects.
Begin(w) ==
    /\ worker[w].pc = "idle"
    /\ worker[w].intent.evidence \notin Refused
    /\ worker' = [worker EXCEPT ![w].pc = "waiting"]
    /\ inbox' = inbox \cup {RequestOf(w)}
    /\ UNCHANGED <<energyVars, reply, faults>>

\* The host answers or fails; its result is retained before it is submitted.
Assess(w) ==
    /\ worker[w].pc = "assessing"
    /\ \E i \in {[op |-> "complete", lease |-> worker[w].job, evidence |-> c] : c \in Choice}
                \cup {[op |-> "fail", lease |-> worker[w].job, evidence |-> f] : f \in FailureCode} :
          worker' = [worker EXCEPT ![w] = [Fresh EXCEPT !.intent = i]]
    /\ UNCHANGED <<energyVars, inbox, reply, faults>>

\* Mutant: "superseded" is taken for a failure of the call.
ReceiveRetriesSuperseded(w) ==
    LET r == reply[w]
    IN /\ worker[w].pc = "waiting" /\ r # NoReply
       /\ worker' = [worker EXCEPT ![w] =
             CASE r.code = "claimed" -> [Fresh EXCEPT !.pc = "assessing", !.job = r.lease]
               [] r.code \in Refusal \cup {"superseded"} -> [worker[w] EXCEPT !.pc = "idle"]
               [] OTHER -> Fresh]
       /\ reply' = [reply EXCEPT ![w] = NoReply]
       /\ UNCHANGED <<energyVars, inbox, faults>>

\* The answer arrives.  An error keeps the intent; anything else drops it.
Receive(w) ==
    LET r == reply[w]
    IN /\ worker[w].pc = "waiting" /\ r # NoReply
       /\ worker' = [worker EXCEPT ![w] =
             CASE r.code = "claimed" -> [Fresh EXCEPT !.pc = "assessing", !.job = r.lease]
               [] r.code \in Refusal -> [worker[w] EXCEPT !.pc = "idle"]
               [] OTHER -> Fresh]
       /\ reply' = [reply EXCEPT ![w] = NoReply]
       /\ UNCHANGED <<energyVars, inbox, faults>>

\* The call of worker w is given up, on either side of its execution.
Abandon(w) ==
    /\ inbox' = {IF r.from = w THEN [r EXCEPT !.live = FALSE] ELSE r : r \in inbox}
    /\ reply' = [reply EXCEPT ![w] = NoReply]

\* The call fails or times out: the iteration ends, the intent is kept.
CallLost(w) ==
    /\ worker[w].pc = "waiting"
    /\ Fault
    /\ Abandon(w)
    /\ worker' = [worker EXCEPT ![w].pc = "idle"]
    /\ UNCHANGED energyVars

\* The process dies and is started again: the intent, kept in memory, is lost.
Crash(w) ==
    /\ worker[w] # Fresh
    /\ Fault
    /\ Abandon(w)
    /\ worker' = [worker EXCEPT ![w] = Fresh]
    /\ UNCHANGED energyVars

-----------------------------------------------------------------------------
(* The daemon *)

\* Only a caller that still waits gets the answer.
Answer(r, code, l) ==
    /\ inbox' = inbox \ {r}
    /\ reply' = IF r.live THEN [reply EXCEPT ![r.from] = [code |-> code, lease |-> l]]
                          ELSE reply
    /\ UNCHANGED <<worker, faults>>

\* Mutant: a claim returns the lease that is pending already.
ServeClaimAgain(r) ==
    /\ r.op = "claim"
    /\ \/ ClaimNothing /\ ~Taken /\ Answer(r, "nothing", NoLease)
       \/ \E l \in Lease :
             /\ lease[l].status = "pending" /\ lease[l].term = "running"
             /\ UNCHANGED energyVars /\ Answer(r, "claimed", l)
       \/ \E l \in Lease : ClaimLease(l) /\ Answer(r, "claimed", l)

ServeClaim(r) ==
    /\ r.op = "claim"
    /\ \/ ClaimNothing /\ Answer(r, "nothing", NoLease)
       \/ \E l \in Lease : ClaimLease(l) /\ Answer(r, "claimed", l)

\* A call that the store refuses, or has answered before, is answered only.
Settled(r) == ~InTime(r.lease) /\ ~TooLate(r.lease) /\ UNCHANGED energyVars

ServeComplete(r) ==
    /\ r.op = "complete"
    /\ Complete(r.lease, r.evidence) \/ Settled(r)
    /\ Answer(r, TerminalCode(r.lease, "completed", r.evidence), NoLease)

ServeFail(r) ==
    /\ r.op = "fail"
    /\ Fail(r.lease, r.evidence) \/ Settled(r)
    /\ Answer(r, TerminalCode(r.lease, "failed", r.evidence), NoLease)

Serve(r) == ServeClaim(r) \/ ServeComplete(r) \/ ServeFail(r)

\* An abandoned request is never served.
Discard(r) ==
    /\ ~r.live
    /\ inbox' = inbox \ {r}
    /\ UNCHANGED <<energyVars, worker, reply, faults>>

-----------------------------------------------------------------------------
(* The rest of the system, and time *)

Observe(a) == (Propose(a) \/ Settle(a)) /\ UNCHANGED <<callVars, faults>>

InHand(l) ==
    \E w \in Worker : l \in {worker[w].job, worker[w].intent.lease, reply[w].lease}

\* A lease that no worker works on any more runs out.
ExpireOrphan(l) == ~InHand(l) /\ Expire(l) /\ UNCHANGED <<callVars, faults>>

\* The host is too slow, or the answer is: the lease runs out under a worker.
ExpireInHand(l) == InHand(l) /\ Fault /\ Expire(l) /\ UNCHANGED callVars

-----------------------------------------------------------------------------
WorkerNext(w) == Begin(w) \/ Assess(w) \/ Receive(w) \/ CallLost(w) \/ Crash(w)

Next ==
    \/ \E w \in Worker : WorkerNext(w)
    \/ \E r \in inbox : Serve(r) \/ Discard(r)
    \/ \E a \in Action : Observe(a)
    \/ \E l \in Lease : ExpireOrphan(l) \/ ExpireInHand(l)

\* Each worker polls, the host answers or fails, the daemon serves the calls
\* that are waited for, and time passes.
Fairness ==
    /\ \A w \in Worker :
          /\ WF_vars(Begin(w)) /\ WF_vars(Assess(w)) /\ WF_vars(Receive(w))
          /\ WF_vars(\E r \in inbox : r.from = w /\ r.live /\ Serve(r))
    /\ \A l \in Lease : WF_vars(ExpireOrphan(l))

Spec == Init /\ [][Next]_vars
FairSpec == Spec /\ Fairness

-----------------------------------------------------------------------------
(* Properties *)

\* Two workers never assess the same lease, whatever calls were abandoned: the
\* host is asked once per lease.
OneAssessorPerLease ==
    \A w, v \in Worker :
        /\ worker[w].job # NoLease
        /\ worker[w].job \in {worker[v].job, worker[v].intent.lease, reply[v].lease}
        => w = v

\* The daemon never refuses a retained intent.  The worker would submit a
\* refused intent for ever, and claim nothing else.
NoIntentIsRefused == \A w \in Worker : reply[w].code \notin Refusal

\* A worker that hears "completed" or "failed" has exactly its evidence in the
\* store, and drops its intent only if its lease is not pending any more.
AcknowledgedIsStored ==
    \A w \in Worker :
        LET i == worker[w].intent
            l == lease[i.lease]
        IN i.op # "none" /\ reply[w] # NoReply =>
              /\ l.status # "pending"
              /\ reply[w].code \in Verdict =>
                    l.status = reply[w].code /\ l.evidence = i.evidence

\* Every assessment that is asked for gets a verdict, whatever calls and workers are
\* lost on the way.
EveryActionDecided ==
    \A a \in Action : record[a].status = "pending" ~> record[a].status # "pending"

\* Every retained intent is dropped in the end: the store never leaves a worker
\* with an answer it must submit for ever.
IntentsDrain ==
    \A w \in Worker : worker[w].intent # NoIntent ~> worker[w].intent = NoIntent

=============================================================================
