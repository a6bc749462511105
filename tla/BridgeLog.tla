----------------------------- MODULE BridgeLog ------------------------------
(***************************************************************************)
(* What a hook bridge promises, without queues, connections or retries:    *)
(* captures are accepted in order, and the ledger of a stream is always a  *)
(* prefix of what was accepted.  A clean close certifies all of it; an     *)
(* abandonment ends the stream where it is.                                *)
(***************************************************************************)
EXTENDS Naturals, Sequences

CONSTANTS Instance

VARIABLES
    accepted,   \* per stream, the kinds of the captures accepted so far
    ledger,     \* per stream, the kinds of the captures delivered so far
    fate        \* "live", "clean_closed" or "abandoned"

vars == <<accepted, ledger, fate>>

Init ==
    /\ accepted = [i \in Instance |-> << >>]
    /\ ledger = [i \in Instance |-> << >>]
    /\ fate = [i \in Instance |-> "live"]

\* The bridge learns of an abandonment only later; it accepts until then.
Accept(i, kind) ==
    /\ fate[i] # "clean_closed"
    /\ accepted' = [accepted EXCEPT ![i] = Append(@, kind)]
    /\ UNCHANGED <<ledger, fate>>

\* The next captures, one observation or a whole gap.
Deliver(i, m) ==
    /\ fate[i] = "live"
    /\ m > Len(ledger[i])
    /\ ledger' = [ledger EXCEPT ![i] = SubSeq(accepted[i], 1, m)]
    /\ UNCHANGED <<accepted, fate>>

Close(i) ==
    /\ fate[i] = "live"
    /\ ledger[i] = accepted[i]
    /\ fate' = [fate EXCEPT ![i] = "clean_closed"]
    /\ UNCHANGED <<accepted, ledger>>

Abandon(i) ==
    /\ fate[i] = "live"
    /\ fate' = [fate EXCEPT ![i] = "abandoned"]
    /\ UNCHANGED <<accepted, ledger>>

Next ==
    \E i \in Instance :
      \/ \E kind \in {"observation", "gap"} : Accept(i, kind)
      \/ \E m \in 1 .. Len(accepted[i]) : Deliver(i, m)
      \/ Close(i)
      \/ Abandon(i)

Spec == Init /\ [][Next]_vars
=============================================================================
