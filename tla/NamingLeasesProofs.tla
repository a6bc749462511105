------------------------- MODULE NamingLeasesProofs -------------------------
(* Theorems about NamingLeases for every value of its constants. *)
EXTENDS NamingLeases, SequenceTheorems, FiniteSetTheorems, TLAPS

-----------------------------------------------------------------------------
(* The invariant of the store *)

StoreTyped ==
    /\ log \in [Brain -> Seq(EventType)]
    /\ registry \in [Brain -> Nat]
    /\ lease \in [Lease -> LeaseType]

\* The registry cites the last naming, and the naming of a lease is the first one.
NamesInv(b) ==
    /\ \A k \in Namings(b) : k <= registry[b]
    /\ registry[b] # 0 => registry[b] \in Namings(b)
    /\ \A k \in Namings(b) : log[b][k].lease # None => \A j \in Namings(b) : k <= j

NoNameTwice ==
    \A b, c \in Brain :
        b # c /\ registry[b] # 0 /\ registry[c] # 0 => Norm[Registered(b)] # Norm[Registered(c)]

\* Each event of a lease is one that its row covers ...
EventsInv ==
    \A b \in Brain, l \in Lease : \A k \in DOMAIN log[b] : log[b][k].lease = l =>
        lease[l].status # "absent" /\ lease[l].brain = b /\ k \in Covered(l)

\* ... and a row has its events, the first before any naming of its brain.
RowInv(l) ==
    LET r == lease[l]  b == r.brain
    IN /\ b \in Brain /\ r.at \in DOMAIN log[b]
       /\ log[b][r.at] = Event("cognition.requested", l, None)
       /\ \A k \in Namings(b) : r.at < k
       /\ r.end # 0 => r.at < r.end /\ r.end \in DOMAIN log[b]
       /\ r.status = "pending" => r.end = 0 /\ r.choice = None
       /\ r.status = "superseded" /\ r.end # 0 => r.end \in Namings(b) /\ log[b][r.end].lease = None
       /\ r.status = "completed" =>
             /\ r.choice # None /\ r.at < r.end - 2
             /\ log[b][r.end - 2] = Event("cognition.completed", l, r.choice)
             /\ log[b][r.end - 1] = Event("c1.deliberated", l, r.choice)
             /\ log[b][r.end] = Event("identity.named", l, r.choice)
       /\ r.status = "failed" => r.end # 0 /\ log[b][r.end] = Event("cognition.failed", l, r.choice)

RowsInv == \A l \in Lease : IF lease[l].status = "absent" THEN lease[l] = NoRow ELSE RowInv(l)

\* While a lease is pending, no other lease of its brain has met a name.
Rivals ==
    \A l, m \in Lease :
        l # m /\ lease[l].status # "absent" /\ lease[m].status # "absent"
           /\ lease[l].brain = lease[m].brain =>
              /\ lease[l].status = "pending" =>
                    \/ lease[m].status = "failed"
                    \/ lease[m].status = "superseded" /\ lease[m].end = 0
              /\ lease[l].end = lease[m].end => lease[l].end = 0

StoreInv ==
    StoreTyped /\ (\A b \in Brain : NamesInv(b)) /\ NoNameTwice /\ EventsInv /\ RowsInv /\ Rivals

-----------------------------------------------------------------------------
(* What a transaction that appends keeps *)

\* Every event stays at its place, and a new one comes after all.
Grows ==
    /\ log' \in [Brain -> Seq(EventType)]
    /\ \A b \in Brain : \A k \in DOMAIN log[b] : k \in DOMAIN log'[b] /\ log'[b][k] = log[b][k]

\* A row that at most ran out of time.
SameRow(l) ==
    /\ lease'[l].status = lease[l].status /\ lease'[l].brain = lease[l].brain
    /\ lease'[l].choice = lease[l].choice
    /\ lease'[l].at = lease[l].at /\ lease'[l].end = lease[l].end

\* What appending events to the log of a brain does.
LEMMA WriteFacts ==
    ASSUME StoreTyped, NEW b \in Brain, NEW es \in Seq(EventType), Write(b, es)
    PROVE  /\ Grows
           /\ \A c \in Brain : c # b => log'[c] = log[c]
           /\ Len(log[b]) \in Nat /\ DOMAIN log[b] = 1 .. Len(log[b])
           /\ Len(log'[b]) = Len(log[b]) + Len(es)
           /\ \A k \in DOMAIN log'[b] :
                 k \in DOMAIN log[b] \/ \E j \in 1 .. Len(es) : k = Len(log[b]) + j
           /\ \A j \in 1 .. Len(es) :
                 /\ Len(log[b]) + j \in DOMAIN log'[b]
                 /\ log'[b][Len(log[b]) + j] = es[j]
<1>1. /\ log \in [Brain -> Seq(EventType)] /\ log[b] \in Seq(EventType)
      /\ log' = [log EXCEPT ![b] = log[b] \o es]
  BY DEF StoreTyped, Write
<1> DEFINE old == log[b]
           new == old \o es
<1>2. /\ new \in Seq(EventType) /\ Len(new) = Len(old) + Len(es)
      /\ \A i \in 1 .. Len(old) + Len(es) :
            new[i] = IF i <= Len(old) THEN old[i] ELSE es[i - Len(old)]
  BY <1>1, ConcatProperties
<1>3. Len(old) \in Nat /\ DOMAIN old = 1 .. Len(old) /\ Len(es) \in Nat
  BY <1>1
<1>4. DOMAIN new = 1 .. Len(old) + Len(es)
  BY <1>2, <1>3
<1>5. log'[b] = new /\ \A c \in Brain : c # b => log'[c] = log[c]
  BY <1>1
<1>6. \A k \in DOMAIN old : k \in DOMAIN new /\ new[k] = old[k]
  BY <1>2, <1>3, <1>4
<1>7. Grows
  <2>1. log' \in [Brain -> Seq(EventType)]
    BY <1>1, <1>2
  <2>2. ASSUME NEW c \in Brain, NEW k \in DOMAIN log[c]
        PROVE  k \in DOMAIN log'[c] /\ log'[c][k] = log[c][k]
    <3>1. CASE c = b
      BY <3>1, <1>5, <1>6
    <3>2. CASE c # b
      BY <3>2, <1>5
    <3>3. QED
      BY <3>1, <3>2
  <2>3. QED
    BY <2>1, <2>2 DEF Grows
<1>8. \A k \in DOMAIN new : k \in DOMAIN old \/ \E j \in 1 .. Len(es) : k = Len(old) + j
  <2>1. ASSUME NEW k \in DOMAIN new, k \notin DOMAIN old
        PROVE  \E j \in 1 .. Len(es) : k = Len(old) + j
    <3>1. k \in Int /\ k > Len(old) /\ k <= Len(old) + Len(es)
      BY <2>1, <1>3, <1>4
    <3>2. k - Len(old) \in 1 .. Len(es) /\ k = Len(old) + (k - Len(old))
      BY <3>1, <1>3
    <3>3. QED
      BY <3>2
  <2>2. QED
    BY <2>1
<1>9. \A j \in 1 .. Len(es) : Len(old) + j \in DOMAIN new /\ new[Len(old) + j] = es[j]
  <2>1. TAKE j \in 1 .. Len(es)
  <2>2. Len(old) + j \in 1 .. Len(old) + Len(es) /\ ~(Len(old) + j <= Len(old))
        /\ Len(old) + j - Len(old) = j
    BY <1>3
  <2>3. QED
    BY <2>2, <1>2, <1>4
<1>10. QED
  BY <1>2, <1>3, <1>5, <1>7, <1>8, <1>9

\* A brain has no events after the end of its log, and they are numbered from 1.
LEMMA Positions ==
    ASSUME StoreTyped, NEW b \in Brain
    PROVE  /\ log[b] \in Seq(EventType) /\ Len(log[b]) \in Nat
           /\ DOMAIN log[b] = 1 .. Len(log[b])
           /\ \A k \in DOMAIN log[b] : log[b][k] \in EventType /\ k \in Nat /\ k >= 1
           /\ Namings(b) \subseteq DOMAIN log[b]
           /\ registry[b] \in Nat
<1>1. log[b] \in Seq(EventType) /\ registry[b] \in Nat
  BY DEF StoreTyped
<1>2. \A k \in 1 .. Len(log[b]) : log[b][k] \in EventType
  BY <1>1
<1>3. QED
  BY <1>1, <1>2 DEF Namings

\* A naming stays one, and a new one comes after all that there was.
LEMMA NamingsKept ==
    ASSUME StoreTyped, Grows, NEW b \in Brain
    PROVE  /\ Namings(b) \subseteq Namings(b)'
           /\ \A k \in Namings(b)' : k \notin Namings(b) =>
                 k \in DOMAIN log'[b] \ DOMAIN log[b] /\ k \in Nat /\ k > Len(log[b])
           /\ \A k \in Namings(b)' : k \in DOMAIN log[b] => k \in Namings(b)
<1>1. \A k \in DOMAIN log[b] : k \in DOMAIN log'[b] /\ log'[b][k] = log[b][k]
  BY DEF Grows
<1>2. Namings(b)' = {k \in DOMAIN log'[b] : log'[b][k].kind \in NamingKind /\ log'[b][k].name # None}
  BY DEF Namings
<1>3. log'[b] \in Seq(EventType)
  BY DEF Grows
<1>4. \A k \in DOMAIN log'[b] : k \in Nat /\ k >= 1
  BY <1>3
<1>5. Len(log[b]) \in Nat /\ DOMAIN log[b] = 1 .. Len(log[b])
  BY Positions
<1>6. QED
  BY <1>1, <1>2, <1>4, <1>5 DEF Namings

\* The name of a brain is the one its registry cites; without one there is none.
LEMMA NameFacts ==
    ASSUME StoreTyped, NEW b \in Brain, NamesInv(b)
    PROVE  /\ NameOf(b) = None <=> Namings(b) = {}
           /\ registry[b] = 0 <=> Namings(b) = {}
           /\ registry[b] = IF Namings(b) = {} THEN 0 ELSE Max(Namings(b))
<1>1. /\ DOMAIN log[b] = 1 .. Len(log[b]) /\ Len(log[b]) \in Nat /\ registry[b] \in Nat
      /\ Namings(b) \subseteq DOMAIN log[b] /\ \A k \in DOMAIN log[b] : k \in Nat /\ k >= 1
  BY Positions
<1>2. /\ \A k \in Namings(b) : k <= registry[b]
      /\ registry[b] # 0 => registry[b] \in Namings(b)
  BY DEF NamesInv
<1>3. registry[b] = 0 <=> Namings(b) = {}
  BY <1>1, <1>2
<1>4. ASSUME Namings(b) # {} PROVE Max(Namings(b)) = registry[b]
  <2>1. registry[b] \in Namings(b) /\ \A k \in Namings(b) : registry[b] >= k
    BY <1>1, <1>2, <1>3, <1>4
  <2>2. /\ Max(Namings(b)) \in Namings(b)
        /\ \A k \in Namings(b) : Max(Namings(b)) >= k
    BY <2>1 DEF Max
  <2>3. Max(Namings(b)) >= registry[b] /\ registry[b] >= Max(Namings(b)) /\ Max(Namings(b)) \in Nat
    BY <2>1, <2>2, <1>1
  <2>4. QED
    BY <2>3, <1>1
<1>5. {i \in Namings(b) : i <= Len(log[b])} = Namings(b)
  BY <1>1
<1>6. ASSUME Namings(b) # {} PROVE NameOf(b) # None
  <2>1. NameOf(b) = log[b][Max(Namings(b))].name
    BY <1>5, <1>6 DEF NameOf, NameAt
  <2>2. Max(Namings(b)) \in Namings(b)
    BY <1>2, <1>3, <1>4, <1>6
  <2>3. QED
    BY <2>1, <2>2 DEF Namings
<1>7. Namings(b) = {} => NameOf(b) = None
  BY <1>5 DEF NameOf, NameAt
<1>8. QED
  BY <1>3, <1>4, <1>6, <1>7

\* Before its first naming a brain has no name.
LEMMA Nameless ==
    ASSUME StoreTyped, NEW b \in Brain, NEW k \in Int, \A j \in Namings(b) : k <= j
    PROVE  NameAt(b, k - 1) = None
<1>1. \A j \in Namings(b) : j \in Nat
  BY Positions
<1>2. {i \in Namings(b) : i <= k - 1} = {}
  BY <1>1
<1>3. QED
  BY <1>2 DEF NameAt

\* A row whose lease was not touched keeps its events.
LEMMA RowKept ==
    ASSUME StoreTyped, Grows, NEW l \in Lease, RowInv(l), SameRow(l)
    PROVE  RowInv(l)'
<1> SUFFICES ASSUME NEW b, b = lease[l].brain, NEW at, at = lease[l].at, NEW end, end = lease[l].end
             PROVE  RowInv(l)'
  OBVIOUS
<1>1. /\ lease[l] \in LeaseType /\ at \in Nat /\ end \in Nat
  BY DEF StoreTyped, LeaseType
<1>2. /\ b \in Brain /\ at \in DOMAIN log[b] /\ (end # 0 => at < end /\ end \in DOMAIN log[b])
  BY DEF RowInv
<1>3. /\ DOMAIN log[b] = 1 .. Len(log[b]) /\ Len(log[b]) \in Nat
      /\ \A k \in DOMAIN log[b] : k \in DOMAIN log'[b] /\ log'[b][k] = log[b][k]
  BY <1>2, Positions DEF Grows
<1>4. /\ Namings(b) \subseteq Namings(b)'
      /\ \A k \in Namings(b)' : k \notin Namings(b) => k \in Nat /\ k > Len(log[b])
  <2>1. b \in Brain
    BY <1>2
  <2>2. QED
    BY <2>1, NamingsKept
<1>5. /\ lease'[l].status = lease[l].status /\ lease'[l].brain = b
      /\ lease'[l].choice = lease[l].choice /\ lease'[l].at = at /\ lease'[l].end = end
  BY DEF SameRow
<1>6. \A k \in Namings(b)' : at < k
  <2>1. \A k \in Namings(b) : at < k
    BY DEF RowInv
  <2>2. QED
    BY <2>1, <1>2, <1>3, <1>4
<1>7. lease[l].status = "completed" => end - 2 \in DOMAIN log[b] /\ end - 1 \in DOMAIN log[b]
                                       /\ end \in DOMAIN log[b]
  <2>1. SUFFICES ASSUME lease[l].status = "completed"
                 PROVE  end - 2 \in DOMAIN log[b] /\ end - 1 \in DOMAIN log[b] /\ end \in DOMAIN log[b]
    OBVIOUS
  <2>2. at < end - 2
    BY <2>1 DEF RowInv
  <2>3. end # 0 /\ end \in DOMAIN log[b]
    BY <2>2, <1>1, <1>2
  <2>4. end \in 1 .. Len(log[b]) /\ Len(log[b]) \in Nat
    BY <2>3, <1>3
  <2>5. end - 2 \in 1 .. Len(log[b]) /\ end - 1 \in 1 .. Len(log[b])
    <3>1. ASSUME NEW n \in Nat, n = Len(log[b])
          PROVE  end - 2 \in 1 .. n /\ end - 1 \in 1 .. n
      BY <3>1, <2>2, <2>4, <1>1
    <3> QED
      BY <3>1, <2>4
  <2>6. QED
    BY <2>4, <2>5, <1>3
<1>8. /\ b \in Brain /\ at \in DOMAIN log'[b] /\ log'[b][at] = Event("cognition.requested", l, None)
      /\ (end # 0 => at < end /\ end \in DOMAIN log'[b])
  BY <1>2, <1>3 DEF RowInv
<1>9. /\ lease[l].status = "pending" => end = 0 /\ lease[l].choice = None
      /\ lease[l].status = "superseded" /\ end # 0 =>
            end \in Namings(b)' /\ log'[b][end].lease = None
  BY <1>2, <1>3, <1>4 DEF RowInv
<1>10. lease[l].status = "completed" =>
             /\ lease[l].choice # None /\ at < end - 2
             /\ log'[b][end - 2] = Event("cognition.completed", l, lease[l].choice)
             /\ log'[b][end - 1] = Event("c1.deliberated", l, lease[l].choice)
             /\ log'[b][end] = Event("identity.named", l, lease[l].choice)
  BY <1>3, <1>7 DEF RowInv
<1>11. lease[l].status = "failed" =>
             end # 0 /\ log'[b][end] = Event("cognition.failed", l, lease[l].choice)
  BY <1>2, <1>3 DEF RowInv
<1>12. QED
  BY <1>5, <1>6, <1>8, <1>9, <1>10, <1>11 DEF RowInv, Event

\* The events stay covered when no row loses one and each new event has its row.
LEMMA EventsKept ==
    ASSUME StoreTyped, Grows, EventsInv,
           \A l \in Lease : lease[l].status # "absent" =>
               /\ lease'[l].status # "absent" /\ lease'[l].brain = lease[l].brain
               /\ Covered(l) \subseteq Covered(l)',
           \A b \in Brain, l \in Lease : \A k \in DOMAIN log'[b] :
               k \notin DOMAIN log[b] /\ log'[b][k].lease = l =>
                   lease'[l].status # "absent" /\ lease'[l].brain = b /\ k \in Covered(l)'
    PROVE  EventsInv'
<1> SUFFICES ASSUME NEW b \in Brain, NEW l \in Lease, NEW k \in DOMAIN log'[b], log'[b][k].lease = l
             PROVE  lease'[l].status # "absent" /\ lease'[l].brain = b /\ k \in Covered(l)'
  BY DEF EventsInv
<1>1. CASE k \notin DOMAIN log[b]
  BY <1>1
<1>2. CASE k \in DOMAIN log[b]
  <2>1. log[b][k].lease = l
    BY <1>2 DEF Grows
  <2>2. lease[l].status # "absent" /\ lease[l].brain = b /\ k \in Covered(l)
    BY <1>2, <2>1 DEF EventsInv
  <2>3. QED
    BY <2>2
<1>3. QED
  BY <1>1, <1>2

\* An answer of a lease that is superseded comes after its request, as before.
LEMMA RowSuperseded ==
    ASSUME StoreTyped, Grows, NEW l \in Lease, RowInv(l), lease[l].status = "pending",
           NEW e \in Nat, lease'[l] = [lease[l] EXCEPT !.status = "superseded", !.end = e],
           e # 0 => e \in Namings(lease[l].brain) /\ log[lease[l].brain][e].lease = None
    PROVE  RowInv(l)'
<1> SUFFICES ASSUME NEW b, b = lease[l].brain, NEW at, at = lease[l].at
             PROVE  RowInv(l)'
  OBVIOUS
<1>1. /\ lease[l] \in LeaseType /\ at \in Nat /\ b \in Brain /\ at \in DOMAIN log[b]
      /\ log[b][at] = Event("cognition.requested", l, None)
      /\ \A k \in Namings(b) : at < k
  BY DEF StoreTyped, LeaseType, RowInv
<1>2. /\ lease'[l].status = "superseded" /\ lease'[l].brain = b /\ lease'[l].at = at
      /\ lease'[l].end = e
  BY <1>1 DEF LeaseType
<1>3. /\ DOMAIN log[b] = 1 .. Len(log[b]) /\ Len(log[b]) \in Nat
      /\ \A k \in DOMAIN log[b] : k \in DOMAIN log'[b] /\ log'[b][k] = log[b][k]
  BY <1>1, Positions DEF Grows
<1>4. /\ Namings(b) \subseteq Namings(b)'
      /\ \A k \in Namings(b)' : k \notin Namings(b) => k \in Nat /\ k > Len(log[b])
  BY <1>1, NamingsKept
<1>5. \A k \in Namings(b)' : at < k
  BY <1>1, <1>3, <1>4
<1>6. e # 0 => /\ e \in Namings(b) /\ e \in DOMAIN log[b] /\ log[b][e].lease = None
               /\ at < e
  BY <1>1, Positions
<1>7. e # 0 => e \in Namings(b)' /\ e \in DOMAIN log'[b] /\ log'[b][e].lease = None /\ at < e
  BY <1>3, <1>4, <1>6
<1>8. at \in DOMAIN log'[b] /\ log'[b][at] = Event("cognition.requested", l, None)
  BY <1>1, <1>3
<1>9. QED
  BY <1>1, <1>2, <1>5, <1>7, <1>8 DEF RowInv, Event

\* The names stay right for a brain whose log was not written.
LEMMA NamesSame ==
    ASSUME NEW b, NamesInv(b), log'[b] = log[b], registry'[b] = registry[b]
    PROVE  NamesInv(b)' /\ Namings(b)' = Namings(b) /\ Registered(b)' = Registered(b)
BY DEF NamesInv, Namings, Registered

\* Events that name nobody change no name.
LEMMA NotNamed ==
    ASSUME StoreInv, NEW b \in Brain, NEW es \in Seq(EventType), Write(b, es),
           \A j \in 1 .. Len(es) : es[j].kind \notin NamingKind, registry' = registry
    PROVE  (\A c \in Brain : NamesInv(c)' /\ Namings(c)' = Namings(c)) /\ NoNameTwice'
<1>1. StoreTyped /\ NoNameTwice /\ \A c \in Brain : NamesInv(c)
  BY DEF StoreInv
<1>2. /\ Grows /\ \A c \in Brain : c # b => log'[c] = log[c]
      /\ \A k \in DOMAIN log'[b] :
            k \in DOMAIN log[b] \/ \E j \in 1 .. Len(es) : k = Len(log[b]) + j
      /\ \A j \in 1 .. Len(es) : log'[b][Len(log[b]) + j] = es[j]
  BY <1>1, WriteFacts
<1>3. ASSUME NEW c \in Brain
      PROVE  /\ Namings(c)' = Namings(c)
             /\ \A k \in Namings(c) : log'[c][k] = log[c][k]
  <2>1. CASE c # b
    BY <2>1, <1>2 DEF Namings
  <2>2. CASE c = b
    <3>1. \A k \in Namings(b)' : k \in DOMAIN log[b]
      BY <1>2 DEF Namings
    <3>2. Namings(b)' = Namings(b)
      BY <1>1, <1>2, <3>1, NamingsKept
    <3>3. QED
      BY <2>2, <3>2, <1>2 DEF Grows, Namings
  <2>3. QED
    BY <2>1, <2>2
<1>4. \A c \in Brain : NamesInv(c)'
  BY <1>1, <1>3 DEF NamesInv
<1>5. \A c \in Brain : registry[c] # 0 => Registered(c)' = Registered(c)
  BY <1>1, <1>3 DEF NamesInv, Registered
<1>6. NoNameTwice'
  BY <1>1, <1>5 DEF NoNameTwice
<1>7. QED
  BY <1>3, <1>4, <1>6

\* The last event of a transaction names the brain, with a name that no other has;
\* a lease only names a brain without a name.
LEMMA Named ==
    ASSUME StoreInv, NEW b \in Brain, NEW es \in Seq(EventType), Write(b, es), NEW n \in Name,
           Len(es) >= 1, es[Len(es)].kind = "identity.named", es[Len(es)].name = n,
           \A j \in 1 .. Len(es) : es[j].kind \in NamingKind => j = Len(es),
           es[Len(es)].lease # None => Namings(b) = {},
           registry' = [registry EXCEPT ![b] = Len(log[b]) + Len(es)], ~Taken(n, b)
    PROVE  /\ registry' \in [Brain -> Nat]
           /\ \A c \in Brain : NamesInv(c)'
           /\ NoNameTwice'
           /\ Namings(b)' = Namings(b) \cup {Len(log[b]) + Len(es)}
<1> DEFINE new == Len(log[b]) + Len(es)
<1>1. StoreTyped /\ NoNameTwice /\ (\A c \in Brain : NamesInv(c))
  BY DEF StoreInv
<1>2. /\ Grows /\ (\A c \in Brain : c # b => log'[c] = log[c])
      /\ \A k \in DOMAIN log'[b] :
            k \in DOMAIN log[b] \/ \E j \in 1 .. Len(es) : k = Len(log[b]) + j
      /\ \A j \in 1 .. Len(es) :
            Len(log[b]) + j \in DOMAIN log'[b] /\ log'[b][Len(log[b]) + j] = es[j]
  BY <1>1, WriteFacts
<1>3. /\ Len(es) \in Nat /\ Len(log[b]) \in Nat /\ DOMAIN log[b] = 1 .. Len(log[b])
      /\ new \in Nat /\ registry \in [Brain -> Nat] /\ n # None /\ Namings(b) \subseteq DOMAIN log[b]
  BY <1>1, Positions, NamingAssumption DEF StoreTyped
<1>4. new \in Namings(b)' /\ log'[b][new] = es[Len(es)] /\ new \notin DOMAIN log[b]
  BY <1>2, <1>3 DEF Namings, NamingKind
<1>5. \A k \in Namings(b)' : k \in DOMAIN log[b] \/ k = new
  <2>1. SUFFICES ASSUME NEW k \in Namings(b)', k \notin DOMAIN log[b] PROVE k = new
    OBVIOUS
  <2>2. PICK j \in 1 .. Len(es) : k = Len(log[b]) + j
    BY <2>1, <1>2 DEF Namings
  <2>3. es[j].kind \in NamingKind
    BY <2>1, <2>2, <1>2 DEF Namings
  <2>4. QED
    BY <2>2, <2>3
<1>6. Namings(b)' = Namings(b) \cup {new}
  BY <1>1, <1>2, <1>4, <1>5, NamingsKept
<1>7. registry'[b] = new /\ (\A c \in Brain : c # b => registry'[c] = registry[c])
      /\ registry' \in [Brain -> Nat]
  BY <1>3
<1> HIDE DEF new
<1>8. \A k \in Namings(b) : k \in Nat /\ k < new /\ log'[b][k] = log[b][k]
  BY <1>2, <1>3 DEF Grows, new
<1>9. NamesInv(b)'
  <2>1. \A k \in Namings(b)' : k <= registry'[b]
    BY <1>3, <1>6, <1>7, <1>8
  <2>2. registry'[b] \in Namings(b)'
    BY <1>6, <1>7
  <2>3. ASSUME NEW k \in Namings(b)', log'[b][k].lease # None, NEW j \in Namings(b)'
        PROVE  k <= j
    <3>1. CASE k = new
      BY <3>1, <2>3, <1>3, <1>4, <1>6
    <3>2. CASE k \in Namings(b)
      <4>1. log[b][k].lease # None
        BY <3>2, <2>3, <1>8
      <4>2. \A i \in Namings(b) : k <= i
        BY <3>2, <4>1, <1>1 DEF NamesInv
      <4>3. QED
        BY <3>2, <4>2, <1>3, <1>6, <1>8
    <3>3. QED
      BY <3>1, <3>2, <1>6
  <2>4. QED
    BY <2>1, <2>2, <2>3 DEF NamesInv
<1>10. ASSUME NEW c \in Brain, c # b PROVE NamesInv(c)' /\ Registered(c)' = Registered(c)
  BY <1>10, <1>1, <1>2, <1>7, NamesSame
<1>11. Registered(b)' = n
  BY <1>4, <1>7 DEF Registered
<1>12. NoNameTwice'
  <2>1. \A c \in Brain : c # b /\ registry'[c] # 0 => Norm[Registered(c)'] # Norm[n]
    BY <1>7, <1>10 DEF Taken, Elsewhere
  <2>2. \A c, d \in Brain : c # d /\ c # b /\ d # b /\ registry'[c] # 0 /\ registry'[d] # 0 =>
            Norm[Registered(c)'] # Norm[Registered(d)']
    BY <1>1, <1>7, <1>10 DEF NoNameTwice
  <2>3. QED
    BY <2>1, <2>2, <1>11 DEF NoNameTwice
<1>13. QED
  BY <1>6, <1>7, <1>9, <1>10, <1>12 DEF new

-----------------------------------------------------------------------------
(* Each transaction keeps the invariant of the store *)

\* What a row of the store says of the namings of its brain.
LEMMA RowFacts ==
    ASSUME StoreInv, NEW l \in Lease, lease[l].status # "absent",
           NEW b, b = lease[l].brain
    PROVE  /\ RowInv(l) /\ lease[l] \in LeaseType /\ b \in Brain /\ NamesInv(b)
           /\ lease[l].end \in Nat /\ lease[l].at \in Nat
           /\ lease[l].at \in DOMAIN log[b] /\ lease[l].at <= Len(log[b])
           /\ lease[l].at \notin Namings(b)
           /\ lease[l].end # 0 => lease[l].end \in DOMAIN log[b] /\ lease[l].end <= Len(log[b])
           /\ lease[l].status = "completed" => lease[l].end \in Namings(b)
           /\ lease[l].status = "superseded" /\ lease[l].end # 0 => lease[l].end \in Namings(b)
           /\ lease[l].status = "failed" => lease[l].end \notin Namings(b)
           /\ lease[l].status \in {"pending", "completed", "failed", "superseded"}
<1>1. StoreTyped /\ RowInv(l) /\ lease[l] \in LeaseType
  BY DEF StoreInv, RowsInv, StoreTyped
<1>2. /\ b \in Brain /\ lease[l].at \in DOMAIN log[b]
      /\ log[b][lease[l].at] = Event("cognition.requested", l, None)
      /\ \A k \in Namings(b) : lease[l].at < k
      /\ lease[l].end # 0 => lease[l].at < lease[l].end /\ lease[l].end \in DOMAIN log[b]
      /\ lease[l].status = "superseded" /\ lease[l].end # 0 => lease[l].end \in Namings(b)
      /\ lease[l].status = "completed" =>
            /\ lease[l].choice # None /\ lease[l].at < lease[l].end - 2
            /\ log[b][lease[l].end] = Event("identity.named", l, lease[l].choice)
      /\ lease[l].status = "failed" =>
            log[b][lease[l].end] = Event("cognition.failed", l, lease[l].choice)
  BY <1>1 DEF RowInv
<1>3. /\ lease[l].end \in Nat /\ lease[l].at \in Nat
      /\ lease[l].status \in {"pending", "completed", "failed", "superseded"}
  BY <1>1 DEF LeaseType
<1>4. DOMAIN log[b] = 1 .. Len(log[b]) /\ Len(log[b]) \in Nat
  BY <1>1, <1>2, Positions
<1>5. lease[l].at \notin Namings(b)
  BY <1>2 DEF Event, Namings, NamingKind
<1>6. lease[l].status = "completed" => lease[l].end \in Namings(b)
  <2>1. SUFFICES ASSUME lease[l].status = "completed" PROVE lease[l].end \in Namings(b)
    OBVIOUS
  <2>2. lease[l].end \in DOMAIN log[b]
    BY <2>1, <1>2, <1>3
  <2>3. QED
    BY <2>1, <2>2, <1>2 DEF Event, Namings, NamingKind
<1>7. lease[l].status = "failed" => lease[l].end \notin Namings(b)
  BY <1>2 DEF Event, Namings, NamingKind
<1>8. NamesInv(b)
  BY <1>2 DEF StoreInv
<1>9. QED
  BY <1>1, <1>2, <1>3, <1>4, <1>5, <1>6, <1>7, <1>8

\* While a lease is pending, its brain was named by a client or not at all.
LEMMA NamedByClient ==
    ASSUME StoreInv, NEW l \in Lease, lease[l].status = "pending", NEW b, b = lease[l].brain,
           NEW k, k \in Namings(b)
    PROVE  /\ log[b][k].lease = None
           /\ \A m \in Lease : lease[m].status # "absent" /\ lease[m].brain = b => lease[m].end # k
<1>1. StoreTyped /\ Rivals /\ EventsInv /\ b \in Brain
  BY RowFacts DEF StoreInv
<1>2. k \in DOMAIN log[b] /\ k \in Nat /\ k >= 1 /\ log[b][k] \in EventType
  BY <1>1, Positions
<1>3. ASSUME NEW m \in Lease, lease[m].status # "absent", lease[m].brain = b
      PROVE  k \notin Covered(m) /\ lease[m].end # k
  <2>1. k # lease[m].at
    BY <1>3, RowFacts
  <2>2. CASE m = l
    <3>1. lease[l].end = 0
      BY RowFacts DEF RowInv
    <3>2. QED
      BY <2>1, <2>2, <3>1, <1>2 DEF Covered
  <2>3. CASE m # l
    <3>1. lease[m].status = "failed" \/ (lease[m].status = "superseded" /\ lease[m].end = 0)
      BY <2>3, <1>1, <1>3 DEF Rivals
    <3>2. lease[m].status = "failed" => lease[m].end # k
      BY <1>3, RowFacts
    <3>3. QED
      BY <2>1, <3>1, <3>2, <1>2 DEF Covered
  <2>4. QED
    BY <2>2, <2>3
<1>4. log[b][k].lease = None
  <2>1. SUFFICES ASSUME log[b][k].lease # None PROVE FALSE
    OBVIOUS
  <2>2. log[b][k].lease \in Lease
    BY <2>1, <1>2 DEF EventType
  <2>3. QED
    BY <2>2, <1>1, <1>2, <1>3 DEF EventsInv
<1>5. QED
  BY <1>3, <1>4

\* A library client names a brain.
LEMMA RenameStore ==
    ASSUME StoreInv, NEW b \in Brain, NEW n \in Name, Rename(b, n) PROVE StoreInv'
<1> SUFFICES ASSUME NEW es, es = <<Event("identity.named", None, n)>> PROVE StoreInv'
  OBVIOUS
<1>1. /\ StoreTyped /\ EventsInv /\ RowsInv /\ Rivals
      /\ ~Taken(n, b) /\ Write(b, es) /\ lease' = lease
      /\ registry' = [registry EXCEPT ![b] = Len(log[b]) + 1]
  BY DEF StoreInv, Rename
<1>2. /\ es \in Seq(EventType) /\ Len(es) = 1 /\ es[1] = Event("identity.named", None, n)
  BY DEF EventType, NamingKind, Event
<1>3. /\ es[1].kind = "identity.named" /\ es[1].name = n /\ es[1].lease = None
  BY <1>2 DEF Event
<1>4. /\ Grows
      /\ \A c \in Brain : c # b => log'[c] = log[c]
      /\ \A k \in DOMAIN log'[b] : k \in DOMAIN log[b] \/ k = Len(log[b]) + 1
      /\ log'[b][Len(log[b]) + 1] = es[1]
  <2>1. 1 \in 1 .. Len(es) /\ \A j \in 1 .. Len(es) : j = 1
    BY <1>2
  <2>2. /\ Grows /\ \A c \in Brain : c # b => log'[c] = log[c]
        /\ \A k \in DOMAIN log'[b] :
              k \in DOMAIN log[b] \/ \E j \in 1 .. Len(es) : k = Len(log[b]) + j
        /\ \A j \in 1 .. Len(es) : log'[b][Len(log[b]) + j] = es[j]
    BY <1>1, <1>2, WriteFacts
  <2>3. QED
    BY <2>1, <2>2
<1>5. \A j \in 1 .. Len(es) : es[j].kind \in NamingKind => j = Len(es)
  BY <1>2
<1>6. /\ registry' \in [Brain -> Nat] /\ NoNameTwice' /\ \A c \in Brain : NamesInv(c)'
  <2>1. /\ Len(es) >= 1 /\ es[Len(es)].kind = "identity.named" /\ es[Len(es)].name = n
        /\ (es[Len(es)].lease # None => Namings(b) = {})
        /\ registry' = [registry EXCEPT ![b] = Len(log[b]) + Len(es)]
    BY <1>1, <1>2, <1>3
  <2>2. QED
    BY <2>1, <1>1, <1>2, <1>5, Named
<1>7. StoreTyped'
  BY <1>1, <1>4, <1>6 DEF StoreTyped, Grows
<1>8. \A l \in Lease : Covered(l)' = Covered(l) /\ SameRow(l)
  BY <1>1 DEF Covered, SameRow
<1>9. EventsInv'
  <2>1. ASSUME NEW c \in Brain, NEW l \in Lease, NEW k \in DOMAIN log'[c],
               k \notin DOMAIN log[c]
        PROVE  log'[c][k].lease # l
    BY <2>1, <1>3, <1>4, NamingAssumption
  <2>2. QED
    BY <2>1, <1>1, <1>4, <1>8, EventsKept
<1>10. RowsInv'
  <2>1. \A l \in Lease : lease[l].status # "absent" => RowInv(l)'
    BY <1>1, <1>4, <1>8, RowKept DEF RowsInv
  <2>2. QED
    BY <2>1, <1>1 DEF RowsInv
<1>11. Rivals'
  BY <1>1 DEF Rivals
<1>12. QED
  BY <1>6, <1>7, <1>9, <1>10, <1>11 DEF StoreInv

\* The names do not change with the leases.
LEMMA OnlyRows ==
    ASSUME StoreInv, log' = log, registry' = registry
    PROVE  /\ Grows /\ NoNameTwice' /\ \A b \in Brain : NamesInv(b)' /\ Namings(b)' = Namings(b)
<1>1. StoreTyped /\ NoNameTwice /\ \A b \in Brain : NamesInv(b)
  BY DEF StoreInv
<1>2. Grows
  BY <1>1 DEF Grows, StoreTyped
<1>3. QED
  BY <1>1, <1>2, NamesSame DEF NoNameTwice

\* A lease runs out.
LEMMA ExpireStore == ASSUME StoreInv, NEW l \in Lease, Expire(l) PROVE StoreInv'
<1>1. /\ StoreTyped /\ EventsInv /\ RowsInv /\ Rivals
      /\ lease' = [lease EXCEPT ![l].over = TRUE] /\ log' = log /\ registry' = registry
  BY DEF StoreInv, Expire
<1>2. Grows /\ NoNameTwice' /\ \A b \in Brain : NamesInv(b)'
  BY <1>1, OnlyRows
<1>3. lease \in [Lease -> LeaseType] /\ lease' \in [Lease -> LeaseType]
  BY <1>1 DEF StoreTyped, LeaseType
<1>4. StoreTyped'
  BY <1>1, <1>3 DEF StoreTyped
<1>5. \A m \in Lease : SameRow(m)
  BY <1>1, <1>3 DEF SameRow, LeaseType
<1>6. \A m \in Lease : lease[m].status = "absent" => lease'[m] = lease[m]
  BY <1>1, <1>3 DEF Expire
<1>7. \A m \in Lease : Covered(m)' = Covered(m)
  BY <1>5 DEF Covered, SameRow
<1>8. EventsInv'
  BY <1>1, <1>5, <1>7 DEF EventsInv, SameRow
<1>9. RowsInv'
  <2>1. \A m \in Lease : lease[m].status # "absent" => RowInv(m)'
    BY <1>1, <1>2, <1>5, RowKept DEF RowsInv
  <2>2. QED
    BY <2>1, <1>1, <1>5, <1>6 DEF RowsInv, SameRow
<1>10. Rivals'
  BY <1>1, <1>5 DEF Rivals, SameRow
<1>11. QED
  BY <1>2, <1>4, <1>8, <1>9, <1>10 DEF StoreInv

\* Nothing is written.
LEMMA StoreSame == ASSUME StoreInv, UNCHANGED store PROVE StoreInv'
<1>1. log' = log /\ registry' = registry /\ lease' = lease
  BY DEF store
<1>2. \A b \in Brain : NamesInv(b)' <=> NamesInv(b)
  BY <1>1 DEF NamesInv, Namings
<1>3. \A l \in Lease : RowInv(l)' <=> RowInv(l)
  BY <1>1 DEF RowInv, Namings
<1>4. EventsInv' <=> EventsInv
  BY <1>1 DEF EventsInv, Covered
<1>5. (NoNameTwice' <=> NoNameTwice) /\ (Rivals' <=> Rivals) /\ (StoreTyped' <=> StoreTyped)
  BY <1>1 DEF NoNameTwice, Registered, Rivals, StoreTyped
<1>6. RowsInv'
  BY <1>1, <1>3 DEF StoreInv, RowsInv
<1>7. QED
  BY <1>2, <1>4, <1>5, <1>6 DEF StoreInv

\* A lease that ran out, or whose brain has a name by now, is superseded.
LEMMA SupersedeStore ==
    ASSUME StoreInv, NEW l \in Lease, lease[l].status = "pending", TooLate(l),
           lease' = Superseded(l), log' = log, registry' = registry
    PROVE  StoreInv'
<1> SUFFICES ASSUME NEW b, b = lease[l].brain,
                    NEW e, e = IF lease[l].over THEN 0 ELSE registry[b],
                    NEW row, row = [lease[l] EXCEPT !.status = "superseded", !.end = e]
             PROVE  StoreInv'
  OBVIOUS
<1>1. /\ StoreTyped /\ EventsInv /\ RowsInv /\ Rivals /\ b \in Brain /\ RowInv(l) /\ NamesInv(b)
  BY RowFacts DEF StoreInv
<1>2. /\ lease \in [Lease -> LeaseType] /\ lease[l] \in LeaseType /\ registry[b] \in Nat /\ e \in Nat
  BY <1>1 DEF StoreTyped
<1>3. lease' = [lease EXCEPT ![l] = row]
  BY <1>2 DEF Superseded
<1>4. /\ lease'[l] = [lease[l] EXCEPT !.status = "superseded", !.end = e]
      /\ lease'[l].status = "superseded" /\ lease'[l].brain = b /\ lease'[l].end = e
      /\ lease'[l].at = lease[l].at
      /\ \A m \in Lease : m # l => lease'[m] = lease[m]
      /\ lease' \in [Lease -> LeaseType]
  <2>1. /\ row \in LeaseType /\ row.status = "superseded" /\ row.brain = b /\ row.end = e
        /\ row.at = lease[l].at
    BY <1>2 DEF LeaseType
  <2>2. /\ lease'[l] = row /\ lease' \in [Lease -> LeaseType]
        /\ \A m \in Lease : m # l => lease'[m] = lease[m]
    BY <2>1, <1>2, <1>3
  <2>3. QED
    BY <2>1, <2>2
<1>5. Grows /\ NoNameTwice' /\ \A c \in Brain : NamesInv(c)' /\ Namings(c)' = Namings(c)
  BY OnlyRows
<1>6. e # 0 => /\ e \in Namings(b) /\ log[b][e].lease = None
               /\ \A m \in Lease : lease[m].status # "absent" /\ lease[m].brain = b =>
                     lease[m].end # e
  <2>1. e # 0 => e \in Namings(b)
    BY <1>1 DEF NamesInv
  <2>2. QED
    BY <2>1, NamedByClient
<1>7. RowInv(l)'
  BY <1>1, <1>2, <1>4, <1>5, <1>6, RowSuperseded
<1>8. \A m \in Lease : m # l => SameRow(m)
  BY <1>4 DEF SameRow
<1>9. RowsInv'
  <2>1. ASSUME NEW m \in Lease, m # l
        PROVE  IF lease'[m].status = "absent" THEN lease'[m] = NoRow ELSE RowInv(m)'
    BY <2>1, <1>1, <1>4, <1>5, <1>8, RowKept DEF RowsInv
  <2>2. QED
    BY <2>1, <1>4, <1>7 DEF RowsInv
<1>10. EventsInv'
  <2>1. \A m \in Lease : m # l => Covered(m)' = Covered(m)
    BY <1>4 DEF Covered
  <2>2. Covered(l)' = Covered(l)
    BY <1>4 DEF Covered
  <2>3. \A m \in Lease : lease[m].status # "absent" =>
            lease'[m].status # "absent" /\ lease'[m].brain = lease[m].brain
    BY <1>4
  <2>4. QED
    BY <1>1, <2>1, <2>2, <2>3 DEF EventsInv
<1>11. Rivals'
  <2>1. ASSUME NEW m \in Lease, NEW k \in Lease, m # k, lease'[m].status # "absent",
               lease'[k].status # "absent", lease'[m].brain = lease'[k].brain
        PROVE  /\ lease'[m].status = "pending" =>
                    \/ lease'[k].status = "failed"
                    \/ lease'[k].status = "superseded" /\ lease'[k].end = 0
               /\ lease'[m].end = lease'[k].end => lease'[m].end = 0
    <3>1. /\ lease[m].status # "absent" /\ lease[k].status # "absent"
          /\ lease[m].brain = lease[k].brain
      BY <2>1, <1>4
    <3>2. CASE m # l /\ k # l
      BY <3>1, <3>2, <2>1, <1>1, <1>4 DEF Rivals
    <3>3. CASE m = l
      BY <3>1, <3>3, <2>1, <1>4, <1>6
    <3>4. CASE k = l
      <4>1. lease[m].status # "pending"
        BY <3>1, <3>4, <2>1, <1>1 DEF Rivals
      <4>2. QED
        BY <4>1, <3>1, <3>4, <2>1, <1>4, <1>6
    <3>5. QED
      BY <3>2, <3>3, <3>4
  <2>2. QED
    BY <2>1 DEF Rivals
<1>12. StoreTyped'
  BY <1>1, <1>4 DEF StoreTyped
<1>13. QED
  BY <1>5, <1>9, <1>10, <1>11, <1>12 DEF StoreInv

\* A claim that finds a name or a lease in time.
LEMMA ClaimNothingStore == ASSUME StoreInv, NEW b \in Brain, ClaimNothing(b) PROVE StoreInv'
<1>1. log' = log /\ registry' = registry
  BY DEF ClaimNothing
<1>2. CASE lease' = lease
  BY <1>1, <1>2, StoreSame DEF store
<1>3. CASE lease' # lease
  <2> DEFINE l == CHOOSE m \in Pending(b) : TRUE
  <2>1. NameOf(b) # None /\ Pending(b) # {} /\ lease' = Superseded(l)
    BY <1>3 DEF ClaimNothing, Swept
  <2>2. l \in Pending(b)
    BY <2>1
  <2> HIDE DEF l
  <2>3. l \in Lease /\ lease[l].status = "pending" /\ lease[l].brain = b
    BY <2>2 DEF Pending
  <2> SUFFICES ASSUME NEW m \in Lease, m = l PROVE StoreInv'
    BY <2>3
  <2>4. TooLate(m)
    BY <2>1, <2>3 DEF TooLate
  <2>5. QED
    BY <1>1, <2>1, <2>3, <2>4, SupersedeStore
<1>4. QED
  BY <1>2, <1>3

\* A claim for a brain without a name whose leases all ran out.
LEMMA ClaimLeaseStore ==
    ASSUME StoreInv, NEW b \in Brain, NEW l \in Lease, ClaimLease(b, l) PROVE StoreInv'
<1> SUFFICES ASSUME NEW es, es = <<Event("cognition.requested", l, None)>>,
                    NEW new, new = Len(log[b]) + 1,
                    NEW row, row = [NoRow EXCEPT !.status = "pending", !.brain = b, !.at = new]
             PROVE  StoreInv'
  OBVIOUS
<1>1. /\ StoreTyped /\ EventsInv /\ RowsInv /\ Rivals /\ NamesInv(b) /\ registry' = registry
      /\ Write(b, es) /\ lease[l].status = "absent" /\ Namings(b) = {}
  BY NameFacts DEF StoreInv, ClaimLease
<1>2. lease \in [Lease -> LeaseType] /\ Len(log[b]) \in Nat /\ DOMAIN log[b] = 1 .. Len(log[b])
      /\ new \in Nat
  BY <1>1, Positions DEF StoreTyped
<1>3. es \in Seq(EventType) /\ Len(es) = 1 /\ es[1] = Event("cognition.requested", l, None)
  BY DEF EventType, NamingKind, Event
<1>4. /\ Grows /\ (\A c \in Brain : c # b => log'[c] = log[c])
      /\ (\A k \in DOMAIN log'[b] : k \in DOMAIN log[b] \/ k = new)
      /\ new \in DOMAIN log'[b] /\ log'[b][new] = Event("cognition.requested", l, None)
  <2>1. 1 \in 1 .. Len(es) /\ \A j \in 1 .. Len(es) : j = 1
    BY <1>3
  <2>2. /\ Grows /\ (\A c \in Brain : c # b => log'[c] = log[c])
        /\ \A k \in DOMAIN log'[b] :
              k \in DOMAIN log[b] \/ \E j \in 1 .. Len(es) : k = Len(log[b]) + j
        /\ \A j \in 1 .. Len(es) :
              Len(log[b]) + j \in DOMAIN log'[b] /\ log'[b][Len(log[b]) + j] = es[j]
    BY <1>1, <1>3, WriteFacts
  <2>3. QED
    BY <2>1, <2>2, <1>3
<1>5. NoNameTwice' /\ \A c \in Brain : NamesInv(c)' /\ Namings(c)' = Namings(c)
  <2>1. \A j \in 1 .. Len(es) : es[j].kind \notin NamingKind
    BY <1>3 DEF Event, NamingKind
  <2>2. QED
    BY <2>1, <1>1, <1>3, NotNamed
<1>6. /\ row \in LeaseType /\ row.status = "pending" /\ row.brain = b /\ row.at = new
      /\ row.end = 0 /\ row.choice = None
  BY <1>2 DEF LeaseType, NoRow
<1>7. ASSUME NEW m \in Lease, m # l
      PROVE  /\ lease'[m] # lease[m] =>
                   /\ lease[m].status = "pending"
                   /\ lease'[m] = [lease[m] EXCEPT !.status = "superseded", !.end = 0]
             /\ lease'[m].status = "pending" => lease[m].brain # b /\ lease'[m] = lease[m]
             /\ lease'[l] = row /\ lease' \in [Lease -> LeaseType]
  <2>1. lease' = [Swept(b) EXCEPT ![l] = row]
    BY DEF ClaimLease
  <2>2. CASE Pending(b) = {}
    <3>1. lease' = [lease EXCEPT ![l] = row]
      BY <2>1, <2>2 DEF Swept
    <3>2. lease'[m] = lease[m] /\ lease'[l] = row /\ lease' \in [Lease -> LeaseType]
      BY <3>1, <1>2, <1>6, <1>7
    <3>3. lease[m].status = "pending" => lease[m].brain # b
      BY <2>2 DEF Pending
    <3>4. QED
      BY <3>2, <3>3, <1>7
  <2>3. CASE Pending(b) # {}
    <3>1. PICK p \in Lease : /\ Swept(b) = Superseded(p) /\ p \in Pending(b)
                             /\ lease[p].status = "pending" /\ lease[p].brain = b /\ lease[p].over
      <4>1. (CHOOSE q \in Pending(b) : TRUE) \in Pending(b)
        BY <2>3
      <4>2. Swept(b) = Superseded(CHOOSE q \in Pending(b) : TRUE)
        BY <2>3 DEF Swept
      <4>3. \A q \in Pending(b) : q \in Lease /\ lease[q].status = "pending" /\ lease[q].brain = b
                                  /\ lease[q].over
        BY DEF Pending, ClaimLease
      <4>4. QED
        BY <4>1, <4>2, <4>3
    <3>2. Superseded(p) = [lease EXCEPT ![p] = [lease[p] EXCEPT !.status = "superseded", !.end = 0]]
      BY <3>1, <1>2 DEF Superseded
    <3>3. [lease[p] EXCEPT !.status = "superseded", !.end = 0] \in LeaseType
      BY <1>2 DEF LeaseType
    <3>4. [lease[p] EXCEPT !.status = "superseded", !.end = 0].status = "superseded"
      BY <1>2 DEF LeaseType
    <3>5. /\ lease'[l] = row /\ lease' \in [Lease -> LeaseType]
          /\ lease'[m] = IF m = p THEN [lease[p] EXCEPT !.status = "superseded", !.end = 0]
                                  ELSE lease[m]
      BY <2>1, <3>1, <3>2, <3>3, <1>2, <1>6, <1>7
    <3>6. m # p /\ lease[m].status = "pending" => lease[m].brain # b
      BY <3>1, <1>1 DEF Rivals
    <3>7. QED
      BY <3>1, <3>4, <3>5, <3>6
  <2>4. QED
    BY <2>2, <2>3
<1>8. ASSUME NEW m \in Lease, m # l
      PROVE  /\ lease'[m].brain = lease[m].brain /\ lease'[m].at = lease[m].at
             /\ lease'[m].status = "absent" <=> lease[m].status = "absent"
             /\ lease'[m] # lease[m] => lease'[m].status = "superseded" /\ lease'[m].end = 0
  <2>1. lease[m] \in LeaseType
    BY <1>2
  <2>2. QED
    BY <2>1, <1>7, <1>8 DEF LeaseType
<1>9. lease'[l] = row /\ lease' \in [Lease -> LeaseType]
  <2>1. CASE \E m \in Lease : m # l
    BY <2>1, <1>7
  <2>2. CASE \A m \in Lease : m = l
    <3>1. Pending(b) = {}
      BY <2>2, <1>1 DEF Pending
    <3>2. lease' = [lease EXCEPT ![l] = row]
      BY <3>1 DEF Swept, ClaimLease
    <3>3. QED
      BY <3>2, <1>2, <1>6
  <2>3. QED
    BY <2>1, <2>2
<1>10. StoreTyped'
  BY <1>1, <1>4, <1>9 DEF StoreTyped, Grows
<1>11. RowInv(l)'
  <2>1. lease'[l].brain = b /\ lease'[l].at = new /\ lease'[l].end = 0
        /\ lease'[l].status = "pending" /\ lease'[l].choice = None
    BY <1>6, <1>9
  <2>2. Namings(b)' = {}
    BY <1>1, <1>5
  <2>3. QED
    BY <2>1, <2>2, <1>4 DEF RowInv, Event
<1>12. ASSUME NEW m \in Lease, m # l, lease[m].status # "absent" PROVE RowInv(m)'
  <2>1. RowInv(m)
    BY <1>1, <1>12 DEF RowsInv
  <2>2. CASE lease'[m] = lease[m]
    BY <2>1, <2>2, <1>1, <1>4, RowKept DEF SameRow
  <2>3. CASE lease'[m] # lease[m]
    BY <2>1, <2>3, <1>1, <1>4, <1>7, <1>12, RowSuperseded
  <2>4. QED
    BY <2>2, <2>3
<1>13. RowsInv'
  <2>1. \A m \in Lease : m # l => IF lease'[m].status = "absent" THEN lease'[m] = NoRow ELSE RowInv(m)'
    BY <1>1, <1>8, <1>12 DEF RowsInv
  <2>2. QED
    BY <2>1, <1>6, <1>9, <1>11 DEF RowsInv
<1>14. EventsInv'
  <2>1. ASSUME NEW m \in Lease, lease[m].status # "absent"
        PROVE  /\ lease'[m].status # "absent" /\ lease'[m].brain = lease[m].brain
               /\ Covered(m) \subseteq Covered(m)'
    <3>1. m # l
      BY <2>1, <1>1
    <3>2. Covered(m) \subseteq Covered(m)'
      <4>1. CASE lease'[m] = lease[m]
        BY <4>1 DEF Covered
      <4>2. CASE lease'[m] # lease[m]
        BY <4>2, <3>1, <1>7, <1>8 DEF Covered
      <4>3. QED
        BY <4>1, <4>2
    <3>3. QED
      BY <2>1, <3>1, <3>2, <1>8
  <2>2. ASSUME NEW c \in Brain, NEW m \in Lease, NEW k \in DOMAIN log'[c],
               k \notin DOMAIN log[c], log'[c][k].lease = m
        PROVE  lease'[m].status # "absent" /\ lease'[m].brain = c /\ k \in Covered(m)'
    <3>1. c = b /\ k = new /\ m = l
      BY <2>2, <1>4 DEF Event
    <3>2. QED
      BY <3>1, <1>6, <1>9 DEF Covered
  <2>3. QED
    BY <2>1, <2>2, <1>1, <1>4, EventsKept
<1>15. Rivals'
  <2>1. ASSUME NEW m \in Lease, m # l, lease'[m].status # "absent", lease'[m].brain = b
        PROVE  /\ lease'[m].status = "failed" \/ (lease'[m].status = "superseded" /\ lease'[m].end = 0)
               /\ lease'[m].end # 0 => lease'[m].status = "failed"
    <3>1. lease[m].status # "absent" /\ lease[m].brain = b
      BY <2>1, <1>8
    <3>2. CASE lease'[m] # lease[m]
      BY <3>2, <2>1, <1>8
    <3>3. CASE lease'[m] = lease[m]
      BY <3>1, <3>3, <2>1, <1>1, <1>7, RowFacts
    <3>4. QED
      BY <3>2, <3>3
  <2>2. ASSUME NEW m \in Lease, NEW k \in Lease, m # k, lease'[m].status # "absent",
               lease'[k].status # "absent", lease'[m].brain = lease'[k].brain
        PROVE  /\ lease'[m].status = "pending" =>
                    \/ lease'[k].status = "failed"
                    \/ lease'[k].status = "superseded" /\ lease'[k].end = 0
               /\ lease'[m].end = lease'[k].end => lease'[m].end = 0
    <3>1. CASE m = l
      BY <3>1, <2>1, <2>2, <1>6, <1>9
    <3>2. CASE k = l
      BY <3>2, <2>1, <2>2, <1>6, <1>9
    <3>3. CASE m # l /\ k # l
      <4>1. /\ lease[m].status # "absent" /\ lease[k].status # "absent"
            /\ lease[m].brain = lease[k].brain
        BY <3>3, <2>2, <1>8
      <4>2. /\ lease[m].status = "pending" =>
                    \/ lease[k].status = "failed"
                    \/ lease[k].status = "superseded" /\ lease[k].end = 0
            /\ lease[m].end = lease[k].end => lease[m].end = 0
        BY <4>1, <2>2, <1>1 DEF Rivals
      <4>3. QED
        BY <4>2, <3>3, <1>7, <1>8
    <3>4. QED
      BY <3>1, <3>2, <3>3
  <2>3. QED
    BY <2>2 DEF Rivals
<1>16. QED
  BY <1>5, <1>10, <1>13, <1>14, <1>15 DEF StoreInv

\* The row of a lease that is decided.
LEMMA DecidedRow ==
    ASSUME StoreInv, NEW l \in Lease, lease[l].status = "pending", NEW b, b = lease[l].brain,
           NEW es \in Seq(EventType), NEW status \in {"completed", "failed"},
           NEW choice \in Name \cup {None}, Decide(l, status, choice, es)
    PROVE  /\ lease' \in [Lease -> LeaseType]
           /\ \A m \in Lease : m # l => lease'[m] = lease[m]
           /\ lease'[l].status = status /\ lease'[l].choice = choice /\ lease'[l].brain = b
           /\ lease'[l].at = lease[l].at /\ lease'[l].end = Len(log[b]) + Len(es)
           /\ Write(b, es) /\ b \in Brain /\ StoreTyped
<1> SUFFICES ASSUME NEW end, end = Len(log[b]) + Len(es),
                    NEW row, row = [lease[l] EXCEPT !.status = status, !.choice = choice, !.end = end]
             PROVE  /\ lease' \in [Lease -> LeaseType]
                    /\ \A m \in Lease : m # l => lease'[m] = lease[m]
                    /\ lease'[l].status = status /\ lease'[l].choice = choice /\ lease'[l].brain = b
                    /\ lease'[l].at = lease[l].at /\ lease'[l].end = end
                    /\ Write(b, es) /\ b \in Brain /\ StoreTyped
  OBVIOUS
<1>1. /\ StoreTyped /\ b \in Brain /\ lease[l] \in LeaseType
      /\ lease \in [Lease -> LeaseType]
  BY RowFacts DEF StoreInv, StoreTyped
<1>2. Len(log[b]) \in Nat /\ Len(es) \in Nat /\ end \in Nat
  BY <1>1, Positions
<1>3. Write(b, es) /\ lease' = [lease EXCEPT ![l] = row]
  BY <1>1 DEF Decide
<1>4. /\ row \in LeaseType /\ row.status = status /\ row.choice = choice
      /\ row.brain = b /\ row.at = lease[l].at /\ row.end = end
  BY <1>1, <1>2 DEF LeaseType
<1>5. /\ lease'[l] = row /\ lease' \in [Lease -> LeaseType]
      /\ \A m \in Lease : m # l => lease'[m] = lease[m]
  BY <1>1, <1>3, <1>4
<1>6. QED
  BY <1>1, <1>3, <1>4, <1>5

\* A decision keeps the invariant when its row is right and covers its events.
LEMMA DecideStore ==
    ASSUME StoreInv, NEW l \in Lease, lease[l].status = "pending", NEW b, b = lease[l].brain,
           NEW es \in Seq(EventType), Len(es) >= 1, Write(b, es),
           lease' \in [Lease -> LeaseType], \A m \in Lease : m # l => lease'[m] = lease[m],
           lease'[l].status \in {"completed", "failed"}, lease'[l].brain = b,
           lease'[l].end = Len(log[b]) + Len(es),
           registry' \in [Brain -> Nat], \A c \in Brain : NamesInv(c)', NoNameTwice', RowInv(l)',
           \A j \in 1 .. Len(es) : es[j].lease = l /\ Len(log[b]) + j \in Covered(l)',
           lease[l].at \in Covered(l)'
    PROVE  StoreInv'
<1>1. b \in Brain /\ StoreTyped
  BY RowFacts DEF StoreInv
<1>2. /\ Grows /\ (\A c \in Brain : c # b => log'[c] = log[c])
      /\ \A k \in DOMAIN log'[b] :
            k \in DOMAIN log[b] \/ \E j \in 1 .. Len(es) : k = Len(log[b]) + j
      /\ \A j \in 1 .. Len(es) : log'[b][Len(log[b]) + j] = es[j]
  BY <1>1, WriteFacts
<1>3. StoreTyped'
  BY <1>1, <1>2 DEF StoreTyped, Grows
<1>4. \A m \in Lease : m # l => SameRow(m) /\ Covered(m)' = Covered(m)
  BY <1>1 DEF SameRow, Covered
<1>5. RowsInv'
  <2>1. ASSUME NEW m \in Lease, m # l
        PROVE  IF lease'[m].status = "absent" THEN lease'[m] = NoRow ELSE RowInv(m)'
    BY <2>1, <1>1, <1>2, <1>4, RowKept DEF StoreInv, RowsInv
  <2>2. QED
    BY <2>1, <1>1 DEF RowsInv
<1>6. EventsInv'
  <2>1. Covered(l) \subseteq Covered(l)'
    BY DEF Covered
  <2>2. \A m \in Lease : lease[m].status # "absent" =>
            /\ lease'[m].status # "absent" /\ lease'[m].brain = lease[m].brain
            /\ Covered(m) \subseteq Covered(m)'
    BY <2>1, <1>1, <1>4
  <2>3. ASSUME NEW c \in Brain, NEW m \in Lease, NEW k \in DOMAIN log'[c],
               k \notin DOMAIN log[c], log'[c][k].lease = m
        PROVE  lease'[m].status # "absent" /\ lease'[m].brain = c /\ k \in Covered(m)'
    <3>1. c = b
      BY <2>3, <1>2
    <3>2. PICK j \in 1 .. Len(es) : k = Len(log[b]) + j
      BY <2>3, <3>1, <1>2
    <3>3. m = l
      BY <2>3, <3>1, <3>2, <1>2
    <3>4. QED
      BY <3>1, <3>2, <3>3, <1>1
  <2>4. QED
    BY <2>2, <2>3, <1>1, <1>2, EventsKept DEF StoreInv
<1>7. Rivals'
  <2>1. ASSUME NEW m \in Lease, m # l, lease'[m].status # "absent", lease'[m].brain = b
        PROVE  lease'[m].status # "pending" /\ lease'[m].end # lease'[l].end
    <3>1. lease'[m] = lease[m]
      BY <2>1, <1>1
    <3>2. lease[m].status # "pending"
      BY <2>1, <3>1 DEF StoreInv, Rivals
    <3>3. lease[m].end \in Nat /\ (lease[m].end # 0 => lease[m].end <= Len(log[b]))
      BY <2>1, <3>1, RowFacts
    <3>4. Len(log[b]) \in Nat /\ Len(es) \in Nat
      BY <1>1, Positions
    <3>5. lease[m].end # Len(log[b]) + Len(es)
      BY <3>3, <3>4
    <3>6. QED
      BY <3>1, <3>2, <3>5, <1>1
  <2>2. ASSUME NEW m \in Lease, NEW k \in Lease, m # k, lease'[m].status # "absent",
               lease'[k].status # "absent", lease'[m].brain = lease'[k].brain
        PROVE  /\ lease'[m].status = "pending" =>
                    \/ lease'[k].status = "failed"
                    \/ lease'[k].status = "superseded" /\ lease'[k].end = 0
               /\ lease'[m].end = lease'[k].end => lease'[m].end = 0
    <3>1. CASE m = l
      BY <3>1, <2>1, <2>2, <1>1
    <3>2. CASE k = l
      BY <3>2, <2>1, <2>2, <1>1
    <3>3. CASE m # l /\ k # l
      <4>1. lease'[m] = lease[m] /\ lease'[k] = lease[k]
        BY <3>3, <1>1
      <4>2. QED
        BY <4>1, <2>2 DEF StoreInv, Rivals
    <3>4. QED
      BY <3>1, <3>2, <3>3
  <2>3. QED
    BY <2>2 DEF Rivals
<1>8. QED
  BY <1>3, <1>5, <1>6, <1>7 DEF StoreInv

\* A failure is recorded, or a choice that another brain holds.
LEMMA FailStore ==
    ASSUME StoreInv, NEW l \in Lease, lease[l].status = "pending", ~TooLate(l),
           NEW n \in Name \cup {None}, registry' = registry,
           Decide(l, "failed", n, <<Event("cognition.failed", l, n)>>)
    PROVE  StoreInv'
<1> SUFFICES ASSUME NEW b, b = lease[l].brain, NEW es, es = <<Event("cognition.failed", l, n)>>
             PROVE  StoreInv'
  OBVIOUS
<1>1. es \in Seq(EventType) /\ Len(es) = 1 /\ es[1] = Event("cognition.failed", l, n)
      /\ Event("cognition.failed", l, n).lease = l
      /\ Event("cognition.failed", l, n).kind \notin NamingKind
  BY DEF EventType, NamingKind, Event
<1>2. /\ lease' \in [Lease -> LeaseType]
      /\ \A m \in Lease : m # l => lease'[m] = lease[m]
      /\ lease'[l].status = "failed" /\ lease'[l].choice = n /\ lease'[l].brain = b
      /\ lease'[l].at = lease[l].at /\ lease'[l].end = Len(log[b]) + 1
      /\ Write(b, es) /\ b \in Brain /\ StoreTyped
  <2>1. n \in Name \cup {None} /\ "failed" \in {"completed", "failed"}
        /\ Decide(l, "failed", n, es) /\ es \in Seq(EventType)
    BY <1>1
  <2>2. /\ lease' \in [Lease -> LeaseType]
        /\ \A m \in Lease : m # l => lease'[m] = lease[m]
        /\ lease'[l].status = "failed" /\ lease'[l].choice = n /\ lease'[l].brain = b
        /\ lease'[l].at = lease[l].at /\ lease'[l].end = Len(log[b]) + Len(es)
        /\ Write(b, es) /\ b \in Brain /\ StoreTyped
    BY <2>1, DecidedRow, ZenonT(40)
  <2>3. QED
    BY <2>2, <1>1
<1>3. /\ RowInv(l) /\ NamesInv(b) /\ lease[l].at \in DOMAIN log[b] /\ lease[l].at <= Len(log[b])
      /\ lease[l].at \in Nat
  BY RowFacts
<1>4. Namings(b) = {}
  BY <1>2, <1>3, NameFacts DEF TooLate
<1>5. 1 \in 1 .. Len(es) /\ \A j \in 1 .. Len(es) : j = 1
  BY <1>1
<1>6. /\ Grows /\ Len(log[b]) \in Nat
      /\ Len(log[b]) + 1 \in DOMAIN log'[b] /\ log'[b][Len(log[b]) + 1] = es[1]
  <2>1. /\ Grows /\ Len(log[b]) \in Nat
        /\ \A j \in 1 .. Len(es) :
              Len(log[b]) + j \in DOMAIN log'[b] /\ log'[b][Len(log[b]) + j] = es[j]
    BY <1>1, <1>2, WriteFacts, Zenon
  <2>2. QED
    BY <2>1, <1>5
<1>7. NoNameTwice' /\ \A c \in Brain : NamesInv(c)' /\ Namings(c)' = Namings(c)
  <2>1. \A j \in 1 .. Len(es) : es[j].kind \notin NamingKind
    BY <1>1, <1>5
  <2>2. QED
    BY <2>1, <1>1, <1>2, NotNamed
<1>8. RowInv(l)'
  <2>1. lease[l].at \in DOMAIN log'[b] /\ log'[b][lease[l].at] = Event("cognition.requested", l, None)
    BY <1>2, <1>3, <1>6 DEF Grows, RowInv
  <2>2. lease[l].at < Len(log[b]) + 1 /\ Len(log[b]) + 1 # 0
    BY <1>3, <1>6
  <2>3. Namings(b)' = {}
    BY <1>2, <1>4, <1>7
  <2>4. QED
    BY <2>1, <2>2, <2>3, <1>1, <1>2, <1>6 DEF RowInv, Event
<1>9. Covered(l)' = {lease[l].at, Len(log[b]) + 1}
  BY <1>2 DEF Covered
<1>10. registry' \in [Brain -> Nat]
  BY <1>2 DEF StoreTyped
<1>11. \A j \in 1 .. Len(es) : es[j].lease = l /\ Len(log[b]) + j \in Covered(l)'
  BY <1>1, <1>5, <1>9
<1>12. QED
  <2>1. /\ Len(es) >= 1 /\ lease[l].at \in Covered(l)' /\ (\A c \in Brain : NamesInv(c)')
        /\ lease'[l].status \in {"completed", "failed"} /\ lease'[l].end = Len(log[b]) + Len(es)
    BY <1>1, <1>2, <1>7, <1>9
  <2>2. QED
    BY <2>1, <1>1, <1>2, <1>7, <1>8, <1>10, <1>11, DecideStore

\* A choice that no other brain holds names the brain.
LEMMA CompleteStore ==
    ASSUME StoreInv, NEW l \in Lease, lease[l].status = "pending", ~TooLate(l), NEW n \in Name,
           NEW b, b = lease[l].brain, ~Taken(n, b),
           NEW es, es = <<Event("cognition.completed", l, n), Event("c1.deliberated", l, n),
                          Event("identity.named", l, n)>>,
           Decide(l, "completed", n, es), registry' = [registry EXCEPT ![b] = Len(log[b]) + 3]
    PROVE  StoreInv'
<1> SUFFICES ASSUME NEW len, len = Len(log[b]) PROVE StoreInv'
  OBVIOUS
<1>1. /\ es \in Seq(EventType) /\ Len(es) = 3
      /\ es[1] = Event("cognition.completed", l, n) /\ es[2] = Event("c1.deliberated", l, n)
      /\ es[3] = Event("identity.named", l, n)
  BY DEF EventType, NamingKind, Event
<1>2. /\ es[1].lease = l /\ es[2].lease = l /\ es[3].lease = l
      /\ es[1].kind \notin NamingKind /\ es[2].kind \notin NamingKind
      /\ es[3].kind = "identity.named" /\ es[3].name = n
  BY <1>1 DEF Event, NamingKind
<1>3. /\ lease' \in [Lease -> LeaseType]
      /\ \A m \in Lease : m # l => lease'[m] = lease[m]
      /\ lease'[l].status = "completed" /\ lease'[l].choice = n /\ lease'[l].brain = b
      /\ lease'[l].at = lease[l].at /\ lease'[l].end = len + 3
      /\ Write(b, es) /\ b \in Brain /\ StoreTyped
  <2>1. n \in Name \cup {None} /\ "completed" \in {"completed", "failed"}
        /\ Decide(l, "completed", n, es) /\ es \in Seq(EventType)
    BY <1>1
  <2>2. /\ lease' \in [Lease -> LeaseType]
        /\ \A m \in Lease : m # l => lease'[m] = lease[m]
        /\ lease'[l].status = "completed" /\ lease'[l].choice = n /\ lease'[l].brain = b
        /\ lease'[l].at = lease[l].at /\ lease'[l].end = Len(log[b]) + Len(es)
        /\ Write(b, es) /\ b \in Brain /\ StoreTyped
    BY <2>1, DecidedRow, ZenonT(40)
  <2>3. QED
    BY <2>2, <1>1
<1>4. /\ RowInv(l) /\ NamesInv(b) /\ lease[l].at \in DOMAIN log[b] /\ lease[l].at <= len
      /\ lease[l].at \in Nat
  BY RowFacts
<1>5. Namings(b) = {}
  BY <1>3, <1>4, NameFacts DEF TooLate
<1>6. 1 .. Len(es) = {1, 2, 3}
  BY <1>1
<1>7. /\ Grows /\ len \in Nat
      /\ len + 1 \in DOMAIN log'[b] /\ log'[b][len + 1] = es[1]
      /\ len + 2 \in DOMAIN log'[b] /\ log'[b][len + 2] = es[2]
      /\ len + 3 \in DOMAIN log'[b] /\ log'[b][len + 3] = es[3]
  <2>1. /\ Grows /\ Len(log[b]) \in Nat
        /\ \A j \in 1 .. Len(es) :
              Len(log[b]) + j \in DOMAIN log'[b] /\ log'[b][Len(log[b]) + j] = es[j]
    BY <1>1, <1>3, WriteFacts, Zenon
  <2>2. QED
    BY <2>1, <1>6
<1>8. /\ registry' \in [Brain -> Nat] /\ NoNameTwice' /\ \A c \in Brain : NamesInv(c)'
      /\ Namings(b)' = {len + 3}
  <2>1. \A j \in 1 .. Len(es) : es[j].kind \in NamingKind => j = Len(es)
    BY <1>1, <1>2, <1>6
  <2>2. /\ Len(es) >= 1 /\ es[Len(es)].kind = "identity.named" /\ es[Len(es)].name = n
        /\ (es[Len(es)].lease # None => Namings(b) = {})
        /\ registry' = [registry EXCEPT ![b] = Len(log[b]) + Len(es)]
    BY <1>1, <1>2, <1>5
  <2>3. QED
    BY <2>1, <2>2, <1>1, <1>3, <1>5, Named
<1>9. RowInv(l)'
  <2>1. lease[l].at \in DOMAIN log'[b] /\ log'[b][lease[l].at] = Event("cognition.requested", l, None)
    BY <1>3, <1>4, <1>7 DEF Grows, RowInv
  <2>2. /\ lease[l].at < len + 3 /\ len + 3 # 0 /\ len + 3 - 2 = len + 1 /\ len + 3 - 1 = len + 2
        /\ lease[l].at < len + 1
    BY <1>4, <1>7
  <2>3. n # None
    BY NamingAssumption
  <2>4. QED
    BY <2>1, <2>2, <2>3, <1>1, <1>3, <1>7, <1>8 DEF RowInv, Event
<1>10. Covered(l)' = {lease[l].at} \cup (len + 3 - 2) .. len + 3
  BY <1>3 DEF Covered
<1>11. \A j \in 1 .. Len(es) : es[j].lease = l /\ Len(log[b]) + j \in Covered(l)'
  <2>1. len + 1 \in Covered(l)' /\ len + 2 \in Covered(l)' /\ len + 3 \in Covered(l)'
    BY <1>7, <1>10
  <2>2. QED
    BY <2>1, <1>2, <1>6
<1>12. lease[l].at \in Covered(l)'
  BY <1>10
<1>13. QED
  <2>1. /\ Len(es) >= 1 /\ lease'[l].status \in {"completed", "failed"}
        /\ lease'[l].end = Len(log[b]) + Len(es)
    BY <1>1, <1>3
  <2>2. QED
    BY <2>1, <1>1, <1>3, <1>8, <1>9, <1>11, <1>12, DecideStore

\* The answer of a host is recorded once.
LEMMA SettleStore ==
    ASSUME StoreInv, NEW l \in Lease, NEW i, i.op = "complete" => i.choice \in Name, Settle(l, i)
    PROVE  StoreInv'
<1>1. CASE lease[l].status # "pending" /\ UNCHANGED store
  BY <1>1, StoreSame
<1>2. CASE lease[l].status = "pending" /\ TooLate(l) /\ lease' = Superseded(l)
           /\ UNCHANGED <<log, registry>>
  BY <1>2, SupersedeStore
<1>3. CASE lease[l].status = "pending" /\ ~TooLate(l) /\ i.op = "complete" /\ Conclude(l, i.choice)
  <2>1. SUFFICES ASSUME NEW n \in Name, n = i.choice, NEW b, b = lease[l].brain PROVE StoreInv'
    BY <1>3
  <2>2. CASE Taken(n, b)
    <3>1. registry' = registry /\ Decide(l, "failed", n, <<Event("cognition.failed", l, n)>>)
      BY <2>1, <2>2, <1>3 DEF Conclude
    <3>2. QED
      BY <3>1, <2>1, <1>3, FailStore
  <2>3. CASE ~Taken(n, b)
    BY <2>1, <2>3, <1>3, CompleteStore DEF Conclude
  <2>4. QED
    BY <2>2, <2>3
<1>4. CASE lease[l].status = "pending" /\ ~TooLate(l) /\ UNCHANGED registry
           /\ Decide(l, "failed", None, <<Event("cognition.failed", l, None)>>)
  BY <1>4, FailStore
<1>5. QED
  BY <1>1, <1>2, <1>3, <1>4 DEF Settle

-----------------------------------------------------------------------------
(* The invariant at the start, and what it gives the audit *)

\* Every brain is created with at most one event, and no lease is there.
LEMMA StoreInit == Init => StoreInv
<1> SUFFICES ASSUME Init PROVE StoreInv
  OBVIOUS
<1>1. PICK f \in [Brain -> Name \cup {None}] :
          /\ \A b, c \in Brain : b # c /\ f[b] # None /\ f[c] # None => Norm[f[b]] # Norm[f[c]]
          /\ log = [b \in Brain |-> <<Event("brain.created", None, f[b])>>]
          /\ registry = [b \in Brain |-> IF f[b] = None THEN 0 ELSE 1]
  BY DEF Init
<1>2. lease = [l \in Lease |-> NoRow] /\ NoRow \in LeaseType /\ NoRow.status = "absent"
  BY DEF Init, LeaseType, NoRow
<1>3. \A b \in Brain : /\ Event("brain.created", None, f[b]) \in EventType
                       /\ Event("brain.created", None, f[b]).lease = None
                       /\ Event("brain.created", None, f[b]).name = f[b]
                       /\ Event("brain.created", None, f[b]).kind = "brain.created"
  BY DEF EventType, NamingKind, Event
<1>4. \A b \in Brain : /\ log[b] = <<Event("brain.created", None, f[b])>>
                       /\ log[b] \in Seq(EventType) /\ DOMAIN log[b] = {1}
                       /\ log[b][1] = Event("brain.created", None, f[b])
  BY <1>1, <1>3
<1>5. StoreTyped
  <2>1. log \in [Brain -> Seq(EventType)]
    BY <1>1, <1>4
  <2>2. registry \in [Brain -> Nat]
    BY <1>1
  <2>3. QED
    BY <2>1, <2>2, <1>2 DEF StoreTyped
<1>6. ASSUME NEW b \in Brain PROVE NamesInv(b) /\ (registry[b] # 0 => Registered(b) = f[b] /\ f[b] # None)
  <2>1. Namings(b) \subseteq {1} /\ (f[b] # None => 1 \in Namings(b))
    <3>1. log[b][1].kind = "brain.created" /\ log[b][1].name = f[b] /\ DOMAIN log[b] = {1}
      BY <1>3, <1>4
    <3>2. QED
      BY <3>1 DEF Namings, NamingKind
  <2>2. f[b] = None => Namings(b) = {}
    BY <1>3, <1>4 DEF Namings
  <2>3. registry[b] = IF f[b] = None THEN 0 ELSE 1
    BY <1>1
  <2>4. NamesInv(b)
    BY <2>1, <2>2, <2>3, <1>3, <1>4 DEF NamesInv
  <2>5. registry[b] # 0 => Registered(b) = f[b] /\ f[b] # None
    BY <2>3, <1>3, <1>4 DEF Registered
  <2>6. QED
    BY <2>4, <2>5
<1>7. NoNameTwice
  BY <1>1, <1>6 DEF NoNameTwice
<1>8. EventsInv
  BY <1>3, <1>4, NamingAssumption DEF EventsInv
<1>9. RowsInv /\ Rivals
  BY <1>2 DEF RowsInv, Rivals
<1>10. QED
  BY <1>5, <1>6, <1>7, <1>8, <1>9 DEF StoreInv

\* Only the row of a lease covers its events.
LEMMA CoversItsOwn ==
    ASSUME StoreInv, NEW l \in Lease, NEW b \in Brain, lease[l].brain = b,
           NEW k \in DOMAIN log[b], k \in Covered(l)
    PROVE  log[b][k].lease = l
<1>1. StoreTyped /\ RowsInv /\ k \in Nat /\ k >= 1
  BY Positions DEF StoreInv
<1>2. lease[l].status # "absent"
  <2>1. CASE lease[l].status = "absent"
    <3>1. Covered(l) = {0}
      BY <2>1, <1>1 DEF RowsInv, Covered, NoRow
    <3>2. QED
      BY <3>1, <1>1
  <2>2. QED
    BY <2>1
<1>3. RowInv(l) /\ lease[l].end \in Nat
  BY <1>2, RowFacts
<1>4. CASE k = lease[l].at
  BY <1>3, <1>4 DEF RowInv, Event
<1>5. CASE lease[l].status = "failed" /\ k = lease[l].end
  BY <1>3, <1>5 DEF RowInv, Event
<1>6. CASE lease[l].status = "completed" /\ k \in (lease[l].end - 2) .. lease[l].end
  <2>1. k = lease[l].end - 2 \/ k = lease[l].end - 1 \/ k = lease[l].end
    BY <1>1, <1>3, <1>6
  <2>2. QED
    BY <2>1, <1>3, <1>6 DEF RowInv, Event
<1>7. QED
  BY <1>4, <1>5, <1>6 DEF Covered

\* The audit of the next start finds nothing to refuse.
LEMMA StoreAudit == StoreInv => NamingAudit /\ NamesOnlyTheUnnamed
<1> SUFFICES ASSUME StoreInv PROVE NamingAudit /\ NamesOnlyTheUnnamed
  OBVIOUS
<1>1. /\ StoreTyped /\ EventsInv /\ RowsInv /\ Rivals /\ NoNameTwice
      /\ \A b \in Brain : NamesInv(b)
  BY DEF StoreInv
<1>2. RegistryAccepted
  BY <1>1, NameFacts DEF RegistryAccepted, NoNameTwice
<1>3. EachEventCoveredOnce
  <2>1. SUFFICES ASSUME NEW b \in Brain, NEW k \in DOMAIN log[b], NEW l, l = log[b][k].lease, l # None
                 PROVE  Cardinality({m \in Lease : lease[m].brain = b /\ k \in Covered(m)}) = 1
    BY DEF EachEventCoveredOnce
  <2>2. l \in Lease /\ lease[l].brain = b /\ k \in Covered(l)
    <3>1. log[b][k] \in EventType
      BY <1>1, Positions
    <3>2. l \in Lease
      BY <3>1, <2>1 DEF EventType
    <3>3. QED
      BY <3>2, <2>1, <1>1 DEF EventsInv
  <2>3. \A m \in Lease : lease[m].brain = b /\ k \in Covered(m) => m = l
    BY <2>1, CoversItsOwn
  <2>4. {m \in Lease : lease[m].brain = b /\ k \in Covered(m)} = {l}
    BY <2>2, <2>3
  <2>5. QED
    BY <2>4, FS_Singleton
<1>4. IndexesHold
  <2>1. ASSUME NEW l \in Lease, NEW m \in Lease, l # m, lease[l].brain = lease[m].brain,
               lease[l].brain # None
        PROVE  /\ {lease[l].status, lease[m].status} # {"pending"}
               /\ lease[l].end = lease[m].end => lease[l].end = 0
    <3>1. NoRow.brain = None
      BY DEF NoRow
    <3>2. lease[l].status # "absent" /\ lease[m].status # "absent"
      BY <2>1, <3>1, <1>1 DEF RowsInv
    <3>3. lease[l].status = "pending" => lease[m].status # "pending"
      BY <2>1, <3>2, <1>1 DEF Rivals
    <3>4. lease[l].end = lease[m].end => lease[l].end = 0
      BY <2>1, <3>2, <1>1 DEF Rivals
    <3>5. QED
      BY <3>3, <3>4
  <2>2. QED
    BY <2>1 DEF IndexesHold
<1>5. ASSUME NEW l \in Lease, lease[l].status # "absent" PROVE RowAccepted(l)
  <2>1. SUFFICES ASSUME NEW b, b = lease[l].brain, NEW at, at = lease[l].at PROVE RowAccepted(l)
    OBVIOUS
  <2>2. RowInv(l) /\ b \in Brain /\ at \in Nat /\ lease[l].end \in Nat
    BY <1>5, <2>1, RowFacts
  <2>3. \A k \in Namings(b) : at <= k
    <3>1. \A k \in Namings(b) : at < k /\ k \in Nat
      BY <2>1, <2>2, <1>1, Positions DEF RowInv
    <3>2. QED
      BY <3>1, <2>2
  <2>4. NameAt(b, at - 1) = None
    BY <2>2, <2>3, <1>1, Nameless
  <2>5. lease[l].status = "superseded" => SourceAccepted(l)
    BY <2>2 DEF RowInv, SourceAccepted
  <2>6. QED
    BY <2>1, <2>2, <2>4, <2>5 DEF RowInv, RowAccepted
<1>6. NamesOnlyTheUnnamed
  <2>1. ASSUME NEW b \in Brain, NEW k \in Namings(b), log[b][k].lease # None
        PROVE  NameAt(b, k - 1) = None
    <3>1. k \in Nat /\ \A j \in Namings(b) : k <= j
      BY <2>1, <1>1, Positions DEF NamesInv
    <3>2. QED
      BY <3>1, <1>1, Nameless
  <2>2. QED
    BY <2>1 DEF NamesOnlyTheUnnamed
<1>7. QED
  BY <1>2, <1>3, <1>4, <1>5, <1>6 DEF NamingAudit

-----------------------------------------------------------------------------
(* The invariant of the calls *)

Sound(i) ==
    \/ i = NoIntent
    \/ i.op = "complete" /\ i.lease \in Lease /\ i.choice \in Name
    \/ i.op = "fail" /\ i.lease \in Lease /\ i.choice = None

WorkerType == [pc : {"idle", "asking", "waiting"}, job : Lease \cup {None}, intent : IntentType]
CallType == [from : Worker, live : BOOLEAN, intent : IntentType]
ReplyType == [code : {"none", "nothing", "claimed", "completed", "failed", "superseded", "conflict"},
              lease : Lease \cup {None}]

CallTyped ==
    /\ worker \in [Worker -> WorkerType] /\ inbox \subseteq CallType /\ reply \in [Worker -> ReplyType]
    /\ \A w \in Worker : /\ Sound(worker[w].intent)
                         /\ worker[w].pc = "asking" <=> worker[w].job # None
                         /\ reply[w].code = "claimed" <=> reply[w].lease # None
    /\ \A r \in inbox : Sound(r.intent)

\* The answers of the host that a worker retains or that are on their way.
Submissions ==
    {i \in {worker[w].intent : w \in Worker} \cup {r.intent : r \in inbox} : i.op # "claim"}

\* The lease that the host of w is asked about now or next.
Asked(w) == {worker[w].job, reply[w].lease} \ {None}

AskedOnce == \A w, v \in Worker : \A l \in Asked(w) : l \in Asked(v) => w = v

\* A lease that is still to be asked about was claimed, has no answer anywhere and
\* no decision.
Unanswered ==
    \A w \in Worker : \A l \in Asked(w) :
        lease[l].status \in {"pending", "superseded"} /\ \A i \in Submissions : i.lease # l

\* There is one answer per lease, and a decision is that answer.
OneAnswer ==
    /\ \A i, j \in Submissions : i.lease = j.lease => i = j
    /\ \A i \in Submissions :
          /\ lease[i.lease].status # "absent"
          /\ lease[i.lease].status = "completed" => i.op = "complete" /\ i.choice = lease[i.lease].choice
          /\ lease[i.lease].status = "failed" => i.choice = lease[i.lease].choice

\* A call that is waited for carries the intent of its worker and is not answered
\* yet; an answer is to that intent.
CallState(w) ==
    /\ reply[w] # NoReply => worker[w].pc = "waiting"
    /\ \A r \in inbox : r.from = w /\ r.live =>
          worker[w].pc = "waiting" /\ reply[w] = NoReply /\ r.intent = worker[w].intent
    /\ worker[w].intent.op # "claim" /\ reply[w] # NoReply =>
          LET row == lease[worker[w].intent.lease]
          IN /\ reply[w].code = row.status /\ row.status \in {"completed", "failed", "superseded"}
             /\ row.status \in {"completed", "failed"} => row.choice = worker[w].intent.choice

AskInv == AskedOnce /\ Unanswered /\ OneAnswer /\ \A w \in Worker : CallState(w)
\* A row that is the same for those who ask and answer, or lost its time.
QuietRow(l) ==
    \/ lease'[l].status = lease[l].status /\ lease'[l].choice = lease[l].choice
    \/ lease[l].status = "pending" /\ lease'[l].status = "superseded"

QuietRows == \A l \in Lease : lease[l].status # "absent" => QuietRow(l)

\* The null records are typed.
LEMMA NullTyped ==
    /\ Fresh \in WorkerType /\ Fresh.pc = "idle" /\ Fresh.job = None /\ Fresh.intent = NoIntent
    /\ NoIntent \in IntentType /\ NoIntent.op = "claim" /\ Sound(NoIntent)
    /\ NoReply \in ReplyType /\ NoReply.code = "none" /\ NoReply.lease = None
BY DEF Fresh, WorkerType, IntentType, NoIntent, Sound, NoReply, ReplyType

\* What is known of a worker, of its reply and of a request.
LEMMA CallFacts ==
    ASSUME CallTyped
    PROVE  /\ \A w \in Worker :
                 /\ worker[w] \in WorkerType /\ worker[w].intent \in IntentType
                 /\ worker[w].job \in Lease \cup {None}
                 /\ reply[w] \in ReplyType /\ reply[w].lease \in Lease \cup {None}
                 /\ worker[w].pc \in {"idle", "asking", "waiting"}
                 /\ worker[w].pc = "asking" <=> worker[w].job # None
                 /\ reply[w].code = "claimed" <=> reply[w].lease # None
                 /\ worker[w].intent.op # "claim" => worker[w].intent \in Submissions
           /\ \A r \in inbox :
                 /\ r \in CallType /\ r.from \in Worker /\ r.live \in BOOLEAN
                 /\ r.intent \in IntentType /\ Sound(r.intent)
                 /\ r.intent.op # "claim" => r.intent \in Submissions
           /\ \A i \in Submissions : Sound(i) /\ i.op # "claim" /\ i.lease \in Lease
<1>1. \A w \in Worker : worker[w] \in WorkerType /\ reply[w] \in ReplyType
  BY DEF CallTyped
<1>2. \A i : Sound(i) /\ i.op # "claim" => i.lease \in Lease
  BY NullTyped DEF Sound
<1>3. \A i \in Submissions : Sound(i) /\ i.op # "claim"
  BY DEF CallTyped, Submissions
<1>4. \A r \in inbox : r \in CallType /\ Sound(r.intent)
  BY DEF CallTyped
<1>5. QED
  BY <1>1, <1>2, <1>3, <1>4 DEF CallTyped, WorkerType, ReplyType, CallType, Submissions

\* Who asks and what was answered stays right when nothing is asked or answered.
LEMMA AskedKept ==
    ASSUME CallTyped, AskInv, QuietRows,
           Submissions' \subseteq Submissions, \A w \in Worker : Asked(w)' \subseteq Asked(w)
    PROVE  AskedOnce' /\ Unanswered' /\ OneAnswer'
<1>1. AskedOnce /\ Unanswered /\ OneAnswer
  BY DEF AskInv
<1>2. AskedOnce'
  BY <1>1 DEF AskedOnce
<1>3. Unanswered'
  <2>1. ASSUME NEW w \in Worker, NEW l \in Asked(w)'
        PROVE  lease'[l].status \in {"pending", "superseded"} /\ \A i \in Submissions' : i.lease # l
    <3>1. l \in Asked(w)
      BY <2>1
    <3>2. l \in Lease
      BY <3>1, CallFacts DEF Asked
    <3>3. /\ lease[l].status \in {"pending", "superseded"} /\ \A i \in Submissions : i.lease # l
      BY <3>1, <1>1 DEF Unanswered
    <3>4. QuietRow(l)
      BY <3>2, <3>3 DEF QuietRows
    <3>5. QED
      BY <3>3, <3>4 DEF QuietRow
  <2>2. QED
    BY <2>1 DEF Unanswered
<1>4. OneAnswer'
  <2>1. ASSUME NEW i \in Submissions'
        PROVE  /\ lease'[i.lease].status # "absent"
               /\ lease'[i.lease].status = "completed" =>
                      i.op = "complete" /\ i.choice = lease'[i.lease].choice
               /\ lease'[i.lease].status = "failed" => i.choice = lease'[i.lease].choice
    <3>1. i \in Submissions /\ i.lease \in Lease
      BY <2>1, CallFacts
    <3>2. /\ lease[i.lease].status # "absent"
          /\ lease[i.lease].status = "completed" =>
                 i.op = "complete" /\ i.choice = lease[i.lease].choice
          /\ lease[i.lease].status = "failed" => i.choice = lease[i.lease].choice
      BY <3>1, <1>1 DEF OneAnswer
    <3>3. QuietRow(i.lease)
      BY <3>1, <3>2 DEF QuietRows
    <3>4. QED
      BY <3>2, <3>3 DEF QuietRow
  <2>2. QED
    BY <2>1, <1>1 DEF OneAnswer
<1>5. QED
  BY <1>2, <1>3, <1>4

\* A worker that a step leaves alone.
LEMMA CallKept ==
    ASSUME CallTyped, AskInv, QuietRows, NEW w \in Worker,
           worker'[w] = worker[w], reply'[w] = reply[w],
           \A r \in inbox' : r.from = w /\ r.live => r \in inbox
    PROVE  CallState(w)'
<1>1. CallState(w) /\ OneAnswer
  BY DEF AskInv
<1>2. reply'[w] # NoReply => worker'[w].pc = "waiting"
  BY <1>1 DEF CallState
<1>3. \A r \in inbox' : r.from = w /\ r.live =>
          worker'[w].pc = "waiting" /\ reply'[w] = NoReply /\ r.intent = worker'[w].intent
  BY <1>1 DEF CallState
<1>4. ASSUME worker[w].intent.op # "claim", reply[w] # NoReply, NEW l, l = worker[w].intent.lease
      PROVE  /\ reply'[w].code = lease'[l].status
             /\ lease'[l].status \in {"completed", "failed", "superseded"}
             /\ lease'[l].status \in {"completed", "failed"} =>
                    lease'[l].choice = worker[w].intent.choice
  <2>1. /\ reply[w].code = lease[l].status
        /\ lease[l].status \in {"completed", "failed", "superseded"}
        /\ lease[l].status \in {"completed", "failed"} => lease[l].choice = worker[w].intent.choice
    BY <1>1, <1>4 DEF CallState
  <2>2. l \in Lease
    BY <1>4, CallFacts
  <2>3. QuietRow(l)
    BY <2>1, <2>2 DEF QuietRows
  <2>4. QED
    BY <2>1, <2>3 DEF QuietRow
<1>5. QED
  BY <1>2, <1>3, <1>4 DEF CallState

\* The calls stay right when only the store is written, and quietly.
LEMMA StoreOnly ==
    ASSUME CallTyped, AskInv, QuietRows, UNCHANGED calls
    PROVE  CallTyped' /\ AskInv'
<1>1. worker' = worker /\ inbox' = inbox /\ reply' = reply
  BY DEF calls
<1>2. CallTyped'
  BY <1>1 DEF CallTyped
<1>3. Submissions' \subseteq Submissions /\ \A w \in Worker : Asked(w)' \subseteq Asked(w)
  BY <1>1 DEF Submissions, Asked
<1>4. \A w \in Worker : CallState(w)'
  BY <1>1, CallKept
<1>5. QED
  BY <1>2, <1>3, <1>4, AskedKept DEF AskInv

\* A transaction of a client writes no decision.
LEMMA RenameCalls ==
    ASSUME CallTyped, AskInv, NEW b \in Brain, NEW n \in Name, Rename(b, n)
    PROVE  CallTyped' /\ AskInv'
<1>1. QuietRows /\ UNCHANGED calls
  BY DEF Rename, QuietRows, QuietRow
<1>2. QED
  BY <1>1, StoreOnly

\* A lease that runs out keeps its status.
LEMMA ExpireCalls ==
    ASSUME StoreTyped, CallTyped, AskInv, NEW l \in Lease, Expire(l) PROVE CallTyped' /\ AskInv'
<1>1. lease \in [Lease -> LeaseType] /\ lease' = [lease EXCEPT ![l].over = TRUE] /\ UNCHANGED calls
  BY DEF StoreTyped, Expire
<1>2. \A m \in Lease : lease'[m].status = lease[m].status /\ lease'[m].choice = lease[m].choice
  BY <1>1 DEF LeaseType
<1>3. QuietRows
  BY <1>2 DEF QuietRows, QuietRow
<1>4. QED
  BY <1>1, <1>3, StoreOnly

\* A call carries the intent of its worker.
LEMMA BeginCalls ==
    ASSUME CallTyped, AskInv, NEW w \in Worker, Begin(w) PROVE CallTyped' /\ AskInv'
<1> SUFFICES ASSUME NEW c, c = Call(w) PROVE CallTyped' /\ AskInv'
  OBVIOUS
<1>1. /\ worker[w].pc = "idle" /\ worker' = [worker EXCEPT ![w].pc = "waiting"]
      /\ inbox' = inbox \cup {c} /\ reply' = reply /\ lease' = lease
  BY DEF Begin, store
<1>2. worker \in [Worker -> WorkerType] /\ worker[w] \in WorkerType /\ worker[w].job = None
      /\ Sound(worker[w].intent) /\ worker[w].intent \in IntentType
  BY <1>1, CallFacts DEF CallTyped
<1>3. /\ worker' \in [Worker -> WorkerType] /\ worker'[w].pc = "waiting"
      /\ worker'[w].job = None /\ worker'[w].intent = worker[w].intent
      /\ \A v \in Worker : v # w => worker'[v] = worker[v]
  BY <1>1, <1>2 DEF WorkerType
<1>4. c \in CallType /\ c.from = w /\ c.live /\ c.intent = worker[w].intent
  BY <1>2 DEF Call, CallType
<1>5. CallTyped'
  BY <1>1, <1>2, <1>3, <1>4 DEF CallTyped
<1>6. QuietRows
  BY <1>1 DEF QuietRows, QuietRow
<1>7. \A v \in Worker : worker'[v].intent = worker[v].intent /\ worker'[v].job = worker[v].job
  BY <1>2, <1>3
<1>8. Submissions' \subseteq Submissions
  BY <1>1, <1>4, <1>7 DEF Submissions
<1>9. \A v \in Worker : Asked(v)' \subseteq Asked(v)
  BY <1>1, <1>7 DEF Asked
<1>10. \A v \in Worker : v # w => CallState(v)'
  BY <1>1, <1>3, <1>4, <1>6, CallKept
<1>11. CallState(w)'
  <2>1. CallState(w)
    BY DEF AskInv
  <2>2. reply[w] = NoReply /\ \A r \in inbox : ~(r.from = w /\ r.live)
    BY <2>1, <1>1 DEF CallState
  <2>3. QED
    BY <2>2, <1>1, <1>3, <1>4 DEF CallState
<1>12. QED
  BY <1>5, <1>6, <1>8, <1>9, <1>10, <1>11, AskedKept DEF AskInv

\* The host answers about a lease that nothing was submitted for.
LEMMA AskCalls ==
    ASSUME CallTyped, AskInv, NEW w \in Worker, Ask(w) PROVE CallTyped' /\ AskInv'
<1>1. PICK i \in {[op |-> "complete", lease |-> worker[w].job, choice |-> n] : n \in Name}
                  \cup {[op |-> "fail", lease |-> worker[w].job, choice |-> None]} :
          worker' = [worker EXCEPT ![w] = [Fresh EXCEPT !.intent = i]]
  BY DEF Ask
<1>2. worker[w].pc = "asking" /\ inbox' = inbox /\ reply' = reply /\ lease' = lease
  BY DEF Ask, store
<1>3. worker \in [Worker -> WorkerType] /\ worker[w].job \in Lease
      /\ AskedOnce /\ Unanswered /\ OneAnswer /\ CallState(w)
  BY <1>2, CallFacts DEF CallTyped, AskInv
<1> SUFFICES ASSUME NEW l \in Lease, l = worker[w].job PROVE CallTyped' /\ AskInv'
  BY <1>3
<1>4. /\ i \in IntentType /\ Sound(i) /\ i.op # "claim" /\ i.lease = l
      /\ i.op = "fail" => i.choice = None
  BY <1>1, <1>3 DEF IntentType, Sound
<1>5. /\ worker' \in [Worker -> WorkerType] /\ worker'[w].pc = "idle"
      /\ worker'[w].job = None /\ worker'[w].intent = i
      /\ \A v \in Worker : v # w => worker'[v] = worker[v]
  <2>1. [Fresh EXCEPT !.intent = i] \in WorkerType /\ [Fresh EXCEPT !.intent = i].pc = "idle"
        /\ [Fresh EXCEPT !.intent = i].job = None /\ [Fresh EXCEPT !.intent = i].intent = i
    BY <1>4 DEF Fresh, WorkerType
  <2>2. QED
    BY <2>1, <1>1, <1>3
<1>6. reply[w] = NoReply /\ \A r \in inbox : ~(r.from = w /\ r.live)
  BY <1>2, <1>3 DEF CallState
<1>7. CallTyped'
  BY <1>2, <1>4, <1>5, <1>6 DEF CallTyped
<1>8. QuietRows
  BY <1>2 DEF QuietRows, QuietRow
<1>9. Submissions' \subseteq Submissions \cup {i}
  <2>1. \A v \in Worker : worker'[v].intent = i \/ worker'[v].intent = worker[v].intent
    BY <1>5
  <2>2. QED
    BY <2>1, <1>2 DEF Submissions
<1>10. /\ l \in Asked(w) /\ Asked(w)' = {} /\ l # None
       /\ \A v \in Worker : v # w => Asked(v)' = Asked(v)
  BY <1>2, <1>3, <1>5, <1>6, NullTyped, NamingAssumption DEF Asked
<1>11. lease[l].status \in {"pending", "superseded"} /\ \A j \in Submissions : j.lease # l
  BY <1>3, <1>10 DEF Unanswered
<1>12. AskedOnce'
  BY <1>3, <1>10 DEF AskedOnce
<1>13. Unanswered'
  <2>1. ASSUME NEW v \in Worker, NEW m \in Asked(v)'
        PROVE  lease'[m].status \in {"pending", "superseded"} /\ \A j \in Submissions' : j.lease # m
    <3>1. v # w /\ m \in Asked(v)
      BY <2>1, <1>10
    <3>2. m # l
      BY <3>1, <1>3, <1>10 DEF AskedOnce
    <3>3. QED
      BY <3>1, <3>2, <1>2, <1>3, <1>4, <1>9 DEF Unanswered
  <2>2. QED
    BY <2>1 DEF Unanswered
<1>14. OneAnswer'
  <2>1. \A j, k \in Submissions' : j.lease = k.lease => j = k
    BY <1>3, <1>4, <1>9, <1>11 DEF OneAnswer
  <2>2. ASSUME NEW j \in Submissions'
        PROVE  /\ lease'[j.lease].status # "absent"
               /\ lease'[j.lease].status = "completed" =>
                      j.op = "complete" /\ j.choice = lease'[j.lease].choice
               /\ lease'[j.lease].status = "failed" => j.choice = lease'[j.lease].choice
    <3>1. CASE j = i
      BY <3>1, <1>2, <1>4, <1>11
    <3>2. CASE j \in Submissions
      BY <3>2, <1>2, <1>3 DEF OneAnswer
    <3>3. QED
      BY <3>1, <3>2, <1>9
  <2>3. QED
    BY <2>1, <2>2 DEF OneAnswer
<1>15. \A v \in Worker : v # w => CallState(v)'
  BY <1>2, <1>5, <1>8, CallKept
<1>16. CallState(w)'
  BY <1>2, <1>5, <1>6 DEF CallState
<1>17. QED
  BY <1>7, <1>12, <1>13, <1>14, <1>15, <1>16 DEF AskInv

\* An answer is read once, and only an error keeps the intent.
LEMMA ReceiveCalls ==
    ASSUME CallTyped, AskInv, NEW w \in Worker, Receive(w) PROVE CallTyped' /\ AskInv'
<1> SUFFICES ASSUME NEW r, r = reply[w],
                    NEW new, new = CASE r.code = "claimed" -> [Fresh EXCEPT !.pc = "asking", !.job = r.lease]
                                     [] r.code = "conflict" -> [worker[w] EXCEPT !.pc = "idle"]
                                     [] OTHER -> Fresh
             PROVE  CallTyped' /\ AskInv'
  OBVIOUS
<1>1. /\ worker[w].pc = "waiting" /\ r # NoReply
      /\ worker' = [worker EXCEPT ![w] = new]
      /\ reply' = [reply EXCEPT ![w] = NoReply] /\ inbox' = inbox /\ lease' = lease
  BY DEF Receive, store
<1>2. /\ worker \in [Worker -> WorkerType] /\ worker[w] \in WorkerType /\ worker[w].job = None
      /\ reply \in [Worker -> ReplyType] /\ r.lease \in Lease \cup {None}
      /\ r.code = "claimed" <=> r.lease # None
      /\ Sound(worker[w].intent)
  BY <1>1, CallFacts DEF CallTyped
<1>3. /\ new \in WorkerType /\ (new.intent = NoIntent \/ new.intent = worker[w].intent)
      /\ new.pc \in {"asking", "idle"}
      /\ new.pc = "asking" <=> new.job # None
      /\ new.job = None \/ new.job = r.lease
  <2>1. CASE r.code = "claimed"
    <3>1. new = [Fresh EXCEPT !.pc = "asking", !.job = r.lease]
      BY <2>1
    <3>2. new \in WorkerType /\ new.pc = "asking" /\ new.job = r.lease /\ new.intent = NoIntent
      BY <3>1, <1>2, NullTyped DEF Fresh, WorkerType
    <3>3. QED
      BY <2>1, <3>2, <1>2
  <2>2. CASE r.code = "conflict"
    <3>1. new = [worker[w] EXCEPT !.pc = "idle"]
      BY <2>2
    <3>2. new \in WorkerType /\ new.pc = "idle" /\ new.job = None /\ new.intent = worker[w].intent
      BY <3>1, <1>2 DEF WorkerType
    <3>3. QED
      BY <3>2
  <2>3. CASE r.code # "claimed" /\ r.code # "conflict"
    <3>1. new = Fresh
      BY <2>3
    <3>2. QED
      BY <3>1, NullTyped
  <2>4. QED
    BY <2>1, <2>2, <2>3
<1>4. /\ worker' \in [Worker -> WorkerType] /\ worker'[w] = new
      /\ reply' \in [Worker -> ReplyType] /\ reply'[w] = NoReply
      /\ \A v \in Worker : v # w => worker'[v] = worker[v] /\ reply'[v] = reply[v]
  BY <1>1, <1>2, <1>3, NullTyped
<1>5. CallTyped'
  BY <1>1, <1>2, <1>3, <1>4, NullTyped DEF CallTyped
<1>6. QuietRows
  BY <1>1 DEF QuietRows, QuietRow
<1>7. Submissions' \subseteq Submissions
  <2>1. \A v \in Worker : worker'[v].intent = NoIntent \/ worker'[v].intent = worker[v].intent
    BY <1>3, <1>4
  <2>2. QED
    BY <2>1, <1>1, NullTyped DEF Submissions
<1>8. \A v \in Worker : Asked(v)' \subseteq Asked(v)
  <2>1. Asked(w)' \subseteq Asked(w)
    BY <1>3, <1>4, NullTyped DEF Asked
  <2>2. \A v \in Worker : v # w => Asked(v)' = Asked(v)
    BY <1>4 DEF Asked
  <2>3. QED
    BY <2>1, <2>2
<1>9. \A v \in Worker : v # w => CallState(v)'
  BY <1>1, <1>4, <1>6, CallKept
<1>10. CallState(w)'
  <2>1. CallState(w)
    BY DEF AskInv
  <2>2. \A q \in inbox : ~(q.from = w /\ q.live)
    BY <2>1, <1>1 DEF CallState
  <2>3. QED
    BY <2>2, <1>1, <1>4 DEF CallState
<1>11. QED
  BY <1>5, <1>6, <1>7, <1>8, <1>9, <1>10, AskedKept DEF AskInv

\* A caller that gave up is not answered, and keeps or forgets its intent.
LEMMA LoseCalls ==
    ASSUME CallTyped, AskInv, NEW w \in Worker, Lose(w) PROVE CallTyped' /\ AskInv'
<1>0. PICK new :
          /\ worker' = [worker EXCEPT ![w] = new]
          /\ \/ new = Fresh
             \/ worker[w].pc = "waiting" /\ new = [worker[w] EXCEPT !.pc = "idle"]
  <2>1. CASE worker[w].pc = "waiting" /\ worker' = [worker EXCEPT ![w].pc = "idle"]
    BY <2>1
  <2>2. CASE worker' = [worker EXCEPT ![w] = Fresh]
    BY <2>2
  <2>3. QED
    BY <2>1, <2>2 DEF Lose
<1>1. /\ inbox' = {IF r.from = w THEN [r EXCEPT !.live = FALSE] ELSE r : r \in inbox}
      /\ reply' = [reply EXCEPT ![w] = NoReply] /\ lease' = lease
  BY DEF Lose, store
<1>2. /\ worker \in [Worker -> WorkerType] /\ worker[w] \in WorkerType
      /\ reply \in [Worker -> ReplyType] /\ Sound(worker[w].intent)
      /\ worker[w].pc = "waiting" => worker[w].job = None
  BY CallFacts DEF CallTyped
<1>3. /\ new \in WorkerType /\ (new.intent = NoIntent \/ new.intent = worker[w].intent)
      /\ new.pc = "idle" /\ new.job = None
  BY <1>0, <1>2, NullTyped DEF WorkerType
<1>4. /\ worker' \in [Worker -> WorkerType] /\ worker'[w] = new
      /\ reply' \in [Worker -> ReplyType] /\ reply'[w] = NoReply
      /\ \A v \in Worker : v # w => worker'[v] = worker[v] /\ reply'[v] = reply[v]
  BY <1>0, <1>1, <1>2, <1>3, NullTyped
<1>5. ASSUME NEW q \in inbox'
      PROVE  /\ q \in CallType /\ (q.live => q.from # w /\ q \in inbox)
             /\ \E r \in inbox : q.intent = r.intent
  <2>1. PICK r \in inbox : q = IF r.from = w THEN [r EXCEPT !.live = FALSE] ELSE r
    BY <1>1, <1>5
  <2>2. r \in CallType
    BY CallFacts
  <2>3. QED
    BY <2>1, <2>2 DEF CallType
<1>6. CallTyped'
  <2>1. \A q \in inbox' : q \in CallType /\ Sound(q.intent)
    BY <1>5, CallFacts
  <2>2. QED
    BY <2>1, <1>2, <1>3, <1>4, NullTyped DEF CallTyped
<1>7. QuietRows
  BY <1>1 DEF QuietRows, QuietRow
<1>8. Submissions' \subseteq Submissions
  <2>1. \A v \in Worker : worker'[v].intent = NoIntent \/ worker'[v].intent = worker[v].intent
    BY <1>3, <1>4
  <2>2. ASSUME NEW i \in Submissions' PROVE i \in Submissions
    <3>1. i.op # "claim" /\ ((\E v \in Worker : i = worker'[v].intent) \/ (\E q \in inbox' : i = q.intent))
      BY <2>2 DEF Submissions
    <3>2. CASE \E v \in Worker : i = worker'[v].intent
      BY <3>1, <3>2, <2>1, NullTyped DEF Submissions
    <3>3. CASE \E q \in inbox' : i = q.intent
      BY <3>1, <3>3, <1>5 DEF Submissions
    <3>4. QED
      BY <3>1, <3>2, <3>3
  <2>3. QED
    BY <2>2
<1>9. \A v \in Worker : Asked(v)' \subseteq Asked(v)
  <2>1. Asked(w)' \subseteq Asked(w)
    BY <1>3, <1>4, NullTyped DEF Asked
  <2>2. \A v \in Worker : v # w => Asked(v)' = Asked(v)
    BY <1>4 DEF Asked
  <2>3. QED
    BY <2>1, <2>2
<1>10. \A v \in Worker : v # w => CallState(v)'
  BY <1>4, <1>5, <1>7, CallKept
<1>11. CallState(w)'
  BY <1>4, <1>5 DEF CallState
<1>12. QED
  BY <1>6, <1>7, <1>8, <1>9, <1>10, <1>11, AskedKept DEF AskInv

\* A request that nobody waits for is dropped.
LEMMA DiscardCalls ==
    ASSUME CallTyped, AskInv, NEW r \in inbox, Discard(r) PROVE CallTyped' /\ AskInv'
<1>1. inbox' = inbox \ {r} /\ worker' = worker /\ reply' = reply /\ lease' = lease
  BY DEF Discard, store
<1>2. CallTyped'
  BY <1>1 DEF CallTyped
<1>3. QuietRows
  BY <1>1 DEF QuietRows, QuietRow
<1>4. Submissions' \subseteq Submissions /\ \A w \in Worker : Asked(w)' \subseteq Asked(w)
  BY <1>1 DEF Submissions, Asked
<1>5. \A w \in Worker : CallState(w)'
  BY <1>1, <1>3, CallKept
<1>6. QED
  BY <1>2, <1>3, <1>4, <1>5, AskedKept DEF AskInv

\* What an answer does to the calls: the caller, if it still waits, has no other
\* request on its way.
LEMMA AnswerCalls ==
    ASSUME CallTyped, AskInv, NEW r \in inbox, NEW code, NEW l,
           [code |-> code, lease |-> l] \in ReplyType, code = "claimed" <=> l # None,
           Answer(r, code, l)
    PROVE  /\ CallTyped'
           /\ worker' = worker /\ inbox' = inbox \ {r} /\ Submissions' \subseteq Submissions
           /\ \A w \in Worker : w # r.from \/ ~r.live => reply'[w] = reply[w]
           /\ r.live => /\ worker[r.from].pc = "waiting" /\ reply[r.from] = NoReply
                        /\ reply'[r.from] = [code |-> code, lease |-> l]
                        /\ r.intent = worker[r.from].intent
                        /\ \A q \in inbox' : ~(q.from = r.from /\ q.live)
<1> SUFFICES ASSUME NEW new, new = [code |-> code, lease |-> l], NEW w, w = r.from
             PROVE  /\ CallTyped'
                    /\ worker' = worker /\ inbox' = inbox \ {r} /\ Submissions' \subseteq Submissions
                    /\ \A v \in Worker : v # w \/ ~r.live => reply'[v] = reply[v]
                    /\ r.live => /\ worker[w].pc = "waiting" /\ reply[w] = NoReply
                                 /\ reply'[w] = new
                                 /\ r.intent = worker[w].intent
                                 /\ \A q \in inbox' : ~(q.from = w /\ q.live)
  OBVIOUS
<1>1. /\ worker' = worker /\ inbox' = inbox \ {r}
      /\ reply' = IF r.live THEN [reply EXCEPT ![w] = new] ELSE reply
  BY DEF Answer
<1>2. /\ reply \in [Worker -> ReplyType] /\ w \in Worker /\ new \in ReplyType
      /\ new.code = code /\ new.lease = l
  BY CallFacts DEF CallTyped
<1>3. reply' \in [Worker -> ReplyType]
  BY <1>1, <1>2
<1>4. \A v \in Worker : v # w \/ ~r.live => reply'[v] = reply[v]
  BY <1>1, <1>2
<1>5. r.live => reply'[w] = new
  BY <1>1, <1>2
<1>6. CallTyped'
  BY <1>1, <1>2, <1>3, <1>4, <1>5 DEF CallTyped
<1>7. Submissions' \subseteq Submissions
  BY <1>1 DEF Submissions
<1>8. ASSUME r.live
      PROVE  /\ worker[w].pc = "waiting" /\ reply[w] = NoReply /\ r.intent = worker[w].intent
             /\ \A q \in inbox' : ~(q.from = w /\ q.live)
  <2>1. CallState(w)
    BY <1>2 DEF AskInv
  <2>2. worker[w].pc = "waiting" /\ reply[w] = NoReply /\ r.intent = worker[w].intent
    BY <2>1, <1>8 DEF CallState
  <2>3. ASSUME NEW q \in inbox', q.from = w, q.live PROVE FALSE
    <3>1. q \in inbox /\ q # r /\ q.intent = worker[w].intent
      BY <2>1, <2>3, <1>1 DEF CallState
    <3>2. q \in CallType /\ r \in CallType
      BY <3>1, CallFacts
    <3>3. q = r
      BY <3>1, <3>2, <2>2, <2>3, <1>8 DEF CallType
    <3>4. QED
      BY <3>1, <3>3
  <2>4. QED
    BY <2>2, <2>3
<1>9. QED
  BY <1>1, <1>4, <1>5, <1>6, <1>7, <1>8

\* A claim asks about a lease that nobody was asked about.
LEMMA ClaimCalls ==
    ASSUME StoreInv, CallTyped, AskInv, NEW r \in inbox, ServeClaim(r)
    PROVE  CallTyped' /\ AskInv'
<1> SUFFICES ASSUME NEW w, w = r.from PROVE CallTyped' /\ AskInv'
  OBVIOUS
<1>1. w \in Worker /\ r.intent.op = "claim" /\ lease \in [Lease -> LeaseType]
      /\ \A b : \A m \in Pending(b) : m \in Lease /\ lease[m].status = "pending"
  BY CallFacts DEF ServeClaim, StoreInv, StoreTyped, Pending
<1>2. ASSUME NEW b, NEW m \in Lease
      PROVE  \/ Swept(b)[m].status = lease[m].status /\ Swept(b)[m].choice = lease[m].choice
             \/ lease[m].status = "pending" /\ Swept(b)[m].status = "superseded"
  <2>1. CASE Pending(b) = {}
    BY <2>1 DEF Swept
  <2>2. CASE Pending(b) # {}
    <3>1. PICK p \in Pending(b) : Swept(b) = Superseded(p)
      BY <2>2 DEF Swept
    <3>2. p \in Lease /\ lease[p].status = "pending"
      BY <1>1
    <3>3. CASE m = p
      BY <3>1, <3>2, <3>3, <1>1 DEF Superseded, LeaseType
    <3>4. CASE m # p
      BY <3>1, <3>2, <3>4, <1>1 DEF Superseded
    <3>5. QED
      BY <3>3, <3>4
  <2>3. QED
    BY <2>1, <2>2
<1>3. CASE ClaimNothing(Serves[w]) /\ Answer(r, "nothing", None)
  <2>1. QuietRows
    BY <1>2, <1>3 DEF ClaimNothing, QuietRows, QuietRow
  <2>2. [code |-> "nothing", lease |-> None] \in ReplyType
        /\ [code |-> "nothing", lease |-> None].lease = None
    BY DEF ReplyType
  <2>3. /\ CallTyped'
        /\ worker' = worker /\ inbox' = inbox \ {r} /\ Submissions' \subseteq Submissions
        /\ \A v \in Worker : v # r.from \/ ~r.live => reply'[v] = reply[v]
        /\ r.live => /\ worker[r.from].pc = "waiting" /\ reply[r.from] = NoReply
                     /\ reply'[r.from] = [code |-> "nothing", lease |-> None]
                     /\ r.intent = worker[r.from].intent
                     /\ \A q \in inbox' : ~(q.from = r.from /\ q.live)
    BY <2>2, <1>3, AnswerCalls
  <2>4. \A v \in Worker : Asked(v)' \subseteq Asked(v)
    BY <2>2, <2>3 DEF Asked
  <2>5. \A v \in Worker : v # w \/ ~r.live => CallState(v)'
    BY <2>1, <2>3, CallKept
  <2>6. r.live => CallState(w)'
    BY <2>3, <1>1 DEF CallState
  <2>7. QED
    BY <2>1, <2>3, <2>4, <2>5, <2>6, AskedKept DEF AskInv
<1>4. ASSUME NEW l \in Lease, ClaimLease(Serves[w], l), Answer(r, "claimed", l)
      PROVE  CallTyped' /\ AskInv'
  <2>1. /\ lease[l].status = "absent"
        /\ lease'[l].status = "pending"
        /\ \A m \in Lease : m # l => lease'[m] = Swept(Serves[w])[m]
    <3>1. \E T : Swept(Serves[w]) \in [Lease -> T]
      <4>1. lease \in [Lease -> LeaseType]
        BY <1>1
      <4>2. \A p \in Lease : \E row : Superseded(p) = [lease EXCEPT ![p] = row]
        BY <4>1 DEF Superseded
      <4>3. \A p \in Lease : \E row : Superseded(p) \in [Lease -> LeaseType \cup {row}]
        BY <4>1, <4>2
      <4>4. CASE Pending(Serves[w]) = {}
        BY <4>1, <4>4 DEF Swept
      <4>5. CASE Pending(Serves[w]) # {}
        <5>1. PICK p \in Pending(Serves[w]) : Swept(Serves[w]) = Superseded(p)
          BY <4>5 DEF Swept
        <5>2. p \in Lease
          BY <1>1
        <5>3. PICK row : Superseded(p) \in [Lease -> LeaseType \cup {row}]
          BY <5>2, <4>3
        <5>4. QED
          BY <5>1, <5>3
      <4>6. QED
        BY <4>4, <4>5
    <3>2. PICK T : Swept(Serves[w]) \in [Lease -> T]
      BY <3>1
    <3>3. \E row : row.status = "pending" /\ lease' = [Swept(Serves[w]) EXCEPT ![l] = row]
      BY <1>4 DEF ClaimLease, NoRow
    <3>4. QED
      BY <3>2, <3>3, <1>4 DEF ClaimLease
  <2>2. QuietRows
    BY <2>1, <1>2 DEF QuietRows, QuietRow
  <2>3. /\ [code |-> "claimed", lease |-> l] \in ReplyType
        /\ [code |-> "claimed", lease |-> l].lease = l /\ l # None
    BY NamingAssumption DEF ReplyType
  <2>4. /\ CallTyped'
        /\ worker' = worker /\ inbox' = inbox \ {r} /\ Submissions' \subseteq Submissions
        /\ \A v \in Worker : v # r.from \/ ~r.live => reply'[v] = reply[v]
        /\ r.live => /\ worker[r.from].pc = "waiting" /\ reply[r.from] = NoReply
                     /\ reply'[r.from] = [code |-> "claimed", lease |-> l]
                     /\ r.intent = worker[r.from].intent
                     /\ \A q \in inbox' : ~(q.from = r.from /\ q.live)
    BY <2>3, <1>4, AnswerCalls
  <2>5. \A v \in Worker : Asked(v)' \subseteq Asked(v) \/ (v = w /\ Asked(v)' \subseteq {l})
    <3>1. \A v \in Worker : v # w \/ ~r.live => Asked(v)' = Asked(v)
      BY <2>4 DEF Asked
    <3>2. r.live => Asked(w)' \subseteq {l}
      BY <2>3, <2>4, <1>1, CallFacts DEF Asked
    <3>3. QED
      BY <3>1, <3>2
  <2>6. (\A v \in Worker : l \notin Asked(v)) /\ \A i \in Submissions : i.lease # l
    BY <2>1 DEF AskInv, Unanswered, OneAnswer
  <2>7. AskedOnce'
    <3>1. ASSUME NEW v \in Worker, NEW u \in Worker, NEW m \in Asked(v)', m \in Asked(u)'
          PROVE  v = u
      BY <3>1, <2>5, <2>6 DEF AskInv, AskedOnce
    <3>2. QED
      BY <3>1 DEF AskedOnce
  <2>8. Unanswered'
    <3>1. ASSUME NEW v \in Worker, NEW m \in Asked(v)'
          PROVE  lease'[m].status \in {"pending", "superseded"} /\ \A i \in Submissions' : i.lease # m
      <4>1. CASE m = l
        BY <4>1, <2>1, <2>4, <2>6
      <4>2. CASE m # l
        <5>1. m \in Asked(v)
          BY <4>2, <3>1, <2>5
        <5>2. m \in Lease
          BY <5>1, CallFacts DEF Asked
        <5>3. lease[m].status \in {"pending", "superseded"} /\ \A i \in Submissions : i.lease # m
          BY <5>1 DEF AskInv, Unanswered
        <5>4. QuietRow(m)
          BY <5>2, <5>3, <2>2 DEF QuietRows
        <5>5. QED
          BY <5>3, <5>4, <2>4 DEF QuietRow
      <4>3. QED
        BY <4>1, <4>2
    <3>2. QED
      BY <3>1 DEF Unanswered
  <2>9. OneAnswer'
    <3>1. ASSUME NEW i \in Submissions'
          PROVE  /\ lease'[i.lease].status # "absent"
                 /\ lease'[i.lease].status = "completed" =>
                        i.op = "complete" /\ i.choice = lease'[i.lease].choice
                 /\ lease'[i.lease].status = "failed" => i.choice = lease'[i.lease].choice
      <4>1. i \in Submissions /\ i.lease \in Lease
        BY <3>1, <2>4, CallFacts
      <4>2. /\ lease[i.lease].status # "absent"
            /\ lease[i.lease].status = "completed" =>
                   i.op = "complete" /\ i.choice = lease[i.lease].choice
            /\ lease[i.lease].status = "failed" => i.choice = lease[i.lease].choice
        BY <4>1 DEF AskInv, OneAnswer
      <4>3. QuietRow(i.lease)
        BY <4>1, <4>2, <2>2 DEF QuietRows
      <4>4. QED
        BY <4>2, <4>3 DEF QuietRow
    <3>2. \A i, j \in Submissions' : i.lease = j.lease => i = j
      BY <2>4 DEF AskInv, OneAnswer
    <3>3. QED
      BY <3>1, <3>2 DEF OneAnswer
  <2>10. \A v \in Worker : v # w \/ ~r.live => CallState(v)'
    BY <2>2, <2>4, CallKept
  <2>11. r.live => CallState(w)'
    BY <2>4, <1>1 DEF CallState
  <2>12. QED
    BY <2>4, <2>7, <2>8, <2>9, <2>10, <2>11 DEF AskInv
<1>5. QED
  BY <1>3, <1>4 DEF ServeClaim

\* Settling decides or supersedes a pending lease, and leaves the others.
LEMMA SettledRow ==
    ASSUME StoreInv, NEW i, Sound(i), i.op # "claim", Settle(i.lease, i)
    PROVE  /\ \A m \in Lease : m # i.lease => lease'[m] = lease[m]
           /\ lease[i.lease].status # "pending" => lease'[i.lease] = lease[i.lease]
           /\ lease[i.lease].status = "pending" =>
                \/ lease'[i.lease].status = "superseded"
                \/ lease'[i.lease].status = "completed" /\ i.op = "complete"
                   /\ lease'[i.lease].choice = i.choice
                \/ lease'[i.lease].status = "failed" /\ lease'[i.lease].choice = i.choice
<1> SUFFICES ASSUME NEW l, l = i.lease
             PROVE  /\ \A m \in Lease : m # l => lease'[m] = lease[m]
                    /\ lease[l].status # "pending" => lease'[l] = lease[l]
                    /\ lease[l].status = "pending" =>
                         \/ lease'[l].status = "superseded"
                         \/ lease'[l].status = "completed" /\ i.op = "complete"
                            /\ lease'[l].choice = i.choice
                         \/ lease'[l].status = "failed" /\ lease'[l].choice = i.choice
  OBVIOUS
<1>1. /\ l \in Lease /\ lease \in [Lease -> LeaseType] /\ lease[l] \in LeaseType
      /\ i.op = "fail" => i.choice = None
  BY NullTyped DEF Sound, StoreInv, StoreTyped
<1>2. CASE lease[l].status # "pending"
  BY <1>2 DEF Settle, store
<1>3. CASE lease[l].status = "pending" /\ lease' = Superseded(l)
  <2>1. PICK row : row.status = "superseded" /\ lease' = [lease EXCEPT ![l] = row]
    <3>1. PICK e : lease' = [lease EXCEPT ![l] = [lease[l] EXCEPT !.status = "superseded", !.end = e]]
      BY <1>1, <1>3 DEF Superseded
    <3>2. [lease[l] EXCEPT !.status = "superseded", !.end = e].status = "superseded"
      BY <1>1 DEF LeaseType
    <3>3. QED
      BY <3>1, <3>2
  <2>2. QED
    BY <2>1, <1>1, <1>3
<1>4. ASSUME lease[l].status = "pending", NEW status, NEW choice, NEW events,
             Decide(l, status, choice, events)
      PROVE  /\ \A m \in Lease : m # l => lease'[m] = lease[m]
             /\ lease'[l].status = status /\ lease'[l].choice = choice
  <2>1. PICK e : lease' = [lease EXCEPT ![l] = [lease[l] EXCEPT !.status = status, !.choice = choice,
                                                                !.end = e]]
    BY <1>1, <1>4 DEF Decide
  <2>2. PICK row : /\ lease' = [lease EXCEPT ![l] = row]
                   /\ row = [lease[l] EXCEPT !.status = status, !.choice = choice, !.end = e]
    BY <2>1
  <2>3. row.status = status /\ row.choice = choice
    BY <2>2, <1>1 DEF LeaseType
  <2>4. QED
    BY <2>2, <2>3, <1>1
<1>5. CASE lease[l].status = "pending" /\ i.op = "complete" /\ Conclude(l, i.choice)
  BY <1>4, <1>5 DEF Conclude
<1>6. CASE lease[l].status = "pending" /\ i.op = "fail"
           /\ Decide(l, "failed", None, <<Event("cognition.failed", l, None)>>)
  <2>1. /\ \A m \in Lease : m # l => lease'[m] = lease[m]
        /\ lease'[l].status = "failed" /\ lease'[l].choice = None
    BY <1>4, <1>6
  <2>2. QED
    BY <2>1, <1>1, <1>6
<1>7. QED
  BY <1>2, <1>3, <1>5, <1>6 DEF Settle

\* The answer to an intent says what its lease became.
LEMMA SettleCalls ==
    ASSUME StoreInv, CallTyped, AskInv, NEW r \in inbox, ServeTerminal(r)
    PROVE  CallTyped' /\ AskInv'
<1> SUFFICES ASSUME NEW w, w = r.from, NEW i, i = r.intent, NEW l, l = i.lease,
                    NEW code, code = CodeOf(lease'[l], i)
             PROVE  CallTyped' /\ AskInv'
  OBVIOUS
<1>1. /\ i.op # "claim" /\ i \in Submissions /\ Sound(i) /\ l \in Lease /\ w \in Worker
      /\ Settle(l, i) /\ Answer(r, code, None) /\ lease[l] \in LeaseType
  BY CallFacts DEF ServeTerminal, StoreInv, StoreTyped
<1>2. AskedOnce /\ Unanswered /\ OneAnswer
  BY DEF AskInv
<1>3. /\ lease[l].status # "absent"
      /\ lease[l].status = "completed" => i.op = "complete" /\ i.choice = lease[l].choice
      /\ lease[l].status = "failed" => i.choice = lease[l].choice
  BY <1>1, <1>2 DEF OneAnswer
<1>4. /\ \A m \in Lease : m # l => lease'[m] = lease[m]
      /\ lease[l].status # "pending" => lease'[l] = lease[l]
      /\ lease[l].status = "pending" =>
            \/ lease'[l].status = "superseded"
            \/ lease'[l].status = "completed" /\ i.op = "complete" /\ lease'[l].choice = i.choice
            \/ lease'[l].status = "failed" /\ lease'[l].choice = i.choice
  BY <1>1, SettledRow
<1>5. /\ lease'[l].status \in {"completed", "failed", "superseded"}
      /\ lease'[l].status = "completed" => i.op = "complete" /\ i.choice = lease'[l].choice
      /\ lease'[l].status = "failed" => i.choice = lease'[l].choice
  BY <1>1, <1>3, <1>4 DEF LeaseType
<1>6. code = lease'[l].status
  BY <1>5 DEF CodeOf
<1>7. /\ [code |-> code, lease |-> None] \in ReplyType
      /\ [code |-> code, lease |-> None].code = code
      /\ [code |-> code, lease |-> None].lease = None /\ code # "claimed"
  BY <1>5, <1>6 DEF ReplyType
<1>8. /\ CallTyped'
      /\ worker' = worker /\ inbox' = inbox \ {r} /\ Submissions' \subseteq Submissions
      /\ \A v \in Worker : v # w \/ ~r.live => reply'[v] = reply[v]
      /\ r.live => /\ worker[w].pc = "waiting" /\ reply[w] = NoReply
                   /\ reply'[w] = [code |-> code, lease |-> None]
                   /\ r.intent = worker[w].intent
                   /\ \A q \in inbox' : ~(q.from = w /\ q.live)
  BY <1>1, <1>7, AnswerCalls
<1>9. \A v \in Worker : Asked(v)' \subseteq Asked(v)
  <2>1. \A v \in Worker : v # w \/ ~r.live => Asked(v)' = Asked(v)
    BY <1>8 DEF Asked
  <2>2. r.live => Asked(w)' \subseteq Asked(w)
    BY <1>7, <1>8 DEF Asked
  <2>3. QED
    BY <2>1, <2>2
<1>10. AskedOnce'
  BY <1>2, <1>9 DEF AskedOnce
<1>11. Unanswered'
  <2>1. ASSUME NEW v \in Worker, NEW m \in Asked(v)'
        PROVE  lease'[m].status \in {"pending", "superseded"} /\ \A j \in Submissions' : j.lease # m
    <3>1. m \in Asked(v)
      BY <2>1, <1>9
    <3>2. m \in Lease
      BY <3>1, CallFacts DEF Asked
    <3>3. lease[m].status \in {"pending", "superseded"} /\ \A j \in Submissions : j.lease # m
      BY <3>1, <1>2 DEF Unanswered
    <3>4. m # l
      BY <3>3, <1>1
    <3>5. QED
      BY <3>2, <3>3, <3>4, <1>4, <1>8
  <2>2. QED
    BY <2>1 DEF Unanswered
<1>12. OneAnswer'
  <2>1. ASSUME NEW j \in Submissions'
        PROVE  /\ lease'[j.lease].status # "absent"
               /\ lease'[j.lease].status = "completed" =>
                      j.op = "complete" /\ j.choice = lease'[j.lease].choice
               /\ lease'[j.lease].status = "failed" => j.choice = lease'[j.lease].choice
    <3>1. j \in Submissions /\ j.lease \in Lease
      BY <2>1, <1>8, CallFacts
    <3>2. CASE j.lease = l
      <4>1. j = i
        BY <3>1, <3>2, <1>1, <1>2 DEF OneAnswer
      <4>2. QED
        BY <4>1, <1>5
    <3>3. CASE j.lease # l
      BY <3>1, <3>3, <1>2, <1>4 DEF OneAnswer
    <3>4. QED
      BY <3>2, <3>3
  <2>2. \A j, k \in Submissions' : j.lease = k.lease => j = k
    BY <1>2, <1>8 DEF OneAnswer
  <2>3. QED
    BY <2>1, <2>2 DEF OneAnswer
<1>13. ASSUME NEW v \in Worker, v # w \/ ~r.live PROVE CallState(v)'
  <2>1. CallState(v) /\ reply'[v] = reply[v] /\ worker'[v] = worker[v]
    BY <1>8, <1>13 DEF AskInv
  <2>2. reply'[v] # NoReply => worker'[v].pc = "waiting"
    BY <2>1 DEF CallState
  <2>3. \A q \in inbox' : q.from = v /\ q.live =>
            worker'[v].pc = "waiting" /\ reply'[v] = NoReply /\ q.intent = worker'[v].intent
    BY <2>1, <1>8 DEF CallState
  <2>4. ASSUME worker[v].intent.op # "claim", reply[v] # NoReply, NEW m, m = worker[v].intent.lease
        PROVE  /\ reply'[v].code = lease'[m].status
               /\ lease'[m].status \in {"completed", "failed", "superseded"}
               /\ lease'[m].status \in {"completed", "failed"} =>
                      lease'[m].choice = worker[v].intent.choice
    <3>1. m \in Lease
      BY <2>4, CallFacts
    <3>2. /\ reply[v].code = lease[m].status
          /\ lease[m].status \in {"completed", "failed", "superseded"}
          /\ lease[m].status \in {"completed", "failed"} => lease[m].choice = worker[v].intent.choice
      BY <2>1, <2>4 DEF CallState
    <3>3. lease'[m] = lease[m]
      BY <3>1, <3>2, <1>4
    <3>4. QED
      BY <3>2, <3>3, <2>1
  <2>5. QED
    BY <2>1, <2>2, <2>3, <2>4 DEF CallState
<1>14. r.live => CallState(w)'
  BY <1>5, <1>6, <1>7, <1>8 DEF CallState
<1>15. QED
  BY <1>8, <1>10, <1>11, <1>12, <1>13, <1>14 DEF AskInv

-----------------------------------------------------------------------------
(* Theorems *)

NamingInv == StoreInv /\ CallTyped /\ AskInv

\* No worker has called and no host was asked.
LEMMA CallsInit == Init => CallTyped /\ AskInv
<1> SUFFICES ASSUME Init PROVE CallTyped /\ AskInv
  OBVIOUS
<1>1. worker = [w \in Worker |-> Fresh] /\ inbox = {} /\ reply = [w \in Worker |-> NoReply]
  BY DEF Init
<1>2. CallTyped
  BY <1>1, NullTyped DEF CallTyped
<1>3. Submissions = {} /\ \A w \in Worker : Asked(w) = {}
  BY <1>1, NullTyped DEF Submissions, Asked
<1>4. \A w \in Worker : CallState(w)
  BY <1>1, NullTyped DEF CallState
<1>5. QED
  BY <1>2, <1>3, <1>4 DEF AskInv, AskedOnce, Unanswered, OneAnswer

\* Every step keeps the store and the calls right together.
LEMMA NamingStep == NamingInv /\ [Next]_vars => NamingInv'
<1> SUFFICES ASSUME StoreInv, CallTyped, AskInv, [Next]_vars PROVE NamingInv'
  BY DEF NamingInv
<1> USE DEF NamingInv
<1>1. CASE UNCHANGED vars
  <2>1. UNCHANGED store /\ UNCHANGED calls
    BY <1>1 DEF vars
  <2>2. QuietRows
    BY <2>1 DEF QuietRows, QuietRow, store
  <2>3. QED
    BY <2>1, <2>2, StoreSame, StoreOnly
<1>2. ASSUME NEW b \in Brain, NEW n \in Name, Rename(b, n) PROVE NamingInv'
  BY <1>2, RenameStore, RenameCalls
<1>3. ASSUME NEW l \in Lease, Expire(l) PROVE NamingInv'
  BY <1>3, ExpireStore, ExpireCalls DEF StoreInv
<1>4. ASSUME NEW w \in Worker, Begin(w) \/ Ask(w) \/ Receive(w) \/ Lose(w) PROVE NamingInv'
  <2>1. UNCHANGED store
    BY <1>4 DEF Begin, Ask, Receive, Lose
  <2>2. QED
    BY <1>4, <2>1, StoreSame, BeginCalls, AskCalls, ReceiveCalls, LoseCalls
<1>5. ASSUME NEW r \in inbox, ServeClaim(r) PROVE NamingInv'
  <2>1. Serves[r.from] \in Brain
    BY CallFacts, NamingAssumption
  <2>2. StoreInv'
    BY <1>5, <2>1, ClaimNothingStore, ClaimLeaseStore DEF ServeClaim
  <2>3. QED
    BY <1>5, <2>2, ClaimCalls
<1>6. ASSUME NEW r \in inbox, ServeTerminal(r) PROVE NamingInv'
  <2>1. PICK i : i = r.intent
    OBVIOUS
  <2>2. i.op # "claim" /\ Sound(i) /\ Settle(i.lease, i)
    BY <1>6, <2>1, CallFacts DEF ServeTerminal
  <2>3. i.lease \in Lease /\ (i.op = "complete" => i.choice \in Name)
    BY <2>2, NullTyped DEF Sound
  <2>4. StoreInv'
    BY <2>2, <2>3, SettleStore
  <2>5. QED
    BY <1>6, <2>4, SettleCalls
<1>7. ASSUME NEW r \in inbox, Discard(r) PROVE NamingInv'
  BY <1>7, StoreSame, DiscardCalls DEF Discard
<1>8. QED
  BY <1>1, <1>2, <1>3, <1>4, <1>5, <1>6, <1>7 DEF Next

\* The answer that a worker holds is what the row and its events say.
LEMMA TrueAnswers == NamingInv => TypeOK /\ AnswersAreTrue
<1> SUFFICES ASSUME StoreInv, CallTyped, AskInv PROVE TypeOK /\ AnswersAreTrue
  BY DEF NamingInv
<1>1. TypeOK
  BY CallFacts DEF TypeOK, StoreInv, StoreTyped
<1>2. ASSUME NEW w \in Worker, NEW i, i = worker[w].intent, i.op # "claim", reply[w] # NoReply,
             NEW l, l = i.lease
      PROVE  /\ reply[w].code = lease[l].status
             /\ lease[l].status \in {"completed", "failed"} => lease[l].choice = i.choice
             /\ lease[l].status = "completed" =>
                   log[lease[l].brain][lease[l].end] = Event("identity.named", l, i.choice)
  <2>1. /\ reply[w].code = lease[l].status
        /\ lease[l].status \in {"completed", "failed", "superseded"}
        /\ lease[l].status \in {"completed", "failed"} => lease[l].choice = i.choice
    BY <1>2 DEF AskInv, CallState
  <2>2. l \in Lease
    BY <1>2, CallFacts
  <2>3. RowInv(l)
    BY <2>1, <2>2 DEF StoreInv, RowsInv
  <2>4. QED
    BY <2>1, <2>3 DEF RowInv
<1>3. AnswersAreTrue
  BY <1>2 DEF AnswersAreTrue
<1>4. QED
  BY <1>1, <1>3

LEMMA NamingHolds == Spec => []NamingInv
<1>1. Init => NamingInv
  BY StoreInit, CallsInit DEF NamingInv
<1>2. QED
  BY <1>1, NamingStep, PTL DEF Spec

\* The events, the registry, the leases and the retained intents have their types:
\* a lease that was never claimed has no brain, no events and no decision.
THEOREM NamingTyped == Spec => []TypeOK
BY NamingHolds, TrueAnswers, PTL

\* Whatever clients, workers, lost calls and expiring leases do, the audit of the
\* next start (runtime/store.py) accepts the registry of names, the leases and the
\* events of the naming.
THEOREM NextStartAcceptsNames == Spec => []NamingAudit
<1>1. NamingInv => NamingAudit
  BY StoreAudit DEF NamingInv
<1>2. QED
  BY <1>1, NamingHolds, PTL

\* The host names a brain only while it has no name: an answer that comes after a
\* client, or after the answer of another lease, renames nobody.
THEOREM HostNamesOnce == Spec => []NamesOnlyTheUnnamed
<1>1. NamingInv => NamesOnlyTheUnnamed
  BY StoreAudit DEF NamingInv
<1>2. QED
  BY <1>1, NamingHolds, PTL

\* No worker is told that its choice named the brain, was refused or came too late
\* when it was not so, and none is refused for a conflict.
THEOREM WorkersHearTheTruth == Spec => []AnswersAreTrue
BY NamingHolds, TrueAnswers, PTL
=============================================================================
