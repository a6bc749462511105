----------------------- MODULE BootstrapCaptureProofs -----------------------
(***************************************************************************)
(* Theorems about the bootstrap buffer, for any number of captures, any    *)
(* capacity and any exceptions: every capture is held once and in order,   *)
(* the health counts exactly what was lost, and bridge and buffer agree.   *)
(***************************************************************************)
EXTENDS BootstrapCapture, SequenceTheorems, FiniteSetTheorems, TLAPS

-----------------------------------------------------------------------------
(* The invariant *)

Sound(i) == i.first <= i.last /\ (~i.gap => i.first = i.last)
Before(i, j) == i.last < j.first
Apart(i, j) == Before(i, j) \/ Before(j, i)
Ordered(s) == \A j, k \in DOMAIN s : j < k => Before(s[j], s[k])

\* Queue and overflow are in order, each by itself; what the worker retains comes
\* before all of it.
BufInv(b) ==
    /\ b \in BufType /\ Len(b.queue) <= QueueCapacity
    /\ \A i \in Items(b) : Sound(i)
    /\ \A l \in DOMAIN b.overflow : b.overflow[l].gap
    /\ Ordered(b.queue) /\ Ordered(b.overflow)
    /\ \A k \in DOMAIN b.queue, l \in DOMAIN b.overflow : Apart(b.queue[k], b.overflow[l])
    /\ b.head # None =>
          /\ \A k \in DOMAIN b.queue : Before(b.head, b.queue[k])
          /\ \A l \in DOMAIN b.overflow : Apart(b.head, b.overflow[l])
    /\ b.retained # None =>
          /\ b.head # None => Before(b.retained, b.head)
          /\ \A k \in DOMAIN b.queue : Before(b.retained, b.queue[k])
          /\ \A l \in DOMAIN b.overflow : Before(b.retained, b.overflow[l])

Held(n, b) == \E i \in Items(b) : Inside(n, i)

\* What is known of capture n when the buffer is b, what became of the captures is
\* f, g became gaps, and x is the next one and d the one of a dispatch.
Row(n, b, f, g, x, d) ==
    /\ \A i \in Items(b) : Inside(n, i) => n < x /\ f[n] = "none" /\ (n \in g <=> i.gap)
    /\ ~Held(n, b) => IF n >= x \/ n = d THEN f[n] = "none" /\ n \notin g ELSE f[n] # "none"

\* The dispatch is of the last capture, which the worker does not have.
DispatchInv ==
    /\ dispatch \in {0, next - 1}
    /\ dispatch # 0 /\ buf.retained # None => buf.retained.last < dispatch

\* The worker works on what it retains, and knows what the bridge said of it.
WorkerInv ==
    /\ worker.pc \in {"offer", "mark"} => worker.capture # None /\ worker.capture = buf.retained
    /\ worker.pc = "mark" =>
          /\ worker.answer # "none"
          /\ \A n \in Seqs : Inside(n, worker.capture) => taken[n] = worker.answer
    /\ bridge.receipt # None =>
          \A n \in Seqs : Inside(n, bridge.receipt.item) => taken[n] = bridge.receipt.disposition

\* The captures that were handed over or taken late and count as lost.
Gone(f, g) == {n \in Seqs : f[n] # "none" /\ (n \in g \/ f[n] = "late")}
Lost(f, g) == g \cup {n \in Seqs : f[n] = "late"}

CountInv ==
    /\ health.pending = Cardinality(Waiting)
    /\ health.late = Cardinality({n \in Seqs : fate[n] = "late"})
    /\ handed = Cardinality(Gone(fate, gaps))
    /\ health.dropped = handed + GapCaptures(buf)
    /\ health.complete <=> Lost(fate, gaps) = {}

BootstrapInv ==
    /\ TypeOK
    /\ BufInv(buf)
    /\ \A n \in Seqs : Row(n, buf, fate, gaps, next, dispatch)
    /\ DispatchInv /\ WorkerInv /\ CountInv /\ SidesAgree

-----------------------------------------------------------------------------
(* Buffers *)

\* What an item is, field by field.
LEMMA ItemFields ==
  /\ \A i \in Item : /\ i.first \in Seqs /\ i.last \in Seqs /\ i.gap \in BOOLEAN /\ i # None
                     /\ i.first \in Nat /\ i.last \in Nat
  /\ \A n \in Seqs : /\ Observation(n) \in Item /\ Gap(n) \in Item
                     /\ Sound(Observation(n)) /\ Sound(Gap(n))
                     /\ ~Observation(n).gap /\ Gap(n).gap
                     /\ Observation(n).first = n /\ Observation(n).last = n
                     /\ Gap(n).first = n /\ Gap(n).last = n
BY NullAssumption, BootstrapAssumption DEF Item, Seqs, Observation, Gap, Sound

\* The items of a buffer are what is in its four places.
LEMMA ItemsAre ==
  ASSUME NEW b, NEW i
  PROVE  i \in Items(b) <=>
           /\ i # None
           /\ \/ i = b.retained
              \/ i = b.head
              \/ \E k \in DOMAIN b.queue : i = b.queue[k]
              \/ \E l \in DOMAIN b.overflow : i = b.overflow[l]
BY DEF Items, ToSet

\* Each of them is an item.
LEMMA ItemsTyped ==
  ASSUME NEW b \in BufType
  PROVE  /\ Items(b) \subseteq Item
         /\ \A k \in DOMAIN b.queue : b.queue[k] \in Item /\ b.queue[k] \in Items(b)
         /\ \A l \in DOMAIN b.overflow : b.overflow[l] \in Item /\ b.overflow[l] \in Items(b)
         /\ b.retained # None => b.retained \in Item /\ b.retained \in Items(b)
         /\ b.head # None => b.head \in Item /\ b.head \in Items(b)
<1>1. /\ \A k \in DOMAIN b.queue : b.queue[k] \in Item
      /\ \A l \in DOMAIN b.overflow : b.overflow[l] \in Item
      /\ b.retained \in Item \cup {None} /\ b.head \in Item \cup {None}
  BY DEF BufType
<1>2. \A i \in Item : i # None
  BY ItemFields
<1>3. \A i \in Items(b) : i \in Item
  BY <1>1, ItemsAre
<1> QED
  BY <1>1, <1>2, <1>3, ItemsAre

\* Two of them hold different captures.
LEMMA ItemsApart ==
  ASSUME NEW b, BufInv(b), NEW i \in Items(b), NEW j \in Items(b), i # j
  PROVE  Apart(i, j)
<1> DEFINE Place(x) == \/ x = b.retained
                       \/ x = b.head
                       \/ \E k \in DOMAIN b.queue : x = b.queue[k]
                       \/ \E l \in DOMAIN b.overflow : x = b.overflow[l]
<1>1. Place(i) /\ Place(j) /\ i # None /\ j # None
  BY ONLY ItemsAre
<1>2. ASSUME NEW s, Ordered(s), DOMAIN s \subseteq Nat, NEW k \in DOMAIN s, NEW l \in DOMAIN s,
             s[k] # s[l]
      PROVE  Apart(s[k], s[l])
  <2>1. k < l \/ l < k
    BY <1>2
  <2> QED
    BY <1>2, <2>1 DEF Ordered, Apart
<1>3. DOMAIN b.queue \subseteq Nat /\ DOMAIN b.overflow \subseteq Nat
  BY DEF BufInv, BufType
<1>4. CASE i = b.retained \/ j = b.retained
  BY <1>1, <1>4 DEF BufInv, Apart
<1>5. CASE i = b.head \/ j = b.head
  BY <1>1, <1>4, <1>5 DEF BufInv, Apart
<1>6. CASE /\ \E k \in DOMAIN b.queue : i = b.queue[k]
           /\ \E k \in DOMAIN b.queue : j = b.queue[k]
  BY <1>2, <1>3, <1>6 DEF BufInv
<1>7. CASE /\ \E k \in DOMAIN b.overflow : i = b.overflow[k]
           /\ \E k \in DOMAIN b.overflow : j = b.overflow[k]
  BY <1>2, <1>3, <1>7 DEF BufInv
<1>8. CASE \/ /\ \E k \in DOMAIN b.overflow : i = b.overflow[k]
              /\ \E k \in DOMAIN b.queue : j = b.queue[k]
           \/ /\ \E k \in DOMAIN b.overflow : j = b.overflow[k]
              /\ \E k \in DOMAIN b.queue : i = b.queue[k]
  BY <1>8 DEF BufInv, Apart
<1> QED
  BY <1>1, <1>4, <1>5, <1>6, <1>7, <1>8

\* Capture m waits as in b.
SameFor(m, b, c) ==
    /\ \A i \in Items(b) : Inside(m, i) => \E j \in Items(c) : Inside(m, j) /\ j.gap = i.gap
    /\ \A j \in Items(c) : Inside(m, j) => \E i \in Items(b) : Inside(m, i) /\ j.gap = i.gap

\* A new item that comes after all others fits at the end of the queue.
LEMMA QueueGrows ==
  ASSUME NEW b, BufInv(b), Len(b.queue) < QueueCapacity,
         NEW i \in Item, Sound(i), \A j \in Items(b) : Before(j, i),
         NEW c, c = [b EXCEPT !.queue = Append(@, i)]
  PROVE  BufInv(c) /\ Items(c) = Items(b) \cup {i} /\ c.retained = b.retained
<1>1. b \in BufType /\ Len(b.queue) \in Nat /\ QueueCapacity \in Nat
  BY BootstrapAssumption DEF BufInv, BufType
<1>2. /\ c \in BufType /\ c.retained = b.retained /\ c.head = b.head
      /\ c.overflow = b.overflow /\ c.queue = Append(b.queue, i)
  <2>1. Append(b.queue, i) \in Seq(Item)
    BY <1>1, AppendProperties DEF BufType
  <2> QED
    BY <1>1, <2>1 DEF BufType
<1>3. /\ DOMAIN c.queue = 1 .. Len(b.queue) + 1 /\ Len(c.queue) = Len(b.queue) + 1
      /\ DOMAIN b.queue = 1 .. Len(b.queue)
      /\ \A k \in DOMAIN b.queue : k \in DOMAIN c.queue /\ c.queue[k] = b.queue[k]
      /\ c.queue[Len(b.queue) + 1] = i
  BY <1>1, <1>2 DEF BufType
<1>4. Items(c) = Items(b) \cup {i}
  <2>1. \A j : (\E k \in DOMAIN c.queue : j = c.queue[k]) <=>
                  (\E k \in DOMAIN b.queue : j = b.queue[k]) \/ j = i
    BY <1>1, <1>3
  <2>2. i # None
    BY ItemFields
  <2>3. ASSUME NEW j PROVE j \in Items(c) <=> j \in Items(b) \/ j = i
    <3>1. j \in Items(b) <=>
            /\ j # None
            /\ \/ j = b.retained
               \/ j = b.head
               \/ \E k \in DOMAIN b.queue : j = b.queue[k]
               \/ \E l \in DOMAIN b.overflow : j = b.overflow[l]
      BY ONLY ItemsAre
    <3>2. j \in Items(c) <=>
            /\ j # None
            /\ \/ j = c.retained
               \/ j = c.head
               \/ \E k \in DOMAIN c.queue : j = c.queue[k]
               \/ \E l \in DOMAIN c.overflow : j = c.overflow[l]
      BY ONLY ItemsAre
    <3> QED
      BY <1>2, <2>1, <2>2, <3>1, <3>2
  <2> QED
    BY <2>3
<1>5. /\ \A k \in DOMAIN b.queue : Before(b.queue[k], i)
      /\ \A l \in DOMAIN b.overflow : Before(b.overflow[l], i)
      /\ b.head # None => Before(b.head, i)
      /\ b.retained # None => Before(b.retained, i)
  BY <1>1, ItemsTyped
<1>6. Ordered(c.queue)
  <2> SUFFICES ASSUME NEW j \in DOMAIN c.queue, NEW k \in DOMAIN c.queue, j < k
               PROVE  Before(c.queue[j], c.queue[k])
    BY DEF Ordered
  <2>1. j \in DOMAIN b.queue /\ (k \in DOMAIN b.queue \/ k = Len(b.queue) + 1)
    BY <1>1, <1>3
  <2> QED
    BY <1>3, <1>5, <2>1 DEF BufInv, Ordered
<1>7. \A k \in DOMAIN c.queue : k \in DOMAIN b.queue \/ c.queue[k] = i
  BY <1>1, <1>3
<1>8. \A j \in Items(c) : Sound(j)
  BY <1>4 DEF BufInv
<1>9. Len(c.queue) <= QueueCapacity
  BY <1>1, <1>3
<1>10. \A k \in DOMAIN c.queue, l \in DOMAIN c.overflow : Apart(c.queue[k], c.overflow[l])
  BY <1>2, <1>3, <1>5, <1>7 DEF BufInv, Apart
<1>11. c.head # None => \A k \in DOMAIN c.queue : Before(c.head, c.queue[k])
  BY <1>2, <1>3, <1>5, <1>7 DEF BufInv
<1>12. c.retained # None => \A k \in DOMAIN c.queue : Before(c.retained, c.queue[k])
  BY <1>2, <1>3, <1>5, <1>7 DEF BufInv
<1>13. BufInv(c)
  BY <1>2, <1>6, <1>8, <1>9, <1>10, <1>11, <1>12 DEF BufInv
<1> QED
  BY <1>2, <1>4, <1>13

\* So does a new gap at the end of the overflow.
LEMMA OverflowGrows ==
  ASSUME NEW b, BufInv(b),
         NEW i \in Item, Sound(i), i.gap, \A j \in Items(b) : Before(j, i),
         NEW c, c = [b EXCEPT !.overflow = Append(@, i)]
  PROVE  BufInv(c) /\ Items(c) = Items(b) \cup {i} /\ c.retained = b.retained
<1>1. b \in BufType /\ Len(b.overflow) \in Nat
  BY DEF BufInv, BufType
<1>2. /\ c \in BufType /\ c.retained = b.retained /\ c.head = b.head
      /\ c.queue = b.queue /\ c.overflow = Append(b.overflow, i)
  <2>1. Append(b.overflow, i) \in Seq(Item)
    BY <1>1, AppendProperties DEF BufType
  <2> QED
    BY <1>1, <2>1 DEF BufType
<1>3. /\ DOMAIN c.overflow = 1 .. Len(b.overflow) + 1
      /\ DOMAIN b.overflow = 1 .. Len(b.overflow)
      /\ \A k \in DOMAIN b.overflow : k \in DOMAIN c.overflow /\ c.overflow[k] = b.overflow[k]
      /\ c.overflow[Len(b.overflow) + 1] = i
  BY <1>1, <1>2 DEF BufType
<1>4. Items(c) = Items(b) \cup {i}
  <2>1. \A j : (\E k \in DOMAIN c.overflow : j = c.overflow[k]) <=>
                  (\E k \in DOMAIN b.overflow : j = b.overflow[k]) \/ j = i
    BY <1>1, <1>3
  <2>2. i # None
    BY ItemFields
  <2>3. ASSUME NEW j PROVE j \in Items(c) <=> j \in Items(b) \/ j = i
    <3>1. j \in Items(b) <=>
            /\ j # None
            /\ \/ j = b.retained
               \/ j = b.head
               \/ \E k \in DOMAIN b.queue : j = b.queue[k]
               \/ \E l \in DOMAIN b.overflow : j = b.overflow[l]
      BY ONLY ItemsAre
    <3>2. j \in Items(c) <=>
            /\ j # None
            /\ \/ j = c.retained
               \/ j = c.head
               \/ \E k \in DOMAIN c.queue : j = c.queue[k]
               \/ \E l \in DOMAIN c.overflow : j = c.overflow[l]
      BY ONLY ItemsAre
    <3> QED
      BY <1>2, <2>1, <2>2, <3>1, <3>2
  <2> QED
    BY <2>3
<1>5. /\ \A k \in DOMAIN b.queue : Before(b.queue[k], i)
      /\ \A l \in DOMAIN b.overflow : Before(b.overflow[l], i)
      /\ b.head # None => Before(b.head, i)
      /\ b.retained # None => Before(b.retained, i)
  BY <1>1, ItemsTyped
<1>6. Ordered(c.overflow)
  <2> SUFFICES ASSUME NEW j \in DOMAIN c.overflow, NEW k \in DOMAIN c.overflow, j < k
               PROVE  Before(c.overflow[j], c.overflow[k])
    BY DEF Ordered
  <2>1. j \in DOMAIN b.overflow /\ (k \in DOMAIN b.overflow \/ k = Len(b.overflow) + 1)
    BY <1>1, <1>3
  <2> QED
    BY <1>3, <1>5, <2>1 DEF BufInv, Ordered
<1>7. \A k \in DOMAIN c.overflow : k \in DOMAIN b.overflow \/ c.overflow[k] = i
  BY <1>1, <1>3
<1>8. \A j \in Items(c) : Sound(j)
  BY <1>4 DEF BufInv
<1>9. \A l \in DOMAIN c.overflow : c.overflow[l].gap
  BY <1>3, <1>7 DEF BufInv
<1>10. \A k \in DOMAIN c.queue, l \in DOMAIN c.overflow : Apart(c.queue[k], c.overflow[l])
  BY <1>2, <1>3, <1>5, <1>7 DEF BufInv, Apart
<1>11. c.head # None => \A l \in DOMAIN c.overflow : Apart(c.head, c.overflow[l])
  BY <1>2, <1>3, <1>5, <1>7 DEF BufInv, Apart
<1>12. c.retained # None => \A l \in DOMAIN c.overflow : Before(c.retained, c.overflow[l])
  BY <1>2, <1>3, <1>5, <1>7 DEF BufInv
<1>13. BufInv(c)
  BY <1>2, <1>6, <1>8, <1>9, <1>10, <1>11, <1>12 DEF BufInv
<1> QED
  BY <1>2, <1>4, <1>13

\* A new item concerns no other capture.
LEMMA SameBesides ==
  ASSUME NEW b, NEW c, NEW i, Items(c) = Items(b) \cup {i}, NEW m, ~Inside(m, i)
  PROVE  SameFor(m, b, c)
BY DEF SameFor

\* The last gap of the overflow grows by the next capture.
LEMMA OverflowJoins ==
  ASSUME NEW b, BufInv(b), b.overflow # <<>>, NEW n \in Seqs,
         Last(b.overflow).last + 1 = n, \A j \in Items(b) : j.last < n,
         NEW c, c = [b EXCEPT !.overflow = [b.overflow EXCEPT ![Len(b.overflow)].last = n]]
  PROVE  /\ BufInv(c) /\ c.retained = b.retained
         /\ \A m \in Seqs : m # n => SameFor(m, b, c)
         /\ Held(n, c) /\ \A i \in Items(c) : i.last <= n /\ (Inside(n, i) => i.gap)
<1> DEFINE z == Len(b.overflow)
           g == b.overflow[z]
           e == [g EXCEPT !.last = n]
<1>1. b \in BufType /\ z \in Nat \ {0} /\ DOMAIN b.overflow = 1 .. z /\ n \in Nat
  BY BootstrapAssumption DEF BufInv, BufType, Seqs
<1>2. g \in Item /\ g \in Items(b) /\ g.gap /\ g.last + 1 = n /\ g.first <= g.last
  BY <1>1, ItemsTyped DEF BufInv, Sound, Last
<1>3. e \in Item /\ e.first = g.first /\ e.last = n /\ e.gap /\ e.gap = g.gap
  BY <1>2 DEF Item
<1>4. /\ c.retained = b.retained /\ c.head = b.head /\ c.queue = b.queue
      /\ DOMAIN c.overflow = DOMAIN b.overflow /\ c.overflow[z] = e
      /\ \A l \in DOMAIN b.overflow : l # z => c.overflow[l] = b.overflow[l]
      /\ c.overflow = [b.overflow EXCEPT ![z] = e]
  BY <1>1 DEF BufType
<1> HIDE DEF z, g, e
<1>5. c \in BufType
  <2>1. b.overflow \in Seq(Item)
    BY <1>1 DEF BufType
  <2>2. [b.overflow EXCEPT ![z] = e] \in Seq(Item)
    BY <1>1, <1>3, <2>1, ExceptSeq
  <2> QED
    BY <1>1, <1>4, <2>2 DEF BufType
<1>6. ASSUME NEW i
      PROVE  /\ i \in Items(c) => i = e \/ i \in Items(b)
             /\ i \in Items(b) => i = g \/ i \in Items(c)
  <2>1. i \in Items(b) <=>
          /\ i # None
          /\ \/ i = b.retained
             \/ i = b.head
             \/ \E k \in DOMAIN b.queue : i = b.queue[k]
             \/ \E l \in DOMAIN b.overflow : i = b.overflow[l]
    BY ONLY ItemsAre
  <2>2. i \in Items(c) <=>
          /\ i # None
          /\ \/ i = c.retained
             \/ i = c.head
             \/ \E k \in DOMAIN c.queue : i = c.queue[k]
             \/ \E l \in DOMAIN c.overflow : i = c.overflow[l]
    BY ONLY ItemsAre
  <2>3. /\ \A l \in DOMAIN c.overflow : c.overflow[l] = e \/ c.overflow[l] = b.overflow[l]
        /\ \A l \in DOMAIN b.overflow : b.overflow[l] = g \/ b.overflow[l] = c.overflow[l]
    BY <1>4 DEF g
  <2> QED
    BY <1>4, <2>1, <2>2, <2>3
<1>7. e \in Items(c)
  <2>1. z \in DOMAIN c.overflow /\ c.overflow[z] = e
    BY <1>1, <1>4
  <2> QED
    BY <1>5, <2>1, ItemsTyped
<1>8. /\ \A i \in Items(c) : i = e \/ i \in Items(b)
      /\ \A i \in Items(b) : i = g \/ i \in Items(c)
  BY <1>6
<1>9. ASSUME NEW m \in Seqs, m # n PROVE SameFor(m, b, c)
  <2>1. Inside(m, e) <=> Inside(m, g)
    BY <1>1, <1>2, <1>3, <1>9, ItemFields DEF Inside, Seqs
  <2> QED
    BY <1>2, <1>3, <1>7, <1>8, <2>1 DEF SameFor
<1>10. Inside(n, e)
  BY <1>1, <1>2, <1>3, ItemFields DEF Inside
<1>11. \A i \in Items(c) : i.last <= n /\ (Inside(n, i) => i.gap)
  <2> SUFFICES ASSUME NEW i \in Items(c) PROVE i.last <= n /\ (Inside(n, i) => i.gap)
    OBVIOUS
  <2>1. CASE i = e
    BY <1>1, <1>3, <2>1
  <2>2. CASE i \in Items(b)
    BY <1>1, <2>2, ItemsTyped, ItemFields DEF Inside
  <2> QED
    BY <1>8, <2>1, <2>2
<1>12. \A j \in Items(b) : j \in Item /\ j.last < n
  BY <1>1, ItemsTyped
<1>13. ASSUME NEW j \in Items(b), Apart(j, g) PROVE Before(j, e)
  <2>1. j \in Item /\ j.last < n /\ j.first \in Nat /\ j.last \in Nat /\ j.first <= j.last
    BY <1>12, ItemFields DEF BufInv, Sound
  <2>2. g.last \in Nat /\ g.first \in Nat
    BY <1>2, ItemFields
  <2> QED
    BY <1>1, <1>2, <1>3, <1>13, <2>1, <2>2 DEF Apart, Before
<1>14. \A i \in Items(c) : Sound(i)
  BY <1>1, <1>2, <1>3, <1>8, ItemFields DEF BufInv, Sound
<1>15. \A l \in DOMAIN b.overflow : l # z => Before(b.overflow[l], e)
  <2> SUFFICES ASSUME NEW l \in DOMAIN b.overflow, l # z PROVE Before(b.overflow[l], e)
    OBVIOUS
  <2>1. l < z /\ Before(b.overflow[l], b.overflow[z])
    BY <1>1 DEF BufInv, Ordered
  <2> QED
    BY <1>1, <1>3, <2>1 DEF g, Before
<1>16. Ordered(c.overflow)
  <2> SUFFICES ASSUME NEW j \in DOMAIN b.overflow, NEW k \in DOMAIN b.overflow, j < k
               PROVE  Before(c.overflow[j], c.overflow[k])
    BY <1>4 DEF Ordered
  <2>1. j # z
    BY <1>1
  <2> QED
    BY <1>4, <1>15, <2>1 DEF BufInv, Ordered
<1>17. \A k \in DOMAIN b.queue : Before(b.queue[k], e)
  BY <1>1, <1>13, ItemsTyped DEF BufInv, g
<1>18. b.head # None => Before(b.head, e)
  BY <1>1, <1>13, ItemsTyped DEF BufInv, g
<1>19. b.retained # None => Before(b.retained, e)
  BY <1>1, <1>3 DEF BufInv, g, Before
<1>20. \A l \in DOMAIN c.overflow : c.overflow[l] = e \/ (l # z /\ c.overflow[l] = b.overflow[l])
  BY <1>4
<1>21. BufInv(c)
  BY <1>1, <1>3, <1>4, <1>5, <1>14, <1>16, <1>17, <1>18, <1>19, <1>20 DEF BufInv, Apart
<1> QED
  BY <1>4, <1>7, <1>9, <1>10, <1>11, <1>21 DEF Held

\* The observation of a dispatch becomes a gap in its place.
LEMMA ItemReplaced ==
  ASSUME NEW b, BufInv(b), NEW n \in Seqs, \A j \in Items(b) : j.last <= n,
         \A j \in Items(b) : Inside(n, j) => ~j.gap, Held(n, b),
         b.retained # None => b.retained.last < n,
         NEW c, c = Replaced(b, n)
  PROVE  /\ BufInv(c) /\ c.retained = b.retained
         /\ \A m \in Seqs : m # n => SameFor(m, b, c)
         /\ Held(n, c) /\ \A i \in Items(c) : i.last <= n /\ (Inside(n, i) => i.gap)
<1> DEFINE Of(i) == IF Inside(n, i) THEN Gap(n) ELSE i
<1>1. b \in BufType /\ n \in Nat
  BY BootstrapAssumption DEF BufInv, Seqs
<1>2. /\ c.head = Of(b.head) /\ c.overflow = b.overflow /\ c.retained = Of(b.retained)
      /\ c.queue = [k \in DOMAIN b.queue |-> Of(b.queue[k])]
  BY <1>1 DEF Replaced, BufType
<1>3. c.retained = b.retained
  <2>1. ~Inside(n, b.retained)
    BY <1>1, ItemsTyped, ItemFields DEF Inside
  <2> QED
    BY <1>2, <2>1
<1>4. \A l \in DOMAIN b.overflow : ~Inside(n, b.overflow[l]) /\ Of(b.overflow[l]) = b.overflow[l]
  BY <1>1, ItemsTyped DEF BufInv
\* Each item keeps its range; one that held n is its gap now.
<1>5. ASSUME NEW i \in Items(b)
      PROVE  /\ Of(i) \in Item /\ Of(i).first = i.first /\ Of(i).last = i.last /\ Sound(Of(i))
             /\ Inside(n, i) => Of(i).gap
             /\ ~Inside(n, i) => Of(i) = i
  <2>1. i \in Item /\ Sound(i)
    BY <1>1, ItemsTyped DEF BufInv
  <2>2. CASE Inside(n, i)
    <3>1. i.first = n /\ i.last = n
      BY <1>1, <2>1, <2>2, ItemFields DEF Sound, Inside
    <3> QED
      BY <2>2, <3>1, ItemFields
  <2> QED
    BY <2>1, <2>2
<1>6. /\ c.head # None => b.head # None
      /\ b.head # None => c.head # None
  BY <1>1, <1>2, <1>5, ItemsTyped, ItemFields DEF Inside
<1>7. DOMAIN c.queue = DOMAIN b.queue /\ \A k \in DOMAIN b.queue : c.queue[k] = Of(b.queue[k])
  BY <1>2
<1>8. c \in BufType /\ Len(c.queue) = Len(b.queue)
  <2>1. /\ b.queue \in Seq(Item) /\ DOMAIN b.queue = 1 .. Len(b.queue) /\ Len(b.queue) \in Nat
        /\ b.overflow \in Seq(Item) /\ b.retained \in Item \cup {None}
    BY <1>1 DEF BufType
  <2>2. \A k \in 1 .. Len(b.queue) : Of(b.queue[k]) \in Item
    BY <1>1, <1>5, <2>1, ItemsTyped
  <2>3. c.queue = [k \in 1 .. Len(b.queue) |-> Of(b.queue[k])]
    BY <1>2, <2>1
  <2> HIDE DEF Of
  <2>4. c.queue \in Seq(Item) /\ Len(c.queue) = Len(b.queue)
    BY <2>1, <2>2, <2>3, SeqDef
  <2>5. c.head \in Item \cup {None}
    BY <1>1, <1>2, <1>5, <1>6, ItemsTyped
  <2>6. c = [retained |-> c.retained, head |-> c.head, queue |-> c.queue, overflow |-> c.overflow]
    BY <1>1 DEF Replaced, BufType
  <2> QED
    BY <1>2, <1>3, <2>1, <2>4, <2>5, <2>6 DEF BufType
<1>9. \A j : j \in Items(c) <=> \E i \in Items(b) : j = Of(i)
  <2> SUFFICES ASSUME NEW j PROVE j \in Items(c) <=> \E i \in Items(b) : j = Of(i)
    OBVIOUS
  <2>1. ASSUME j \in Items(c) PROVE \E i \in Items(b) : j = Of(i)
    <3>1. /\ j # None
          /\ \/ j = c.retained
             \/ j = c.head
             \/ \E k \in DOMAIN c.queue : j = c.queue[k]
             \/ \E l \in DOMAIN c.overflow : j = c.overflow[l]
      BY <2>1, ItemsAre
    <3>2. CASE j = c.retained
      BY <1>1, <1>2, <1>3, <3>1, <3>2, ItemsTyped
    <3>3. CASE j = c.head
      BY <1>1, <1>2, <1>6, <3>1, <3>3, ItemsTyped
    <3>4. ASSUME NEW k \in DOMAIN c.queue, j = c.queue[k] PROVE \E i \in Items(b) : j = Of(i)
      BY <1>1, <1>7, <3>4, ItemsTyped
    <3>5. ASSUME NEW l \in DOMAIN c.overflow, j = c.overflow[l] PROVE \E i \in Items(b) : j = Of(i)
      BY <1>1, <1>2, <1>4, <3>5, ItemsTyped
    <3> QED
      BY <3>1, <3>2, <3>3, <3>4, <3>5
  <2>2. ASSUME NEW i \in Items(b), j = Of(i) PROVE j \in Items(c)
    <3>1. /\ i # None
          /\ \/ i = b.retained
             \/ i = b.head
             \/ \E k \in DOMAIN b.queue : i = b.queue[k]
             \/ \E l \in DOMAIN b.overflow : i = b.overflow[l]
      BY <2>2, ItemsAre
    <3>2. CASE i = b.retained
      BY <1>2, <1>3, <1>8, <2>2, <3>1, <3>2, ItemsTyped
    <3>3. CASE i = b.head
      BY <1>2, <1>6, <1>8, <2>2, <3>1, <3>3, ItemsTyped
    <3>4. ASSUME NEW k \in DOMAIN b.queue, i = b.queue[k] PROVE j \in Items(c)
      BY <1>7, <1>8, <2>2, <3>4, ItemsTyped
    <3>5. ASSUME NEW l \in DOMAIN b.overflow, i = b.overflow[l] PROVE j \in Items(c)
      BY <1>2, <1>4, <1>8, <2>2, <3>5, ItemsTyped
    <3> QED
      BY <3>1, <3>2, <3>3, <3>4, <3>5
  <2> QED
    BY <2>1, <2>2
<1> HIDE DEF Of
<1>10. ASSUME NEW m \in Seqs, m # n PROVE SameFor(m, b, c)
  <2>1. ASSUME NEW i \in Items(b), Inside(m, i)
        PROVE  Of(i) = i
    <3>1. i \in Item /\ Sound(i)
      BY <1>1, ItemsTyped DEF BufInv
    <3>2. ~Inside(n, i)
      <4> SUFFICES ASSUME Inside(n, i) PROVE FALSE
        OBVIOUS
      <4>1. i.first = i.last /\ i.first \in Nat
        BY <3>1, ItemFields DEF Sound
      <4> QED
        BY <1>1, <1>10, <2>1, <4>1 DEF Inside, Seqs
    <3> QED
      BY <1>5, <3>2
  <2>2. ASSUME NEW i \in Items(b), Inside(m, Of(i)) PROVE Inside(m, i)
    BY <1>1, <1>5, <2>2, ItemsTyped, ItemFields DEF Inside
  <2> QED
    BY <1>9, <2>1, <2>2 DEF SameFor
<1>11. Held(n, c)
  <2>1. PICK i \in Items(b) : Inside(n, i)
    BY DEF Held
  <2>2. Inside(n, Of(i))
    BY <1>5, <2>1, ItemFields DEF Inside
  <2> QED
    BY <1>9, <2>2 DEF Held
<1>12. \A i \in Items(c) : i.last <= n /\ (Inside(n, i) => i.gap)
  <2> SUFFICES ASSUME NEW i \in Items(b) PROVE Of(i).last <= n /\ (Inside(n, Of(i)) => Of(i).gap)
    BY <1>9
  <2>1. Inside(n, Of(i)) => Inside(n, i)
    BY <1>1, <1>5, ItemsTyped, ItemFields DEF Inside
  <2> QED
    BY <1>5, <2>1
<1>13. BufInv(c)
  <2>1. \A i \in Items(c) : Sound(i)
    BY <1>5, <1>9
  <2>2. /\ \A k \in DOMAIN b.queue : /\ b.queue[k] \in Items(b)
                                     /\ c.queue[k].first = b.queue[k].first
                                     /\ c.queue[k].last = b.queue[k].last
        /\ b.head # None => c.head.first = b.head.first /\ c.head.last = b.head.last
    BY <1>1, <1>2, <1>5, <1>7, ItemsTyped
  <2>3. Ordered(c.queue)
    BY <1>7, <2>2 DEF BufInv, Ordered, Before
  <2>4. \A k \in DOMAIN c.queue, l \in DOMAIN c.overflow : Apart(c.queue[k], c.overflow[l])
    BY <1>2, <1>7, <2>2 DEF BufInv, Apart, Before
  <2>5. c.head # None =>
          /\ \A k \in DOMAIN c.queue : Before(c.head, c.queue[k])
          /\ \A l \in DOMAIN c.overflow : Apart(c.head, c.overflow[l])
    BY <1>2, <1>6, <1>7, <2>2 DEF BufInv, Apart, Before
  <2>6. c.retained # None =>
          /\ c.head # None => Before(c.retained, c.head)
          /\ \A k \in DOMAIN c.queue : Before(c.retained, c.queue[k])
          /\ \A l \in DOMAIN c.overflow : Before(c.retained, c.overflow[l])
    BY <1>2, <1>3, <1>6, <1>7, <2>2 DEF BufInv, Before
  <2> QED
    BY <1>2, <1>8, <2>1, <2>3, <2>4, <2>5, <2>6 DEF BufInv
<1> QED
  BY <1>3, <1>10, <1>11, <1>12, <1>13

\* A capture that is recorded as a gap is held as one, and nothing else changes.
LEMMA GapsRecorded ==
  ASSUME NEW b, BufInv(b), NEW n \in Seqs, \A j \in Items(b) : j.last <= n,
         b.retained # None => b.retained.last < n,
         NEW c \in GapRecorded(b, n)
  PROVE  /\ BufInv(c) /\ c.retained = b.retained
         /\ \A m \in Seqs : m # n => SameFor(m, b, c)
         /\ Held(n, c) /\ \A i \in Items(c) : i.last <= n /\ (Inside(n, i) => i.gap)
<1>1. b \in BufType /\ n \in Nat
  BY BootstrapAssumption DEF BufInv, Seqs
<1>2. \A i, j \in Items(b) : Inside(n, i) /\ Inside(n, j) => i = j
  <2> SUFFICES ASSUME NEW i \in Items(b), NEW j \in Items(b), Inside(n, i), Inside(n, j)
               PROVE  i = j
    OBVIOUS
  <2>1. ~Apart(i, j)
    BY <1>1, ItemsTyped, ItemFields DEF Apart, Before, Inside
  <2> QED
    BY <2>1, ItemsApart
<1>3. CASE \E i \in Items(b) : Inside(n, i) /\ i.gap
  <2>1. c = b
    BY <1>3 DEF GapRecorded
  <2>2. \A m \in Seqs : SameFor(m, b, b)
    BY DEF SameFor
  <2> QED
    BY <1>2, <1>3, <2>1, <2>2 DEF Held
<1>4. CASE Held(n, b) /\ ~\E i \in Items(b) : Inside(n, i) /\ i.gap
  <2>1. c = Replaced(b, n)
    BY <1>4 DEF GapRecorded, Held
  <2> QED
    BY <1>4, <2>1, ItemReplaced
<1>5. CASE ~Held(n, b)
  <2>1. c \in Retained(b, Gap(n))
    BY <1>5 DEF GapRecorded, Held
  <2>2. /\ Gap(n) \in Item /\ Sound(Gap(n)) /\ Gap(n).gap /\ Gap(n).first = n /\ Gap(n).last = n
    BY ItemFields
  <2>3. \A j \in Items(b) : j.last < n /\ Before(j, Gap(n))
    <3> SUFFICES ASSUME NEW j \in Items(b) PROVE j.last < n
      BY <2>2 DEF Before
    <3>1. j \in Item /\ j.first <= j.last /\ j.last <= n /\ ~Inside(n, j)
      BY <1>1, <1>5, ItemsTyped DEF BufInv, Sound, Held
    <3> QED
      BY <1>1, <3>1, ItemFields DEF Inside
  <2>4. \A m \in Seqs : m # n => ~Inside(m, Gap(n))
    BY <1>1, <2>2 DEF Inside, Seqs
  <2>5. Inside(n, Gap(n))
    BY <1>1, <2>2, ItemFields DEF Inside
  <2>6. ASSUME BufInv(c), Items(c) = Items(b) \cup {Gap(n)}, c.retained = b.retained
        PROVE  /\ BufInv(c) /\ c.retained = b.retained
               /\ \A m \in Seqs : m # n => SameFor(m, b, c)
               /\ Held(n, c) /\ \A i \in Items(c) : i.last <= n /\ (Inside(n, i) => i.gap)
    <3>1. \A m \in Seqs : m # n => SameFor(m, b, c)
      BY <2>4, <2>6, SameBesides
    <3>2. \A i \in Items(c) : i.last <= n /\ (Inside(n, i) => i.gap)
      BY <1>1, <1>5, <2>2, <2>6 DEF Held
    <3> QED
      BY <2>5, <2>6, <3>1, <3>2 DEF Held
  <2>7. CASE Len(b.queue) < QueueCapacity
    <3>1. c = [b EXCEPT !.queue = Append(@, Gap(n))]
      BY <2>1, <2>7 DEF Retained
    <3>2. BufInv(c) /\ Items(c) = Items(b) \cup {Gap(n)} /\ c.retained = b.retained
      BY <2>2, <2>3, <2>7, <3>1, QueueGrows
    <3> QED
      BY <2>6, <3>2
  <2>8. CASE c = [b EXCEPT !.overflow = Append(@, Gap(n))]
    <3>1. BufInv(c) /\ Items(c) = Items(b) \cup {Gap(n)} /\ c.retained = b.retained
      BY <2>2, <2>3, <2>8, OverflowGrows
    <3> QED
      BY <2>6, <3>1
  <2>9. CASE /\ b.overflow # <<>> /\ Last(b.overflow).last + 1 = n
             /\ c = [b EXCEPT !.overflow = [b.overflow EXCEPT ![Len(b.overflow)].last = n]]
    BY <2>3, <2>9, OverflowJoins
  <2> QED
    BY <2>1, <2>2, <2>7, <2>8, <2>9 DEF Retained
<1> QED
  BY <1>3, <1>4, <1>5 DEF Held

\* What is left of a sequence without its head.
LEMMA TailFacts ==
  ASSUME NEW s \in Seq(Item), s # <<>>
  PROVE  /\ Tail(s) \in Seq(Item) /\ Head(s) = s[1] /\ 1 \in DOMAIN s
         /\ Len(Tail(s)) <= Len(s)
         /\ \A k \in DOMAIN Tail(s) : k + 1 \in DOMAIN s /\ Tail(s)[k] = s[k + 1]
         /\ \A k \in DOMAIN s : k = 1 \/ (k - 1 \in DOMAIN Tail(s) /\ s[k] = Tail(s)[k - 1])
         /\ Ordered(s) => /\ Ordered(Tail(s))
                          /\ \A k \in DOMAIN Tail(s) : Before(s[1], Tail(s)[k])
<1>1. /\ Len(s) \in Nat \ {0} /\ DOMAIN s = 1 .. Len(s)
      /\ Tail(s) \in Seq(Item) /\ Head(s) = s[1] /\ Len(Tail(s)) = Len(s) - 1
      /\ DOMAIN Tail(s) = 1 .. Len(s) - 1
      /\ \A k \in 1 .. Len(s) - 1 : Tail(s)[k] = s[k + 1]
  BY HeadTailProperties
<1>2. \A k \in DOMAIN Tail(s) : k \in Nat \ {0} /\ k + 1 \in DOMAIN s /\ Tail(s)[k] = s[k + 1]
  BY <1>1
<1>3. \A k \in DOMAIN s : k = 1 \/ (k - 1 \in DOMAIN Tail(s) /\ s[k] = Tail(s)[k - 1])
  BY <1>1
<1>4. 1 \in DOMAIN s
  BY <1>1
<1>5. ASSUME Ordered(s)
      PROVE  /\ Ordered(Tail(s))
             /\ \A k \in DOMAIN Tail(s) : Before(s[1], Tail(s)[k])
  <2>1. \A j, k \in DOMAIN Tail(s) : j < k => j + 1 < k + 1
    BY <1>2
  <2>2. \A k \in DOMAIN Tail(s) : 1 < k + 1
    BY <1>2
  <2> QED
    BY <1>2, <1>4, <1>5, <2>1, <2>2 DEF Ordered
<1>6. Len(Tail(s)) <= Len(s)
  BY <1>1
<1> QED
  BY <1>1, <1>2, <1>3, <1>4, <1>5, <1>6

\* The worker takes the head of the queue out.
LEMMA HeadPulled ==
  ASSUME NEW b, BufInv(b), b.retained = None, b.head = None, b.queue # <<>>,
         NEW c, c.retained = None, c.head = Head(b.queue), c.queue = Tail(b.queue),
         c.overflow = b.overflow, c \in BufType
  PROVE  BufInv(c) /\ Items(c) = Items(b)
<1>1. b.queue \in Seq(Item) /\ Ordered(b.queue) /\ b \in BufType
  BY DEF BufInv, BufType
<1>2. /\ c.head = b.queue[1] /\ 1 \in DOMAIN b.queue /\ Len(c.queue) <= Len(b.queue)
      /\ \A k \in DOMAIN c.queue : k + 1 \in DOMAIN b.queue /\ c.queue[k] = b.queue[k + 1]
      /\ \A k \in DOMAIN b.queue : k = 1 \/ (k - 1 \in DOMAIN c.queue /\ b.queue[k] = c.queue[k - 1])
      /\ Ordered(c.queue) /\ \A k \in DOMAIN c.queue : Before(b.queue[1], c.queue[k])
  BY <1>1, TailFacts
<1>3. b.queue[1] # None
  BY <1>1, <1>2, ItemsTyped, ItemFields
<1>4. ASSUME NEW i PROVE i \in Items(c) <=> i \in Items(b)
  <2>1. i \in Items(b) <=>
           /\ i # None
           /\ \/ i = b.retained
              \/ i = b.head
              \/ \E k \in DOMAIN b.queue : i = b.queue[k]
              \/ \E l \in DOMAIN b.overflow : i = b.overflow[l]
    BY ONLY ItemsAre
  <2>2. i \in Items(c) <=>
           /\ i # None
           /\ \/ i = c.retained
              \/ i = c.head
              \/ \E k \in DOMAIN c.queue : i = c.queue[k]
              \/ \E l \in DOMAIN c.overflow : i = c.overflow[l]
    BY ONLY ItemsAre
  <2>3. (\E k \in DOMAIN b.queue : i = b.queue[k]) <=>
           i = b.queue[1] \/ \E k \in DOMAIN c.queue : i = c.queue[k]
    BY <1>2
  <2> QED
    BY <1>2, <1>3, <2>1, <2>2, <2>3
<1>5. Items(c) = Items(b)
  BY <1>4
<1>6. Len(b.queue) \in Nat /\ Len(c.queue) \in Nat /\ QueueCapacity \in Nat
  BY <1>1, BootstrapAssumption DEF BufType
<1>7. Len(c.queue) <= QueueCapacity
  BY <1>2, <1>6 DEF BufInv
<1>8. \A k \in DOMAIN c.queue, l \in DOMAIN c.overflow : Apart(c.queue[k], c.overflow[l])
  BY <1>2 DEF BufInv
<1>9. \A l \in DOMAIN c.overflow : Apart(c.head, c.overflow[l])
  BY <1>2 DEF BufInv
<1> QED
  BY <1>2, <1>5, <1>7, <1>8, <1>9 DEF BufInv

\* The worker retains the first gap of the overflow, older than the head.
LEMMA OverflowRetained ==
  ASSUME NEW b, BufInv(b), b.retained = None, b.overflow # <<>>,
         b.head = None => b.queue = <<>>,
         b.head # None => Head(b.overflow).first < b.head.first,
         NEW c, c.retained = Head(b.overflow), c.head = b.head, c.queue = b.queue,
         c.overflow = Tail(b.overflow), c \in BufType
  PROVE  BufInv(c) /\ Items(c) = Items(b) /\ c.retained # None
<1>1. b.overflow \in Seq(Item) /\ Ordered(b.overflow) /\ b \in BufType
  BY DEF BufInv, BufType
<1> DEFINE g == b.overflow[1]
<1>2. /\ c.retained = g /\ 1 \in DOMAIN b.overflow
      /\ \A k \in DOMAIN c.overflow : k + 1 \in DOMAIN b.overflow /\ c.overflow[k] = b.overflow[k + 1]
      /\ \A k \in DOMAIN b.overflow :
            k = 1 \/ (k - 1 \in DOMAIN c.overflow /\ b.overflow[k] = c.overflow[k - 1])
      /\ Ordered(c.overflow) /\ \A k \in DOMAIN c.overflow : Before(g, c.overflow[k])
  BY <1>1, TailFacts
<1>3. g # None /\ g \in Item /\ Sound(g)
  BY <1>1, <1>2, ItemsTyped, ItemFields DEF BufInv
<1>4. ASSUME NEW i PROVE i \in Items(c) <=> i \in Items(b)
  <2>1. i \in Items(b) <=>
           /\ i # None
           /\ \/ i = b.retained
              \/ i = b.head
              \/ \E k \in DOMAIN b.queue : i = b.queue[k]
              \/ \E l \in DOMAIN b.overflow : i = b.overflow[l]
    BY ONLY ItemsAre
  <2>2. i \in Items(c) <=>
           /\ i # None
           /\ \/ i = c.retained
              \/ i = c.head
              \/ \E k \in DOMAIN c.queue : i = c.queue[k]
              \/ \E l \in DOMAIN c.overflow : i = c.overflow[l]
    BY ONLY ItemsAre
  <2>3. (\E k \in DOMAIN b.overflow : i = b.overflow[k]) <=>
           i = g \/ \E k \in DOMAIN c.overflow : i = c.overflow[k]
    BY <1>2
  <2> QED
    BY <1>2, <1>3, <2>1, <2>2, <2>3
<1>5. Items(c) = Items(b)
  BY <1>4
<1>6. b.head # None => Before(g, b.head)
  <2> SUFFICES ASSUME b.head # None PROVE Before(g, b.head)
    OBVIOUS
  <2>1. b.head \in Item /\ Sound(b.head) /\ Apart(b.head, g) /\ g.first < b.head.first
    BY <1>1, <1>2, ItemsTyped DEF BufInv
  <2> QED
    BY <1>3, <2>1, ItemFields DEF Apart, Before, Sound
<1>7. \A k \in DOMAIN b.queue : Before(g, b.queue[k])
  <2> SUFFICES ASSUME NEW k \in DOMAIN b.queue PROVE Before(g, b.queue[k])
    OBVIOUS
  <2>1. b.head # None
    OBVIOUS
  <2>2. /\ b.head \in Item /\ Sound(b.head) /\ Before(g, b.head)
        /\ Before(b.head, b.queue[k]) /\ b.queue[k] \in Item
    BY <1>1, <1>6, <2>1, ItemsTyped DEF BufInv
  <2> QED
    BY <1>3, <2>2, ItemFields DEF Before, Sound
<1> HIDE DEF g
<1>8. \A k \in DOMAIN c.overflow : c.overflow[k].gap
  BY <1>2 DEF BufInv
<1>9. \A k \in DOMAIN c.queue, l \in DOMAIN c.overflow : Apart(c.queue[k], c.overflow[l])
  BY <1>2 DEF BufInv
<1>10. c.head # None => \A l \in DOMAIN c.overflow : Apart(c.head, c.overflow[l])
  BY <1>2 DEF BufInv
<1>11. BufInv(c)
  BY <1>2, <1>5, <1>6, <1>7, <1>8, <1>9, <1>10 DEF BufInv
<1> QED
  BY <1>2, <1>3, <1>5, <1>11

\* The worker retains the head, older than all of the overflow.
LEMMA HeadRetained ==
  ASSUME NEW b, BufInv(b), b.retained = None, b.head # None,
         b.overflow # <<>> => ~(Head(b.overflow).first < b.head.first),
         NEW c, c.retained = b.head, c.head = None, c.queue = b.queue,
         c.overflow = b.overflow, c \in BufType
  PROVE  BufInv(c) /\ Items(c) = Items(b) /\ c.retained # None
<1>1. b.overflow \in Seq(Item) /\ Ordered(b.overflow) /\ b \in BufType
  BY DEF BufInv, BufType
<1>2. ASSUME NEW i PROVE i \in Items(c) <=> i \in Items(b)
  <2>1. i \in Items(b) <=>
           /\ i # None
           /\ \/ i = b.retained
              \/ i = b.head
              \/ \E k \in DOMAIN b.queue : i = b.queue[k]
              \/ \E l \in DOMAIN b.overflow : i = b.overflow[l]
    BY ONLY ItemsAre
  <2>2. i \in Items(c) <=>
           /\ i # None
           /\ \/ i = c.retained
              \/ i = c.head
              \/ \E k \in DOMAIN c.queue : i = c.queue[k]
              \/ \E l \in DOMAIN c.overflow : i = c.overflow[l]
    BY ONLY ItemsAre
  <2> QED
    BY <2>1, <2>2
<1>3. Items(c) = Items(b)
  BY <1>2
<1>4. \A l \in DOMAIN b.overflow : Before(b.head, b.overflow[l])
  <2> SUFFICES ASSUME NEW l \in DOMAIN b.overflow PROVE Before(b.head, b.overflow[l])
    OBVIOUS
  <2>1. b.overflow # <<>>
    BY <1>1
  <2>2. /\ 1 \in DOMAIN b.overflow /\ Head(b.overflow) = b.overflow[1]
        /\ l = 1 \/ Before(b.overflow[1], b.overflow[l])
    BY <1>1, <2>1, TailFacts
  <2>3. /\ b.head \in Item /\ Sound(b.head) /\ Apart(b.head, b.overflow[1])
        /\ b.overflow[1] \in Item /\ Sound(b.overflow[1]) /\ b.overflow[l] \in Item
        /\ Sound(b.overflow[l])
    BY <1>1, <2>2, ItemsTyped DEF BufInv
  <2>4. Before(b.head, b.overflow[1])
    BY <2>1, <2>2, <2>3, ItemFields DEF Apart, Before, Sound
  <2> QED
    BY <2>2, <2>3, <2>4, ItemFields DEF Before, Sound
<1> QED
  BY <1>3, <1>4 DEF BufInv

\* The worker chooses an item and changes none.
LEMMA ItemChosen ==
  ASSUME NEW b, BufInv(b), Items(b) # {}, NEW c, c = NextForWorker(b)
  PROVE  BufInv(c) /\ Items(c) = Items(b) /\ c.retained # None
<1>1. b \in BufType
  BY DEF BufInv
<1>2. CASE b.retained # None
  BY <1>2 DEF NextForWorker
<1>3. CASE b.retained = None
  <2> DEFINE h == IF b.head = None /\ b.queue # <<>> THEN Head(b.queue) ELSE b.head
             q == IF b.head = None /\ b.queue # <<>> THEN Tail(b.queue) ELSE b.queue
             p == [retained |-> None, head |-> h, queue |-> q, overflow |-> b.overflow]
  <2>1. b.queue \in Seq(Item) /\ b.overflow \in Seq(Item) /\ b.head \in Item \cup {None}
    BY <1>1 DEF BufType
  <2>2. h \in Item \cup {None} /\ q \in Seq(Item)
    BY <2>1, TailFacts
  <2>3. p \in BufType
    BY <2>1, <2>2 DEF BufType
  <2>4. BufInv(p) /\ Items(p) = Items(b)
    <3>1. CASE b.head = None /\ b.queue # <<>>
      BY <1>3, <2>3, <3>1, HeadPulled
    <3>2. CASE ~(b.head = None /\ b.queue # <<>>)
      <4>1. b = [retained |-> b.retained, head |-> b.head, queue |-> b.queue,
                 overflow |-> b.overflow]
        BY <1>1 DEF BufType
      <4>2. p = b
        BY <1>3, <3>2, <4>1
      <4> QED
        BY <4>2
    <3> QED
      BY <3>1, <3>2
  <2>5. h = None => q = <<>>
    BY <2>1, TailFacts, ItemFields
  <2>6. c = IF b.overflow # <<>> /\ (h = None \/ Head(b.overflow).first < h.first)
              THEN [b EXCEPT !.retained = Head(b.overflow), !.overflow = Tail(@),
                             !.head = h, !.queue = q]
            ELSE [b EXCEPT !.retained = h, !.head = None, !.queue = q]
    BY <1>3 DEF NextForWorker
  <2>7. p.retained = None /\ p.head = h /\ p.queue = q /\ p.overflow = b.overflow
    OBVIOUS
  <2> HIDE DEF p, h, q
  <2>8. CASE b.overflow # <<>> /\ (h = None \/ Head(b.overflow).first < h.first)
    <3>1. /\ c.retained = Head(b.overflow) /\ c.overflow = Tail(b.overflow)
          /\ c.head = h /\ c.queue = q
      BY <1>1, <2>6, <2>8 DEF BufType
    <3>2. Head(b.overflow) \in Item /\ Tail(b.overflow) \in Seq(Item)
      BY <2>1, <2>8, TailFacts
    <3>3. c \in BufType
      BY <1>1, <2>2, <2>6, <2>8, <3>2 DEF BufType
    <3> QED
      BY <2>4, <2>5, <2>7, <2>8, <3>1, <3>3, OverflowRetained
  <2>9. CASE ~(b.overflow # <<>> /\ (h = None \/ Head(b.overflow).first < h.first))
    <3>1. /\ c.retained = h /\ c.overflow = b.overflow /\ c.head = None /\ c.queue = q
      BY <1>1, <2>6, <2>9 DEF BufType
    <3>2. c \in BufType
      BY <1>1, <2>2, <2>6, <2>9 DEF BufType
    <3>3. h # None
      <4> SUFFICES ASSUME h = None PROVE FALSE
        OBVIOUS
      <4>1. q = <<>> /\ b.overflow = <<>>
        BY <2>5, <2>9
      <4>2. PICK i : i \in Items(p)
        BY <2>4
      <4> QED
        BY <2>7, <4>1, <4>2, ItemsAre
    <3> QED
      BY <2>4, <2>7, <2>9, <3>1, <3>2, <3>3, HeadRetained
  <2> QED
    BY <2>8, <2>9
<1> QED
  BY <1>2, <1>3

\* What is retained comes first, and is there no more once it is released.
LEMMA ItemReleased ==
  ASSUME NEW b, BufInv(b), b.retained # None, NEW c, c = [b EXCEPT !.retained = None]
  PROVE  /\ b.retained \in Items(b)
         /\ \A j \in Items(b) : j = b.retained \/ Before(b.retained, j)
         /\ BufInv(c) /\ Items(c) = Items(b) \ {b.retained}
<1>1. b \in BufType
  BY DEF BufInv
<1>2. /\ c \in BufType /\ c.retained = None /\ c.head = b.head /\ c.queue = b.queue
      /\ c.overflow = b.overflow
  BY <1>1 DEF BufType
<1>3. b.retained \in Items(b) /\ ~Before(b.retained, b.retained)
  BY <1>1, ItemsTyped, ItemFields DEF BufInv, Sound, Before
<1>4. ASSUME NEW j
      PROVE  /\ j \in Items(b) => j = b.retained \/ (Before(b.retained, j) /\ j \in Items(c))
             /\ j \in Items(c) => Before(b.retained, j) /\ j \in Items(b)
  <2>1. j \in Items(b) <=>
           /\ j # None
           /\ \/ j = b.retained
              \/ j = b.head
              \/ \E k \in DOMAIN b.queue : j = b.queue[k]
              \/ \E l \in DOMAIN b.overflow : j = b.overflow[l]
    BY ONLY ItemsAre
  <2>2. j \in Items(c) <=>
           /\ j # None
           /\ \/ j = c.retained
              \/ j = c.head
              \/ \E k \in DOMAIN c.queue : j = c.queue[k]
              \/ \E l \in DOMAIN c.overflow : j = c.overflow[l]
    BY ONLY ItemsAre
  <2> QED
    BY <1>2, <2>1, <2>2 DEF BufInv
<1>5. Items(c) = Items(b) \ {b.retained}
  BY <1>3, <1>4
<1>6. BufInv(c)
  BY <1>2, <1>5 DEF BufInv
<1> QED
  BY <1>3, <1>4, <1>5, <1>6

-----------------------------------------------------------------------------
(* Counting *)

\* The captures of the gaps a buffer holds.
GapSet(b) == {n \in Seqs : \E i \in Items(b) : i.gap /\ Inside(n, i)}

HealthType == [complete : BOOLEAN, dropped : Nat, pending : Nat, late : Nat]

LEMMA SeqsFinite == \A S : S \subseteq Seqs => IsFiniteSet(S) /\ Cardinality(S) \in Nat
<1>1. IsFiniteSet(Seqs)
  BY BootstrapAssumption, FS_Interval DEF Seqs
<1> QED
  BY <1>1, FS_Subset, FS_CardinalityType

\* One capture waits in one item only.
LEMMA HeldOnce ==
  ASSUME NEW b, BufInv(b), NEW n \in Seqs, NEW i \in Items(b), NEW j \in Items(b),
         Inside(n, i), Inside(n, j)
  PROVE  i = j
<1>1. b \in BufType /\ n \in Nat
  BY BootstrapAssumption DEF BufInv, Seqs
<1>2. ~Apart(i, j)
  BY <1>1, ItemsTyped, ItemFields DEF Apart, Before, Inside
<1> QED
  BY <1>2, ItemsApart

\* So the gaps a buffer holds are counted right.
LEMMA HeldGapsCounted ==
  ASSUME NEW b, BufInv(b)
  PROVE  GapCaptures(b) = Cardinality(GapSet(b)) /\ GapCaptures(b) \in Nat
<1> DEFINE T == {p \in Items(b) \X Seqs : p[1].gap /\ Inside(p[2], p[1])}
           holder(n) == CHOOSE i \in Items(b) : i.gap /\ Inside(n, i)
           f == [n \in GapSet(b) |-> <<holder(n), n>>]
<1>1. ASSUME NEW n \in GapSet(b)
      PROVE  n \in Seqs /\ holder(n) \in Items(b) /\ holder(n).gap /\ Inside(n, holder(n))
  BY DEF GapSet
<1> HIDE DEF holder
<1>2. f \in [GapSet(b) -> T]
  BY <1>1
<1>3. \A m, n \in GapSet(b) : f[m] = f[n] => m = n
  OBVIOUS
<1>4. \A p \in T : \E n \in GapSet(b) : f[n] = p
  <2> SUFFICES ASSUME NEW p \in T PROVE \E n \in GapSet(b) : f[n] = p
    OBVIOUS
  <2>1. /\ p = <<p[1], p[2]>> /\ p[1] \in Items(b) /\ p[2] \in Seqs
        /\ p[1].gap /\ Inside(p[2], p[1])
    OBVIOUS
  <2>2. p[2] \in GapSet(b)
    BY <2>1 DEF GapSet
  <2>3. holder(p[2]) = p[1]
    BY <1>1, <2>1, <2>2, HeldOnce
  <2> QED
    BY <2>1, <2>2, <2>3
<1> HIDE DEF T, f
<1>5. f \in Bijection(GapSet(b), T)
  BY <1>2, <1>3, <1>4 DEF Bijection, Injection, Surjection, IsInjective
<1>6. IsFiniteSet(GapSet(b)) /\ Cardinality(GapSet(b)) \in Nat
  BY SeqsFinite DEF GapSet
<1>7. Cardinality(T) = Cardinality(GapSet(b))
  BY <1>5, <1>6, FS_Bijection DEF ExistsBijection
<1> QED
  BY <1>6, <1>7 DEF GapCaptures, T

\* What is lost is lost for good, or a gap still held.
LEMMA LossSum ==
  ASSUME NEW b, BufInv(b), NEW f, NEW g \in SUBSET Seqs, NEW x, NEW d,
         \A n \in Seqs : Row(n, b, f, g, x, d)
  PROVE  /\ Cardinality(Lost(f, g)) = Cardinality(Gone(f, g)) + GapCaptures(b)
         /\ Cardinality(Gone(f, g)) \in Nat /\ GapCaptures(b) \in Nat
         /\ Lost(f, g) = {} <=> Cardinality(Lost(f, g)) = 0
<1>1. Lost(f, g) = Gone(f, g) \cup GapSet(b)
  <2>1. ASSUME NEW n \in Lost(f, g), n \notin Gone(f, g) PROVE n \in GapSet(b)
    BY <2>1 DEF Lost, Gone, GapSet, Row, Held
  <2>2. ASSUME NEW n \in GapSet(b) PROVE n \in Lost(f, g)
    BY <2>2 DEF Lost, GapSet, Row
  <2>3. ASSUME NEW n \in Gone(f, g) PROVE n \in Lost(f, g)
    BY <2>3 DEF Lost, Gone
  <2> QED
    BY <2>1, <2>2, <2>3
<1>2. Gone(f, g) \cap GapSet(b) = {}
  BY DEF Gone, GapSet, Row
<1>3. /\ Gone(f, g) \subseteq Seqs /\ GapSet(b) \subseteq Seqs /\ Lost(f, g) \subseteq Seqs
  BY DEF Gone, GapSet, Lost
<1>4. /\ IsFiniteSet(Gone(f, g)) /\ Cardinality(Gone(f, g)) \in Nat
      /\ IsFiniteSet(GapSet(b)) /\ Cardinality(GapSet(b)) \in Nat
      /\ IsFiniteSet(Lost(f, g))
  BY <1>3, SeqsFinite
<1>5. Cardinality(Lost(f, g)) = Cardinality(Gone(f, g)) + Cardinality(GapSet(b))
  BY <1>1, <1>2, <1>4, FS_Union, FS_EmptySet
<1> QED
  BY <1>4, <1>5, HeldGapsCounted, FS_EmptySet

\* Reconciling the health with a buffer makes its counts exact.
LEMMA Reconciling ==
  ASSUME NEW b, BufInv(b), NEW f, NEW g \in SUBSET Seqs, NEW x, NEW d,
         \A n \in Seqs : Row(n, b, f, g, x, d),
         NEW h \in HealthType, NEW done, done = Cardinality(Gone(f, g)),
         NEW r, r = Reconciled(h, b, done)
  PROVE  /\ r \in HealthType /\ r.dropped = done + GapCaptures(b)
         /\ r.complete <=> h.complete /\ Lost(f, g) = {}
         /\ r.pending = h.pending /\ r.late = h.late
<1>1. /\ done \in Nat /\ GapCaptures(b) \in Nat
      /\ done + GapCaptures(b) = 0 <=> Lost(f, g) = {}
  BY LossSum
<1>2. done + GapCaptures(b) \in Nat
  BY <1>1
<1> QED
  BY <1>1, <1>2 DEF Reconciled, HealthType

\* A capture that waits as before, with the same fate, is known of as before.
LEMMA RowCarried ==
  ASSUME NEW m, NEW b, NEW c, SameFor(m, b, c), NEW f, NEW f2, f2[m] = f[m],
         NEW g, NEW g2, m \in g2 <=> m \in g,
         NEW x, NEW x2, NEW d, NEW d2, (m >= x2 \/ m = d2) <=> (m >= x \/ m = d),
         m < x => m < x2, Row(m, b, f, g, x, d)
  PROVE  Row(m, c, f2, g2, x2, d2)
<1>1. Held(m, c) <=> Held(m, b)
  BY DEF SameFor, Held
<1>2. \A i \in Items(c) : Inside(m, i) => m < x2 /\ f2[m] = "none" /\ (m \in g2 <=> i.gap)
  BY DEF SameFor, Row
<1> QED
  BY <1>1, <1>2 DEF Row

\* No item holds a capture that was not made.
LEMMA ItemsBelow ==
  ASSUME NEW b, BufInv(b), NEW f, NEW g, NEW x, NEW d,
         \A n \in Seqs : Row(n, b, f, g, x, d)
  PROVE  \A i \in Items(b) : i.last < x
<1> SUFFICES ASSUME NEW i \in Items(b) PROVE i.last < x
  OBVIOUS
<1>1. i \in Item /\ i.first <= i.last
  BY ItemsTyped DEF BufInv, Sound
<1>2. i.last \in Seqs /\ Inside(i.last, i)
  BY <1>1, ItemFields DEF Inside
<1> QED
  BY <1>2 DEF Row

-----------------------------------------------------------------------------
(* Steps of the callbacks *)

\* What the counts are made of is finite.
LEMMA CountsTyped ==
  ASSUME TypeOK
  PROVE  /\ IsFiniteSet(Waiting) /\ Cardinality(Waiting) \in Nat /\ Waiting \subseteq Seqs
         /\ next \in Nat /\ health \in HealthType
<1>1. next \in 1 .. MaxCapture + 1 /\ MaxCapture \in Nat /\ health \in HealthType
  BY BootstrapAssumption DEF TypeOK, HealthType
<1>2. Waiting \subseteq Seqs
  BY <1>1 DEF Waiting, Seqs
<1> QED
  BY <1>1, <1>2, SeqsFinite

\* At the start everything is empty.
LEMMA BootstrapInit ==
  ASSUME Init
  PROVE  BootstrapInv
<1>1. /\ \A i : i \notin Items(buf)
      /\ buf.queue = <<>> /\ buf.overflow = <<>> /\ buf.retained = None /\ buf.head = None
  <2>1. /\ buf.queue = <<>> /\ buf.overflow = <<>> /\ buf.retained = None /\ buf.head = None
    BY DEF Init
  <2> QED
    BY <2>1, ItemsAre
<1>2. buf \in BufType
  BY DEF Init, BufType
<1>3. TypeOK
  <2>1. QueueCapacity \in Nat /\ MaxCapture \in Nat \ {0} /\ MaxRotations \in Nat /\ MaxFaults \in Nat
    BY BootstrapAssumption
  <2>2. worker \in [up : BOOLEAN, pc : {"choose", "offer", "mark"},
                    capture : Item \cup {None}, answer : {"none", "accepted", "late"}]
    BY DEF Init, Idle
  <2>3. bridge \in StreamType
    BY <2>1 DEF Init, NewStream, StreamType
  <2>4. Len(buf.queue) <= QueueCapacity
    BY <1>1, <2>1
  <2>5. latch \in BOOLEAN /\ unseen \in BOOLEAN
    BY DEF Init
  <2> QED
    BY <1>2, <2>1, <2>2, <2>3, <2>4, <2>5 DEF Init, TypeOK
<1>4. BufInv(buf)
  BY <1>1, <1>2, <1>3 DEF BufInv, Ordered, TypeOK
<1>5. \A n \in Seqs : Row(n, buf, fate, gaps, next, dispatch)
  BY <1>1, BootstrapAssumption DEF Init, Row, Seqs
<1>6. DispatchInv /\ WorkerInv /\ SidesAgree
  BY DEF Init, DispatchInv, WorkerInv, SidesAgree, Idle, NewStream
<1>7. CountInv
  <2>1. Waiting = {} /\ GapSet(buf) = {}
    BY <1>1 DEF Init, Waiting, GapSet
  <2>2. {n \in Seqs : fate[n] = "late"} = {} /\ Gone(fate, gaps) = {} /\ Lost(fate, gaps) = {}
    BY DEF Init, Gone, Lost
  <2>3. GapCaptures(buf) = 0
    BY <1>4, <2>1, HeldGapsCounted, FS_EmptySet
  <2>4. Cardinality({}) = 0
    BY FS_EmptySet
  <2>5. /\ health.pending = 0 /\ health.late = 0 /\ health.dropped = 0 /\ handed = 0
        /\ health.complete
    BY DEF Init
  <2> QED
    BY <2>1, <2>2, <2>3, <2>4, <2>5 DEF CountInv
<1> QED
  BY <1>3, <1>4, <1>5, <1>6, <1>7 DEF BootstrapInv

\* A reservation, whichever way the capture goes.
LEMMA CaptureStep ==
  ASSUME BootstrapInv, Capture
  PROVE  BootstrapInv'
<1> DEFINE n == next
           h == [health EXCEPT !.pending = @ + 1]
<1>1. /\ dispatch = 0 /\ next <= MaxCapture /\ next' = n + 1 /\ dispatch' = n
      /\ UNCHANGED <<handed, latch, unseen, fate, worker, bridge, taken, rotations, faults>>
  BY DEF Capture, Reserve
<1>2. /\ n \in Seqs /\ n \in Nat /\ n # 0 /\ next' \in 1 .. MaxCapture + 1
      /\ BufInv(buf) /\ TypeOK /\ gaps \in SUBSET Seqs
      /\ \A m \in Seqs : Row(m, buf, fate, gaps, next, dispatch)
  BY <1>1, BootstrapAssumption DEF BootstrapInv, TypeOK, Seqs
<1>3. \A i \in Items(buf) : i.last < n
  BY <1>2, ItemsBelow
<1>4. ~Held(n, buf) /\ fate[n] = "none" /\ n \notin gaps
  BY <1>2 DEF Row, Held
<1>5. h \in HealthType /\ h.pending = health.pending + 1
      /\ h.late = health.late /\ h.complete = health.complete /\ h.dropped = health.dropped
  BY <1>2, CountsTyped DEF HealthType
\* What the step has to establish of the buffer.
<1> DEFINE After ==
      /\ BufInv(buf') /\ buf'.retained = buf.retained
      /\ gaps' \in SUBSET Seqs /\ gaps \subseteq gaps'
      /\ \A m \in Seqs : m # n => SameFor(m, buf, buf') /\ (m \in gaps' <=> m \in gaps)
      /\ \A i \in Items(buf') : Inside(n, i) => (n \in gaps' <=> i.gap)
      /\ ~Held(n, buf') => n \notin gaps'
      /\ \/ health' = Reconciled(h, buf', handed)
         \/ health' = h /\ gaps' = gaps
<1>6. After
  <2>1. CASE /\ Len(buf.queue) < QueueCapacity
             /\ buf' = [buf EXCEPT !.queue = Append(@, Observation(next))]
             /\ health' = h /\ UNCHANGED gaps
    <3>1. /\ Observation(n) \in Item /\ Sound(Observation(n)) /\ ~Observation(n).gap
          /\ Observation(n).first = n /\ Observation(n).last = n
      BY <1>2, ItemFields
    <3>2. \A j \in Items(buf) : Before(j, Observation(n))
      BY <1>3, <3>1 DEF Before
    <3>3. /\ BufInv(buf') /\ Items(buf') = Items(buf) \cup {Observation(n)}
          /\ buf'.retained = buf.retained
      BY <1>2, <2>1, <3>1, <3>2, QueueGrows
    <3>4. \A m \in Seqs : m # n => ~Inside(m, Observation(n))
      BY <1>2, <3>1 DEF Inside, Seqs
    <3>5. \A m \in Seqs : m # n => SameFor(m, buf, buf')
      BY <3>3, <3>4, SameBesides
    <3>6. \A i \in Items(buf') : Inside(n, i) => ~i.gap
      BY <1>4, <3>1, <3>3 DEF Held
    <3> QED
      BY <1>2, <1>4, <2>1, <3>3, <3>5, <3>6
  <2>2. CASE /\ \E b \in GapRecorded(buf, next) : buf' = b /\ health' = Reconciled(h, b, handed)
             /\ gaps' = gaps \cup {next}
    <3>1. buf' \in GapRecorded(buf, n) /\ health' = Reconciled(h, buf', handed)
      BY <2>2
    <3>2. buf.retained # None => buf.retained.last < n
      BY <1>2, <1>3, ItemsTyped DEF BufInv
    <3>3. \A j \in Items(buf) : j.last <= n
      BY <1>2, <1>3, ItemsTyped, ItemFields DEF BufInv
    <3>4. /\ BufInv(buf') /\ buf'.retained = buf.retained
          /\ \A m \in Seqs : m # n => SameFor(m, buf, buf')
          /\ Held(n, buf') /\ \A i \in Items(buf') : i.last <= n /\ (Inside(n, i) => i.gap)
      BY <1>2, <3>1, <3>2, <3>3, GapsRecorded
    <3> QED
      BY <1>2, <2>2, <3>1, <3>4
  <2>3. CASE health' = h /\ UNCHANGED <<buf, gaps>>
    <3>1. \A m \in Seqs : SameFor(m, buf, buf)
      BY DEF SameFor
    <3> QED
      BY <1>2, <1>4, <2>3, <3>1 DEF Held
  <2> QED
    BY <2>1, <2>2, <2>3 DEF Capture
<1> HIDE DEF h
<1>7. ASSUME NEW m \in Seqs PROVE Row(m, buf', fate', gaps', next', dispatch')
  <2>1. CASE m = n
    BY <1>1, <1>2, <1>4, <1>6, <2>1 DEF Row
  <2>2. CASE m # n
    <3>1. m \in Nat /\ m # 0
      BY BootstrapAssumption DEF Seqs
    <3>2. (m >= next' \/ m = dispatch') <=> (m >= next \/ m = dispatch)
      BY <1>1, <1>2, <2>2, <3>1
    <3>3. m < next => m < next'
      BY <1>1, <1>2, <3>1
    <3>4. fate'[m] = fate[m] /\ SameFor(m, buf, buf') /\ (m \in gaps' <=> m \in gaps)
      BY <1>1, <1>6, <2>2
    <3> QED
      BY <1>2, <3>2, <3>3, <3>4, RowCarried
  <2> QED
    BY <2>1, <2>2
<1>8. Waiting' = Waiting \cup {n} /\ n \notin Waiting
  BY <1>1, <1>2, <1>4 DEF Waiting
<1>9. Cardinality(Waiting') = Cardinality(Waiting) + 1
  BY <1>2, <1>8, CountsTyped, FS_AddElement
<1>10. Gone(fate, gaps)' = Gone(fate, gaps)
  <2>1. \A m \in Seqs : fate'[m] = fate[m] /\ (m = n \/ (m \in gaps' <=> m \in gaps))
    BY <1>1, <1>6
  <2> QED
    BY <1>4, <2>1 DEF Gone
<1>11. CountInv /\ handed = Cardinality(Gone(fate', gaps'))
  BY <1>10 DEF BootstrapInv, CountInv
<1>12. /\ health' \in HealthType /\ health'.pending = h.pending /\ health'.late = h.late
       /\ health'.dropped = handed + GapCaptures(buf')
       /\ health'.complete <=> Lost(fate', gaps') = {}
  <2>1. CASE health' = Reconciled(h, buf', handed)
    <3>1. /\ health' \in HealthType /\ health'.pending = h.pending /\ health'.late = h.late
          /\ health'.dropped = handed + GapCaptures(buf')
          /\ health'.complete <=> h.complete /\ Lost(fate', gaps') = {}
      BY <1>5, <1>6, <1>7, <1>11, <2>1, Reconciling
    <3>2. Lost(fate', gaps') = {} => Lost(fate, gaps) = {}
      BY <1>1, <1>6 DEF Lost
    <3> QED
      BY <1>5, <1>11, <3>1, <3>2 DEF CountInv
  <2>2. CASE health' = h /\ gaps' = gaps
    <3>1. Cardinality(Lost(fate, gaps)) = Cardinality(Gone(fate, gaps)) + GapCaptures(buf)
          /\ GapCaptures(buf) \in Nat /\ Cardinality(Gone(fate, gaps)) \in Nat
      BY <1>2, LossSum
    <3>2. Cardinality(Lost(fate', gaps')) = Cardinality(Gone(fate', gaps')) + GapCaptures(buf')
          /\ GapCaptures(buf') \in Nat
      BY <1>6, <1>7, LossSum
    <3>3. GapCaptures(buf') = GapCaptures(buf)
      BY <1>1, <2>2, <3>1, <3>2
    <3> QED
      BY <1>1, <1>5, <1>11, <2>2, <3>3 DEF CountInv
  <2> QED
    BY <1>6, <2>1, <2>2
<1>13. CountInv'
  <2>1. {m \in Seqs : fate'[m] = "late"} = {m \in Seqs : fate[m] = "late"}
    BY <1>1
  <2>2. health'.pending = Cardinality(Waiting')
    BY <1>5, <1>9, <1>11, <1>12 DEF CountInv
  <2>3. health'.late = Cardinality({m \in Seqs : fate'[m] = "late"})
    BY <1>5, <1>11, <1>12, <2>1 DEF CountInv
  <2> QED
    BY <1>1, <1>11, <1>12, <2>2, <2>3 DEF CountInv
<1>14. TypeOK'
  BY <1>1, <1>2, <1>6, <1>12 DEF TypeOK, BufInv, HealthType, Seqs
<1>15. DispatchInv'
  BY <1>1, <1>2, <1>3, <1>6, ItemsTyped DEF DispatchInv, BufInv
<1>16. WorkerInv' /\ SidesAgree'
  BY <1>1, <1>6 DEF BootstrapInv, WorkerInv, SidesAgree
<1> QED
  BY <1>6, <1>7, <1>13, <1>14, <1>15, <1>16 DEF BootstrapInv

\* The end of a dispatch, which may turn its capture into a gap.
LEMMA EndDispatchStep ==
  ASSUME BootstrapInv, EndDispatch
  PROVE  BootstrapInv'
<1> DEFINE n == dispatch
<1>1. /\ dispatch # 0 /\ dispatch' = 0
      /\ UNCHANGED <<next, handed, fate, bridge, taken, rotations>>
  BY DEF EndDispatch
<1>2. /\ n \in Seqs /\ n \in Nat /\ n = next - 1 /\ next \in Nat
      /\ BufInv(buf) /\ TypeOK /\ gaps \in SUBSET Seqs
      /\ \A m \in Seqs : Row(m, buf, fate, gaps, next, dispatch)
      /\ buf.retained # None => buf.retained.last < n
  BY <1>1, BootstrapAssumption, CountsTyped DEF BootstrapInv, TypeOK, Seqs, DispatchInv
<1>3. \A i \in Items(buf) : i.last <= n
  <2>1. \A i \in Items(buf) : i.last < next /\ i.last \in Nat
    BY <1>2, ItemsBelow, ItemsTyped, ItemFields DEF BufInv
  <2> QED
    BY <1>2, <2>1
<1>4. fate[n] = "none"
  BY <1>2 DEF Row, Held
<1>5. health \in HealthType
  BY <1>2, CountsTyped
<1> DEFINE After ==
      /\ BufInv(buf') /\ buf'.retained = buf.retained
      /\ gaps' \in SUBSET Seqs /\ gaps \subseteq gaps'
      /\ \A m \in Seqs : m # n => SameFor(m, buf, buf') /\ (m \in gaps' <=> m \in gaps)
      /\ \A i \in Items(buf') : Inside(n, i) => (n \in gaps' <=> i.gap)
      /\ Held(n, buf')
      /\ \/ health' = Reconciled(health, buf', handed)
         \/ UNCHANGED <<health, gaps, buf>>
<1>6. After
  <2>1. CASE /\ \E i \in Items(buf) : Inside(dispatch, i)
             /\ UNCHANGED <<buf, health, gaps>>
    <3>1. \A m \in Seqs : SameFor(m, buf, buf)
      BY DEF SameFor
    <3>2. \A i \in Items(buf) : Inside(n, i) => (n \in gaps <=> i.gap)
      BY <1>2 DEF Row
    <3> QED
      BY <1>2, <2>1, <3>1, <3>2 DEF Held
  <2>2. CASE /\ \E b \in GapRecorded(buf, dispatch) :
                   buf' = b /\ health' = Reconciled(health, b, handed)
             /\ gaps' = gaps \cup {dispatch}
    <3>1. buf' \in GapRecorded(buf, n) /\ health' = Reconciled(health, buf', handed)
      BY <2>2
    <3>2. /\ BufInv(buf') /\ buf'.retained = buf.retained
          /\ \A m \in Seqs : m # n => SameFor(m, buf, buf')
          /\ Held(n, buf') /\ \A i \in Items(buf') : i.last <= n /\ (Inside(n, i) => i.gap)
      BY <1>2, <1>3, <3>1, GapsRecorded
    <3> QED
      BY <1>2, <2>2, <3>1, <3>2
  <2> QED
    BY <2>1, <2>2 DEF EndDispatch
<1>7. ASSUME NEW m \in Seqs PROVE Row(m, buf', fate', gaps', next', dispatch')
  <2>1. CASE m = n
    BY <1>1, <1>2, <1>4, <1>6, <2>1 DEF Row
  <2>2. CASE m # n
    <3>1. m \in Nat /\ m # 0
      BY BootstrapAssumption DEF Seqs
    <3>2. (m >= next' \/ m = dispatch') <=> (m >= next \/ m = dispatch)
      BY <1>1, <1>2, <2>2, <3>1
    <3>3. fate'[m] = fate[m] /\ SameFor(m, buf, buf') /\ (m \in gaps' <=> m \in gaps)
      BY <1>1, <1>6, <2>2
    <3>4. m < next => m < next'
      BY <1>1
    <3> QED
      BY <1>2, <3>2, <3>3, <3>4, RowCarried
  <2> QED
    BY <2>1, <2>2
<1>8. Waiting' = Waiting
  BY <1>1 DEF Waiting
<1>9. Gone(fate, gaps)' = Gone(fate, gaps)
  <2>1. \A m \in Seqs : fate'[m] = fate[m] /\ (m = n \/ (m \in gaps' <=> m \in gaps))
    BY <1>1, <1>6
  <2> QED
    BY <1>4, <2>1 DEF Gone
<1>10. CountInv /\ handed = Cardinality(Gone(fate', gaps'))
  BY <1>9 DEF BootstrapInv, CountInv
<1>11. /\ health' \in HealthType /\ health'.pending = health.pending
       /\ health'.late = health.late /\ health'.dropped = handed + GapCaptures(buf')
       /\ health'.complete <=> Lost(fate', gaps') = {}
  <2>1. CASE health' = Reconciled(health, buf', handed)
    <3>1. /\ health' \in HealthType /\ health'.pending = health.pending
          /\ health'.late = health.late /\ health'.dropped = handed + GapCaptures(buf')
          /\ health'.complete <=> health.complete /\ Lost(fate', gaps') = {}
      BY <1>5, <1>6, <1>7, <1>10, <2>1, Reconciling
    <3>2. Lost(fate', gaps') = {} => Lost(fate, gaps) = {}
      BY <1>1, <1>6 DEF Lost
    <3> QED
      BY <1>10, <3>1, <3>2 DEF CountInv
  <2>2. CASE UNCHANGED <<health, gaps, buf>>
    BY <1>1, <1>5, <1>10, <2>2 DEF CountInv
  <2> QED
    BY <1>6, <2>1, <2>2
<1>12. CountInv'
  <2>1. {m \in Seqs : fate'[m] = "late"} = {m \in Seqs : fate[m] = "late"}
    BY <1>1
  <2> QED
    BY <1>1, <1>8, <1>10, <1>11, <2>1 DEF CountInv
<1>13. /\ worker' = worker \/ worker' = [worker EXCEPT !.up = TRUE]
       /\ faults' = faults \/ (faults < MaxFaults /\ faults' = faults + 1)
       /\ UNCHANGED <<latch, unseen>> \/ (latch' = TRUE /\ unseen' = TRUE)
  BY DEF EndDispatch, Notified, Latched, Fault
<1>14. TypeOK'
  <2>1. worker' \in [up : BOOLEAN, pc : {"choose", "offer", "mark"},
                     capture : Item \cup {None}, answer : {"none", "accepted", "late"}]
    BY <1>2, <1>13 DEF TypeOK
  <2>2. faults' \in 0 .. MaxFaults
    BY <1>2, <1>13, BootstrapAssumption DEF TypeOK
  <2>3. latch' \in BOOLEAN /\ unseen' \in BOOLEAN
    BY <1>2, <1>13 DEF TypeOK
  <2> QED
    BY <1>1, <1>2, <1>6, <1>11, <2>1, <2>2, <2>3, BootstrapAssumption DEF TypeOK, BufInv, HealthType
<1>15. DispatchInv'
  BY <1>1 DEF DispatchInv
<1>16. WorkerInv' /\ SidesAgree'
  <2>1. /\ worker'.pc = worker.pc /\ worker'.capture = worker.capture
        /\ worker'.answer = worker.answer
    BY <1>2, <1>13 DEF TypeOK
  <2> QED
    BY <1>1, <1>6, <2>1 DEF BootstrapInv, WorkerInv, SidesAgree
<1> QED
  BY <1>6, <1>7, <1>12, <1>14, <1>15, <1>16 DEF BootstrapInv

\* A callback that gets no number is no part of the counts.
LEMMA CaptureExhaustedStep ==
  ASSUME BootstrapInv, CaptureExhausted
  PROVE  BootstrapInv'
<1>1. UNCHANGED <<next, buf, dispatch, handed, health, fate, gaps, worker, bridge, taken, rotations, faults>>
      /\ latch' = TRUE /\ unseen' = TRUE
  BY DEF CaptureExhausted, Latched
<1>2. TypeOK /\ CountInv
  BY DEF BootstrapInv
<1>3. Waiting' = Waiting
  BY <1>1 DEF Waiting
<1>4. CountInv'
  BY <1>1, <1>2, <1>3 DEF CountInv
<1>5. TypeOK'
  BY <1>1, <1>2 DEF TypeOK
<1> QED
  BY <1>1, <1>4, <1>5 DEF BootstrapInv, DispatchInv, WorkerInv, SidesAgree

-----------------------------------------------------------------------------
(* Steps of the worker and of the bridge *)

\* A step that leaves the buffer, the counts and the histories alone.
LEMMA BufferUntouched ==
  ASSUME BootstrapInv, UNCHANGED <<bufferVars, taken>>, TypeOK', WorkerInv'
  PROVE  BootstrapInv'
<1>1. UNCHANGED <<next, buf, dispatch, handed, health, fate, gaps>>
  BY DEF bufferVars
<1>2. Waiting' = Waiting
  BY <1>1 DEF Waiting
<1> QED
  BY <1>1, <1>2 DEF BootstrapInv, DispatchInv, CountInv, SidesAgree

\* What the bridge's thread and the making of a bridge change.
LEMMA BridgeSteps ==
  ASSUME BootstrapInv, MakeBridge \/ RestartBridge \/ BridgeNext
  PROVE  BootstrapInv'
<1>1. UNCHANGED <<bufferVars, worker, taken>>
  BY DEF MakeBridge, RestartBridge, BridgeNext, Seal, Close, Rotate
<1>2. UNCHANGED <<next, buf, dispatch, handed, health, latch, unseen, fate, gaps>>
  BY <1>1 DEF bufferVars
<1>3. TypeOK
  BY DEF BootstrapInv
<1>4. bridge' \in StreamType /\ (bridge'.receipt = None \/ bridge'.receipt = bridge.receipt)
  <2>1. CASE MakeBridge
    BY <1>3, <2>1 DEF MakeBridge, TypeOK, StreamType
  <2>2. CASE RestartBridge \/ Seal \/ Close
    <3>1. bridge \in StreamType
      BY <1>3 DEF TypeOK
    <3>2. \/ bridge' = [bridge EXCEPT !.transport = "running"]
          \/ bridge' = [bridge EXCEPT !.sealed = TRUE]
          \/ bridge' = [bridge EXCEPT !.closed = TRUE, !.transport = "stopped"]
      BY <2>2 DEF RestartBridge, Seal, Close
    <3> QED
      BY <3>1, <3>2 DEF StreamType
  <2>3. CASE Rotate
    BY <2>3, BootstrapAssumption DEF Rotate, NewStream, StreamType
  <2> QED
    BY <2>1, <2>2, <2>3 DEF BridgeNext
<1>5. faults' \in 0 .. MaxFaults /\ rotations' \in 0 .. MaxRotations
  <2>1. /\ faults \in 0 .. MaxFaults /\ rotations \in 0 .. MaxRotations
        /\ MaxFaults \in Nat /\ MaxRotations \in Nat
    BY <1>3, BootstrapAssumption DEF TypeOK
  <2>2. \/ faults' = faults
        \/ faults < MaxFaults /\ faults' = faults + 1
    BY DEF MakeBridge, RestartBridge, BridgeNext, Seal, Close, Rotate, Fault
  <2>3. \/ rotations' = rotations
        \/ rotations < MaxRotations /\ rotations' = rotations + 1
    BY DEF MakeBridge, RestartBridge, BridgeNext, Seal, Close, Rotate
  <2> QED
    BY <2>1, <2>2, <2>3
<1>6. TypeOK'
  BY <1>1, <1>2, <1>3, <1>4, <1>5 DEF TypeOK
<1>7. WorkerInv'
  BY <1>1, <1>2, <1>4 DEF BootstrapInv, WorkerInv
<1> QED
  BY <1>1, <1>6, <1>7, BufferUntouched

\* The worker chooses the oldest capture.
LEMMA ChooseStep ==
  ASSUME BootstrapInv, Choose
  PROVE  BootstrapInv'
<1>1. /\ worker.pc = "choose" /\ dispatch = 0 /\ Items(buf) # {} /\ buf' = NextForWorker(buf)
      /\ worker' = [worker EXCEPT !.pc = "offer", !.capture = buf'.retained]
      /\ UNCHANGED <<next, dispatch, handed, health, latch, unseen, fate, gaps>>
      /\ UNCHANGED <<bridge, taken, rotations, faults>>
  BY DEF Choose
<1>2. BufInv(buf) /\ TypeOK
  BY DEF BootstrapInv
<1>3. BufInv(buf') /\ Items(buf') = Items(buf) /\ buf'.retained # None
  BY <1>1, <1>2, ItemChosen
<1>4. buf' \in BufType /\ Len(buf'.queue) <= QueueCapacity /\ buf'.retained \in Item \cup {None}
  BY <1>3 DEF BufInv, BufType
<1>5. /\ worker' \in [up : BOOLEAN, pc : {"choose", "offer", "mark"},
                      capture : Item \cup {None}, answer : {"none", "accepted", "late"}]
      /\ worker'.pc = "offer" /\ worker'.capture = buf'.retained
  BY <1>1, <1>2, <1>4 DEF TypeOK
<1>6. TypeOK'
  BY <1>1, <1>2, <1>4, <1>5 DEF TypeOK
<1>7. \A n \in Seqs : Row(n, buf', fate', gaps', next', dispatch')
  BY <1>1, <1>3 DEF BootstrapInv, Row, Held
<1>8. CountInv'
  <2>1. Waiting' = Waiting /\ GapCaptures(buf') = GapCaptures(buf)
    BY <1>1, <1>3 DEF Waiting, GapCaptures
  <2> QED
    BY <1>1, <2>1 DEF BootstrapInv, CountInv
<1>9. DispatchInv'
  BY <1>1 DEF BootstrapInv, DispatchInv
<1>10. WorkerInv' /\ SidesAgree'
  BY <1>1, <1>3, <1>5 DEF BootstrapInv, WorkerInv, SidesAgree
<1> QED
  BY <1>3, <1>6, <1>7, <1>8, <1>9, <1>10 DEF BootstrapInv

\* The bridge answers the offered capture, or not.
LEMMA OfferStep ==
  ASSUME BootstrapInv, Offer
  PROVE  BootstrapInv'
<1> DEFINE c == worker.capture
           WorkerType == [up : BOOLEAN, pc : {"choose", "offer", "mark"},
                          capture : Item \cup {None}, answer : {"none", "accepted", "late"}]
<1>1. /\ TypeOK /\ WorkerInv /\ BufInv(buf) /\ SidesAgree /\ worker \in WorkerType
      /\ bridge \in StreamType /\ worker.pc = "offer"
  BY DEF BootstrapInv, TypeOK, Offer
<1>2. c # None /\ c = buf.retained /\ c \in Item /\ c \in Items(buf)
  BY <1>1, ItemsTyped DEF WorkerInv, BufInv
<1>3. UNCHANGED <<next, buf, dispatch, handed, health, latch, unseen, fate, gaps, rotations>>
  BY DEF Offer, bufferVars
<1>4. faults' \in 0 .. MaxFaults
  <2>1. faults' = faults \/ (faults < MaxFaults /\ faults' = faults + 1)
    BY DEF Offer, Fault
  <2> QED
    BY <1>1, <2>1, BootstrapAssumption DEF TypeOK
<1>5. \/ TryAgain
      \/ /\ worker' = [worker EXCEPT !.pc = "mark", !.answer = Disposition(c)]
         /\ Disposition(c) # "none" /\ Take(c)
  BY DEF Offer
<1>6. UNCHANGED <<bridge, taken>> \/ (Disposition(c) # "none" /\ Take(c))
  BY DEF Offer
<1>7. Disposition(c) \in {"none", "accepted", "late"}
  BY <1>1 DEF Disposition, StreamType
<1>8. worker' \in WorkerType
  <2>1. CASE TryAgain
    BY <2>1 DEF TryAgain, Idle
  <2>2. CASE worker' = [worker EXCEPT !.pc = "mark", !.answer = Disposition(c)]
    BY <1>1, <1>7, <2>2
  <2> QED
    BY <1>5, <2>1, <2>2
\* Either the bridge says nothing new, or it says of c what the worker hears.
<1>9. \/ UNCHANGED <<bridge, taken>>
      \/ /\ c.first = bridge.next /\ Disposition(c) # "none"
         /\ bridge' = [bridge EXCEPT !.next = c.last + 1,
                          !.receipt = [item |-> c, disposition |-> Disposition(c)]]
         /\ taken' = [n \in Seqs |-> IF Inside(n, c) THEN Disposition(c) ELSE taken[n]]
  BY <1>6 DEF Take
<1>10. bridge' \in StreamType /\ taken' \in [Seqs -> {"none", "accepted", "late"}]
  <2>1. CASE UNCHANGED <<bridge, taken>>
    BY <1>1, <2>1 DEF TypeOK
  <2>2. CASE /\ c.first = bridge.next /\ Disposition(c) # "none"
             /\ bridge' = [bridge EXCEPT !.next = c.last + 1,
                              !.receipt = [item |-> c, disposition |-> Disposition(c)]]
             /\ taken' = [n \in Seqs |-> IF Inside(n, c) THEN Disposition(c) ELSE taken[n]]
    <3>1. c.last + 1 \in 1 .. MaxCapture + 1
      BY <1>2, BootstrapAssumption DEF Item, Seqs
    <3>2. [item |-> c, disposition |-> Disposition(c)]
             \in [item : Item, disposition : {"accepted", "late"}] \cup {None}
      BY <1>2, <1>7, <2>2
    <3>3. bridge' \in StreamType
      BY <1>1, <2>2, <3>1, <3>2 DEF StreamType
    <3>4. taken' \in [Seqs -> {"none", "accepted", "late"}]
      BY <1>1, <1>7, <2>2 DEF TypeOK
    <3> QED
      BY <3>3, <3>4
  <2> QED
    BY <1>9, <2>1, <2>2
<1>11. TypeOK'
  BY <1>1, <1>3, <1>4, <1>8, <1>10 DEF TypeOK
<1>12. SidesAgree'
  <2> SUFFICES ASSUME NEW n \in Seqs, fate'[n] # "none" PROVE fate'[n] = taken'[n]
    BY DEF SidesAgree
  <2>1. fate[n] # "none" /\ fate'[n] = fate[n] /\ fate[n] = taken[n]
    BY <1>1, <1>3 DEF SidesAgree
  <2>2. ~Inside(n, c)
    BY <1>2, <2>1 DEF BootstrapInv, Row
  <2> QED
    BY <1>9, <2>1, <2>2
<1>13. bridge'.receipt # None =>
          \A n \in Seqs : Inside(n, bridge'.receipt.item) => taken'[n] = bridge'.receipt.disposition
  <2>1. CASE UNCHANGED <<bridge, taken>>
    BY <1>1, <2>1 DEF WorkerInv
  <2>2. CASE /\ bridge' = [bridge EXCEPT !.next = c.last + 1,
                              !.receipt = [item |-> c, disposition |-> Disposition(c)]]
             /\ taken' = [n \in Seqs |-> IF Inside(n, c) THEN Disposition(c) ELSE taken[n]]
    <3>1. bridge'.receipt = [item |-> c, disposition |-> Disposition(c)]
      BY <1>1, <2>2 DEF StreamType
    <3> QED
      BY <2>2, <3>1
  <2> QED
    BY <1>9, <2>1, <2>2
<1>14. worker'.pc \in {"offer", "mark"} => worker'.capture # None /\ worker'.capture = buf'.retained
  BY <1>1, <1>2, <1>3, <1>5 DEF TryAgain, Idle
<1>15. ASSUME worker'.pc = "mark"
       PROVE  /\ worker'.answer # "none"
              /\ \A n \in Seqs : Inside(n, worker'.capture) => taken'[n] = worker'.answer
  <2>1. /\ worker'.capture = c /\ worker'.answer = Disposition(c) /\ Disposition(c) # "none"
        /\ Take(c)
    BY <1>1, <1>5, <1>15 DEF TryAgain, Idle
  <2>2. CASE c.first = bridge.next
    BY <2>1, <2>2 DEF Take
  <2>3. CASE c.first # bridge.next
    <3>1. /\ taken' = taken /\ bridge.receipt # None /\ bridge.receipt.item = c
          /\ Disposition(c) = bridge.receipt.disposition
      BY <2>1, <2>3 DEF Take, Disposition
    <3> QED
      BY <1>1, <2>1, <3>1 DEF WorkerInv
  <2> QED
    BY <2>1, <2>2, <2>3
<1>16. WorkerInv'
  BY <1>13, <1>14, <1>15 DEF WorkerInv
<1>17. Waiting' = Waiting
  BY <1>3 DEF Waiting
<1> QED
  BY <1>3, <1>11, <1>12, <1>16, <1>17 DEF BootstrapInv, DispatchInv, CountInv

\* The captures of an item, and as many as Count says.
LEMMA ItemCounted ==
  ASSUME NEW i \in Item, Sound(i)
  PROVE  /\ i.first .. i.last \subseteq Seqs /\ IsFiniteSet(i.first .. i.last)
         /\ Cardinality(i.first .. i.last) = Count(i) /\ Count(i) \in Nat
         /\ \A n \in Seqs : Inside(n, i) <=> n \in i.first .. i.last
         /\ i.first \in i.first .. i.last
<1>1. /\ i.first \in 1 .. MaxCapture /\ i.last \in 1 .. MaxCapture /\ i.first <= i.last
      /\ MaxCapture \in Nat /\ i # None
  BY ItemFields, BootstrapAssumption DEF Seqs, Sound
<1>2. /\ i.first \in Int /\ i.last \in Int /\ ~(i.first > i.last)
      /\ i.last - i.first + 1 \in Nat /\ i.first .. i.last \subseteq Seqs
      /\ i.first \in i.first .. i.last
  BY <1>1 DEF Seqs
<1>3. IsFiniteSet(i.first .. i.last) /\ Cardinality(i.first .. i.last) = i.last - i.first + 1
  BY <1>2, FS_Interval
<1> QED
  BY <1>1, <1>2, <1>3 DEF Count, Inside

\* The retained capture is disposed of as the bridge answered, and counted once.
LEMMA FinishedStep ==
  ASSUME BootstrapInv, worker.pc = "mark", dispatch = 0, TryAgain,
         buf.retained = worker.capture, Finished(worker.capture),
         fate' = [n \in Seqs |-> IF Inside(n, worker.capture) THEN worker.answer ELSE fate[n]],
         UNCHANGED <<next, dispatch, latch, unseen, gaps, bridge, taken, rotations, faults>>
  PROVE  BootstrapInv'
<1> DEFINE c == worker.capture
           a == worker.answer
           I == c.first .. c.last
           W == Waiting
           L == {n \in Seqs : fate[n] = "late"}
           G == Gone(fate, gaps)
           late == a = "late"
           h == [health EXCEPT !.pending = @ - Count(c),
                               !.late = @ + IF late THEN Count(c) ELSE 0,
                               !.complete = @ /\ ~late]
<1>1. /\ TypeOK /\ WorkerInv /\ BufInv(buf) /\ SidesAgree /\ CountInv
      /\ \A n \in Seqs : Row(n, buf, fate, gaps, next, dispatch)
      /\ gaps \in SUBSET Seqs
  BY DEF BootstrapInv, TypeOK
<1>2. /\ c # None /\ buf.retained # None /\ c = buf.retained /\ a \in {"accepted", "late"}
      /\ \A n \in Seqs : Inside(n, c) => taken[n] = a
  BY <1>1 DEF WorkerInv, TypeOK
<1>3. /\ buf' = [buf EXCEPT !.retained = None]
      /\ handed' = handed + (IF c.gap \/ late THEN Count(c) ELSE 0)
      /\ health' = Reconciled(h, buf', handed')
  BY DEF Finished
<1>4. /\ c \in Items(buf) /\ BufInv(buf') /\ Items(buf') = Items(buf) \ {c}
      /\ \A j \in Items(buf) : j = c \/ Before(c, j)
  BY <1>1, <1>2, <1>3, ItemReleased
<1>5. c \in Item /\ Sound(c)
  BY <1>1, <1>4, ItemsTyped DEF BufInv
<1>6. /\ I \subseteq Seqs /\ IsFiniteSet(I) /\ Cardinality(I) = Count(c) /\ Count(c) \in Nat
      /\ \A n \in Seqs : Inside(n, c) <=> n \in I
      /\ c.first \in I
  BY <1>5, ItemCounted
<1>7. \A n \in I : n \in Seqs /\ n < next /\ fate[n] = "none" /\ (n \in gaps <=> c.gap)
  BY <1>1, <1>4, <1>6 DEF Row
<1>8. fate' \in [Seqs -> {"none", "accepted", "late"}]
      /\ \A n \in Seqs : fate'[n] = IF n \in I THEN a ELSE fate[n]
  BY <1>1, <1>2, <1>6 DEF TypeOK
<1>9. /\ W' = W \ I /\ I \subseteq W
  <2>1. next' = next /\ \A n \in 1 .. next - 1 : n \in Seqs
    BY <1>1, CountsTyped, BootstrapAssumption DEF TypeOK, Seqs
  <2>2. I \subseteq 1 .. next - 1
    BY <1>1, <1>7, CountsTyped DEF Seqs
  <2> QED
    BY <1>2, <1>7, <1>8, <2>1, <2>2 DEF Waiting
<1>10. L' = IF late THEN L \cup I ELSE L
  BY <1>2, <1>6, <1>7, <1>8
<1>11. L \cap I = {} /\ G \cap I = {}
  BY <1>7 DEF Gone
<1>12. G' = IF c.gap \/ late THEN G \cup I ELSE G
  <2>1. gaps' = gaps
    OBVIOUS
  <2> QED
    BY <1>2, <1>6, <1>7, <1>8, <2>1 DEF Gone
<1>13. /\ IsFiniteSet(W) /\ Cardinality(W) \in Nat
       /\ IsFiniteSet(L) /\ Cardinality(L) \in Nat
       /\ IsFiniteSet(G) /\ Cardinality(G) \in Nat
       /\ health \in HealthType
  BY <1>1, CountsTyped, SeqsFinite DEF Gone
<1> HIDE DEF c, a, I, W, L, G, h
<1>14. Cardinality(W') = Cardinality(W) - Count(c) /\ Cardinality(W') \in Nat
  <2>1. W \cap I = I
    BY <1>9
  <2>2. IsFiniteSet(W \ I) /\ Cardinality(W \ I) = Cardinality(W) - Cardinality(I)
    BY <1>13, <2>1, FS_Difference
  <2> QED
    BY <1>6, <1>9, <2>2, FS_CardinalityType
<1>15. ASSUME NEW S, IsFiniteSet(S), Cardinality(S) \in Nat, S \cap I = {}
       PROVE  Cardinality(S \cup I) = Cardinality(S) + Count(c)
  <2>1. Cardinality(S \cap I) = 0
    BY <1>15, FS_EmptySet
  <2>2. Cardinality(S \cup I) = Cardinality(S) + Cardinality(I) - Cardinality(S \cap I)
    BY <1>6, <1>15, FS_Union
  <2> QED
    BY <1>6, <1>15, <2>1, <2>2
<1>16. Cardinality(L') = Cardinality(L) + IF late THEN Count(c) ELSE 0
  <2>1. Cardinality(L \cup I) = Cardinality(L) + Count(c)
    BY <1>11, <1>13, <1>15
  <2> QED
    BY <1>10, <1>13, <2>1
<1>17. Cardinality(G') = Cardinality(G) + IF c.gap \/ late THEN Count(c) ELSE 0
  <2>1. Cardinality(G \cup I) = Cardinality(G) + Count(c)
    BY <1>11, <1>13, <1>15
  <2> QED
    BY <1>12, <1>13, <2>1
<1>18. /\ health.pending = Cardinality(W) /\ health.late = Cardinality(L)
       /\ handed = Cardinality(G)
       /\ health.complete <=> Lost(fate, gaps) = {}
  BY <1>1 DEF CountInv, W, L, G
<1>19. /\ h \in HealthType /\ h.pending = Cardinality(W') /\ h.late = Cardinality(L')
       /\ h.complete <=> health.complete /\ ~late
  <2> DEFINE more == IF late THEN Count(c) ELSE 0
  <2>1. more \in Nat
    BY <1>6
  <2>2. h = [health EXCEPT !.pending = @ - Count(c), !.late = @ + more, !.complete = @ /\ ~late]
    BY DEF h
  <2> HIDE DEF more
  <2>3. health.pending - Count(c) \in Nat /\ health.late + more \in Nat
    BY <1>13, <1>14, <1>18, <2>1
  <2>4. (health.complete /\ ~late) \in BOOLEAN
    OBVIOUS
  <2>5. /\ h \in HealthType /\ h.pending = health.pending - Count(c)
        /\ h.late = health.late + more /\ h.complete = (health.complete /\ ~late)
    BY <1>13, <2>2, <2>3, <2>4 DEF HealthType
  <2> QED
    BY <1>14, <1>16, <1>18, <2>5 DEF more
<1>20. handed' = Cardinality(G') /\ handed' \in Nat
  <2> DEFINE more == IF c.gap \/ late THEN Count(c) ELSE 0
  <2>1. more \in Nat /\ handed' = handed + more /\ Cardinality(G') = Cardinality(G) + more
    BY <1>3, <1>6, <1>17
  <2> HIDE DEF more
  <2> QED
    BY <1>13, <1>18, <2>1
<1>21. ASSUME NEW m \in Seqs PROVE Row(m, buf', fate', gaps', next', dispatch')
  <2>1. CASE m \in I
    <3>1. ~Held(m, buf')
      <4> SUFFICES ASSUME NEW j \in Items(buf'), Inside(m, j) PROVE FALSE
        BY DEF Held
      <4>1. j \in Items(buf) /\ j # c
        BY <1>4
      <4>2. Inside(m, c)
        BY <1>6, <2>1
      <4> QED
        BY <1>1, <1>4, <4>1, <4>2, HeldOnce
    <3> QED
      BY <1>2, <1>7, <1>8, <2>1, <3>1, CountsTyped, <1>1 DEF Row, Held, Seqs
  <2>2. CASE m \notin I
    <3>1. SameFor(m, buf, buf')
      BY <1>4, <1>6, <2>2 DEF SameFor
    <3>2. fate'[m] = fate[m]
      BY <1>8, <2>2
    <3> QED
      BY <1>1, <3>1, <3>2, RowCarried
  <2> QED
    BY <2>1, <2>2
<1>22. /\ health' \in HealthType /\ health'.dropped = handed' + GapCaptures(buf')
       /\ health'.complete <=> h.complete /\ Lost(fate', gaps') = {}
       /\ health'.pending = h.pending /\ health'.late = h.late
  <2>1. gaps' \in SUBSET Seqs /\ handed' = Cardinality(Gone(fate', gaps'))
    BY <1>1, <1>20 DEF G
  <2> QED
    BY <1>3, <1>4, <1>19, <1>21, <2>1, Reconciling
<1>23. Lost(fate', gaps') = {} => Lost(fate, gaps) = {} /\ ~late
  <2>1. \A n \in Seqs : fate[n] = "late" => fate'[n] = "late"
    BY <1>7, <1>8
  <2>2. late => fate'[c.first] = "late" /\ c.first \in Seqs
    BY <1>6, <1>8
  <2>3. gaps' = gaps
    OBVIOUS
  <2> QED
    BY <2>1, <2>2, <2>3 DEF Lost
<1>24. CountInv'
  <2>1. /\ health'.pending = Cardinality(Waiting')
        /\ health'.late = Cardinality({n \in Seqs : fate'[n] = "late"})
        /\ handed' = Cardinality(Gone(fate', gaps'))
    BY <1>19, <1>20, <1>22 DEF W, L, G
  <2>2. health'.complete <=> Lost(fate', gaps') = {}
    BY <1>18, <1>19, <1>22, <1>23
  <2> QED
    BY <1>22, <2>1, <2>2 DEF CountInv
<1>25. TypeOK'
  <2>1. buf' \in BufType /\ Len(buf'.queue) <= QueueCapacity
    BY <1>4 DEF BufInv
  <2>2. worker' \in [up : BOOLEAN, pc : {"choose", "offer", "mark"},
                     capture : Item \cup {None}, answer : {"none", "accepted", "late"}]
    BY DEF TryAgain, Idle
  <2> QED
    BY <1>1, <1>8, <1>20, <1>22, <2>1, <2>2 DEF TypeOK, HealthType
<1>26. WorkerInv'
  BY <1>1 DEF WorkerInv, TryAgain, Idle
<1>27. DispatchInv'
  BY DEF DispatchInv
<1>28. SidesAgree'
  BY <1>1, <1>2, <1>6, <1>8 DEF SidesAgree
<1> QED
  BY <1>4, <1>21, <1>24, <1>25, <1>26, <1>27, <1>28 DEF BootstrapInv

\* Every way of marking.
LEMMA MarkStep ==
  ASSUME BootstrapInv, Mark
  PROVE  BootstrapInv'
<1>1. /\ worker.pc = "mark" /\ dispatch = 0 /\ TryAgain
      /\ UNCHANGED <<next, dispatch, latch, unseen, gaps, bridge, taken, rotations>>
  BY DEF Mark
<1>2. CASE /\ buf.retained = worker.capture /\ Finished(worker.capture)
           /\ fate' = [n \in Seqs |-> IF Inside(n, worker.capture) THEN worker.answer ELSE fate[n]]
           /\ UNCHANGED faults
  BY <1>1, <1>2, FinishedStep
<1>3. CASE UNCHANGED <<buf, handed, health, fate>> /\ (UNCHANGED faults \/ Fault)
  <2>1. TypeOK /\ WorkerInv
    BY DEF BootstrapInv
  <2>2. faults' \in 0 .. MaxFaults
    BY <1>3, <2>1, BootstrapAssumption DEF TypeOK, Fault
  <2>3. worker' \in [up : BOOLEAN, pc : {"choose", "offer", "mark"},
                     capture : Item \cup {None}, answer : {"none", "accepted", "late"}]
    BY <1>1 DEF TryAgain, Idle
  <2>4. TypeOK'
    BY <1>1, <1>3, <2>1, <2>2, <2>3 DEF TypeOK
  <2>5. WorkerInv'
    BY <1>1, <2>1 DEF WorkerInv, TryAgain, Idle
  <2> QED
    BY <1>1, <1>3, <2>4, <2>5, BufferUntouched DEF bufferVars
<1> QED
  BY <1>2, <1>3 DEF Mark

-----------------------------------------------------------------------------
(* Theorems *)

LEMMA BootstrapStep ==
  ASSUME BootstrapInv, [Next]_vars
  PROVE  BootstrapInv'
<1>1. CASE Capture
  BY <1>1, CaptureStep
<1>2. CASE EndDispatch
  BY <1>2, EndDispatchStep
<1>3. CASE CaptureExhausted
  BY <1>3, CaptureExhaustedStep
<1>4. CASE MakeBridge \/ RestartBridge \/ BridgeNext
  BY <1>4, BridgeSteps
<1>5. CASE Choose
  BY <1>5, ChooseStep
<1>6. CASE Offer
  BY <1>6, OfferStep
<1>7. CASE Mark
  BY <1>7, MarkStep
<1>8. CASE UNCHANGED vars
  <2>1. TypeOK' /\ WorkerInv'
    BY <1>8 DEF BootstrapInv, TypeOK, WorkerInv, vars, bufferVars
  <2> QED
    BY <1>8, <2>1, BufferUntouched DEF vars
<1> QED
  BY <1>1, <1>2, <1>3, <1>4, <1>5, <1>6, <1>7, <1>8 DEF Next, CallbackNext, WorkerNext

\* What is known of every reachable state.
LEMMA BootstrapAlways == Spec => []BootstrapInv
<1>1. Init => BootstrapInv
  BY BootstrapInit
<1>2. BootstrapInv /\ [Next]_vars => BootstrapInv'
  BY BootstrapStep
<1> QED
  BY <1>1, <1>2, PTL DEF Spec

\* Buffer, worker and bridge always have their types: no reservation exceeds the
\* capture numbers, the queue its capacity, and no count goes below zero
\* (_BootstrapCaptureBuffer and _BootstrapHealth, hermes/registration.py).
THEOREM BootstrapTyped == Spec => []TypeOK
<1>1. BootstrapInv => TypeOK
  BY DEF BootstrapInv
<1> QED
  BY <1>1, BootstrapAlways, PTL

\* Every capture that waits is held in exactly one place of the buffer, whatever
\* raises in a callback or in the worker, and what the worker retains is never
\* younger than another capture that waits (next_for_worker, _record_gap_locked and
\* mark_handed_off of _BootstrapCaptureBuffer, hermes/registration.py).
THEOREM CapturesHeldOnce == Spec => []HeldOnceInOrder
<1>1. BootstrapInv => HeldOnceInOrder
  <2> SUFFICES ASSUME BootstrapInv PROVE HeldOnceInOrder
    OBVIOUS
  <2>1. /\ BufInv(buf) /\ TypeOK
        /\ \A n \in Seqs : Row(n, buf, fate, gaps, next, dispatch)
    BY DEF BootstrapInv
  <2>2. ASSUME NEW n \in Seqs
        PROVE  LET holders == {i \in Items(buf) : Inside(n, i)}
               IN IF n \in Waiting \ {dispatch} THEN Cardinality(holders) = 1
                  ELSE Cardinality(holders) <= IF n = dispatch THEN 1 ELSE 0
    <3> DEFINE holders == {i \in Items(buf) : Inside(n, i)}
    <3>1. n \in Nat /\ n # 0 /\ next \in Nat
      BY <2>1, CountsTyped, BootstrapAssumption DEF Seqs
    <3>2. ASSUME Held(n, buf) PROVE Cardinality(holders) = 1
      <4>1. PICK i \in Items(buf) : Inside(n, i)
        BY <3>2 DEF Held
      <4>2. holders = {i}
        BY <2>1, <4>1, HeldOnce
      <4> QED
        BY <4>2, FS_Singleton
    <3>3. ASSUME ~Held(n, buf) PROVE Cardinality(holders) = 0
      <4>1. holders = {}
        BY <3>3 DEF Held
      <4> QED
        BY <4>1, FS_EmptySet
    <3>4. n \in Waiting <=> n < next /\ fate[n] = "none"
      BY <3>1 DEF Waiting
    <3>5. Row(n, buf, fate, gaps, next, dispatch)
      BY <2>1
    <3> HIDE DEF holders
    <3>6. n \in Waiting \ {dispatch} => Held(n, buf)
      BY <3>1, <3>4, <3>5 DEF Row
    <3>7. Held(n, buf) => n \in Waiting
      BY <3>4, <3>5 DEF Row, Held
    <3> QED
      BY <3>2, <3>3, <3>6, <3>7 DEF holders
  <2>3. ASSUME buf.retained # None, NEW n \in Waiting PROVE buf.retained.first <= n
    <3>1. /\ n \in Seqs /\ n \in Nat /\ n < next /\ fate[n] = "none" /\ next \in Nat
      BY <2>1, CountsTyped, BootstrapAssumption DEF Waiting, Seqs
    <3>2. buf.retained \in Item /\ Sound(buf.retained) /\ buf.retained \in Items(buf)
      BY <2>1, <2>3, ItemsTyped DEF BufInv
    <3>3. /\ buf.retained.first \in Nat /\ buf.retained.last \in Nat
          /\ buf.retained.first <= buf.retained.last
      BY <3>2, ItemFields DEF Sound
    <3>4. CASE Held(n, buf)
      <4>1. PICK i \in Items(buf) : Inside(n, i)
        BY <3>4 DEF Held
      <4>2. i = buf.retained \/ Before(buf.retained, i)
        BY <2>1, <2>3, ItemReleased
      <4>3. i \in Item
        BY <2>1, ItemsTyped DEF BufInv
      <4> QED
        BY <3>1, <3>3, <4>1, <4>2, <4>3, ItemFields DEF Inside, Before
    <3>5. CASE ~Held(n, buf)
      <4>1. n = dispatch
        BY <2>1, <3>1, <3>5 DEF Row
      <4> QED
        BY <2>3, <3>1, <3>3, <4>1 DEF BootstrapInv, DispatchInv, Seqs
    <3> QED
      BY <3>4, <3>5
  <2> QED
    BY <2>2, <2>3 DEF HeldOnceInOrder
<1> QED
  BY <1>1, BootstrapAlways, PTL

\* The latch is set with each failure that no capture stands for, and never released.
LatchInv == latch = unseen

LEMMA LatchAlways == Spec => []LatchInv
<1>1. Init => LatchInv
  BY DEF Init, LatchInv
<1>2. ASSUME LatchInv, [Next]_vars PROVE LatchInv'
  <2>1. \/ UNCHANGED <<latch, unseen>>
        \/ latch' = TRUE /\ unseen' = TRUE
    <3>1. CASE CallbackNext
      BY <3>1 DEF CallbackNext, Capture, EndDispatch, Notified, CaptureExhausted, Latched
    <3>2. CASE WorkerNext
      BY <3>2 DEF WorkerNext, MakeBridge, RestartBridge, Choose, Offer, Mark, bufferVars
    <3>3. CASE BridgeNext
      BY <3>3 DEF BridgeNext, Seal, Close, Rotate, bufferVars
    <3>4. CASE UNCHANGED vars
      BY <3>4 DEF vars, bufferVars
    <3> QED
      BY <1>2, <3>1, <3>2, <3>3, <3>4 DEF Next
  <2> QED
    BY <1>2, <2>1 DEF LatchInv
<1> QED
  BY <1>1, <1>2, PTL DEF Spec

\* Whenever no dispatch is under way, the health that callers see counts exactly
\* the captures that wait, that came too late and that were lost, none of them
\* twice, and trace_complete is said exactly while nothing was lost, no callback
\* stayed without a number and no start of the thread raised (_BootstrapHealth,
\* _reconcile_gap_health_locked and mark_unrepresented_callback,
\* hermes/registration.py).
THEOREM HealthCountsExactly == Spec => []HealthIsExact
<1>1. BootstrapInv /\ LatchInv => HealthIsExact
  <2> SUFFICES ASSUME BootstrapInv, LatchInv PROVE HealthIsExact
    OBVIOUS
  <2>1. CountInv /\ BufInv(buf) /\ gaps \in SUBSET Seqs
        /\ \A n \in Seqs : Row(n, buf, fate, gaps, next, dispatch)
    BY DEF BootstrapInv, TypeOK
  <2>2. Cardinality(Lost(fate, gaps)) = Cardinality(Gone(fate, gaps)) + GapCaptures(buf)
    BY <2>1, LossSum
  <2>3. health.dropped = Cardinality(Lost(fate, gaps))
    BY <2>1, <2>2 DEF CountInv
  <2>4. TraceComplete <=> (Lost(fate, gaps) = {} /\ ~unseen)
    BY <2>1 DEF TraceComplete, CountInv, LatchInv
  <2> QED
    BY <2>1, <2>3, <2>4 DEF HealthIsExact, CountInv, Lost
<1> QED
  BY <1>1, BootstrapAlways, LatchAlways, PTL

\* What the buffer counts as delivered or as late is what the bridge made of it,
\* through lost answers, repeats and a seal in between
\* (_BootstrapCaptureBuffer.mark_handed_off, hermes/registration.py, and
\* HookBridge.capture_reserved, hermes/bridge.py).
THEOREM BothSidesAgree == Spec => []SidesAgree
<1>1. BootstrapInv => SidesAgree
  BY DEF BootstrapInv
<1> QED
  BY <1>1, BootstrapAlways, PTL
=============================================================================
