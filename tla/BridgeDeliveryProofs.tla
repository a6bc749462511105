------------------------ MODULE BridgeDeliveryProofs ------------------------
(***************************************************************************)
(* Theorems about the bridge.  First the durable streams, for any sets of  *)
(* instances and connections, any MaxCaptureSeq, and clients that call in  *)
(* any order.  Then plugin and daemon together, which use the streams only *)
(* as BridgeStream allows: what is proved for arbitrary clients therefore  *)
(* holds of the running system.  Then where every capture is, what follows *)
(* for closes and for the abstract log, and what the counters of the       *)
(* bridge say of the captures that are lost.                               *)
(***************************************************************************)
EXTENDS BridgeDelivery, SequenceTheorems, FiniteSetTheorems, WellFoundedInduction, TLAPS

\* What a member of Record is, field by field.
LEMMA RecordFields ==
  ASSUME NEW r \in Record
  PROVE  /\ r.kind \in {"observation", "gap"}
         /\ r.first \in CaptureSeq /\ r.last \in CaptureSeq
         /\ r.first <= r.last
BY MaxCaptureAssumption DEF Record, GapRecord, Observation, CaptureSeq

-----------------------------------------------------------------------------
(* Type correctness *)

\* The empty tables are typed.
LEMMA TypeInit == StreamInit => TypeOK
BY MaxCaptureAssumption DEF StreamInit, TypeOK, StreamType, Status, EventType

\* Every operation keeps the tables typed.
LEMMA TypeStep ==
  ASSUME TypeOK, [StreamNext]_streamVars
  PROVE  TypeOK'
<1> USE DEF TypeOK
<1>1. ASSUME NEW i \in Instance, NEW c \in Conn, Attach(i, c)
      PROVE  TypeOK'
  BY <1>1 DEF Attach, Touch, StreamType, Status
<1>2. ASSUME NEW i \in Instance, NEW c \in Conn, Disconnect(i, c)
      PROVE  TypeOK'
  BY <1>2 DEF Disconnect, Touch, StreamType
<1>3. ASSUME NEW i \in Instance, NEW c \in Conn, NEW r \in Record, Commit(i, c, r)
      PROVE  TypeOK'
  <2>1. /\ r.kind \in {"observation", "gap"}
        /\ r.first \in 1 .. MaxCaptureSeq /\ r.last \in 1 .. MaxCaptureSeq
    BY RecordFields DEF CaptureSeq
  <2>2. r.last + 1 \in 1 .. (MaxCaptureSeq + 1)
    BY <2>1, MaxCaptureAssumption
  <2>3. stream' \in [Instance -> StreamType]
    BY <1>3, <2>2 DEF Commit, StreamType
  <2>4. RawEvent(i, r) \in EventType
    BY <2>1, MaxCaptureAssumption DEF RawEvent, EventType
  <2>5. events' \in Seq(EventType)
    BY <1>3, <2>4 DEF Commit
  <2> QED
    BY <1>3, <2>3, <2>5 DEF Commit, Touch
<1>4. ASSUME NEW i \in Instance, NEW c \in Conn, NEW final \in 0 .. MaxCaptureSeq,
             CloseStream(i, c, final)
      PROVE  TypeOK'
  <2>1. stream' \in [Instance -> StreamType]
    <3> DEFINE closed == [stream[i] EXCEPT !.status = "clean_closed", !.nonce = NoConn,
                                           !.final = final]
    <3>1. closed \in StreamType
      BY DEF StreamType, Status
    <3>2. stream' = [stream EXCEPT ![i] = closed]
      BY <1>4 DEF CloseStream
    <3> HIDE DEF closed
    <3> QED
      BY <3>1, <3>2
  <2> QED
    BY <1>4, <2>1 DEF CloseStream, Touch
<1>5. ASSUME NEW elapsed \in SUBSET Instance, StartPass(elapsed)
      PROVE  TypeOK'
  BY <1>5 DEF StartPass
<1>6. ASSUME NEW i \in Instance, AbandonCandidate(i)
      PROVE  TypeOK'
  <2>1. UnknownGap(i) \in EventType
    BY MaxCaptureAssumption DEF UnknownGap, EventType, StreamType
  <2>2. events' \in Seq(EventType)
    BY <1>6, <2>1 DEF AbandonCandidate
  <2>3. stream' \in [Instance -> StreamType]
    <3>1. CASE Detached(i) /\ i \in lapsed
      <4> DEFINE abandoned == [stream[i] EXCEPT !.status = "abandoned"]
      <4>1. abandoned \in StreamType
        BY DEF StreamType, Status
      <4>2. stream' = [stream EXCEPT ![i] = abandoned]
        BY <1>6, <3>1 DEF AbandonCandidate
      <4> HIDE DEF abandoned
      <4> QED
        BY <4>1, <4>2
    <3>2. CASE ~(Detached(i) /\ i \in lapsed)
      BY <1>6, <3>2 DEF AbandonCandidate
    <3> QED
      BY <3>1, <3>2
  <2> QED
    BY <1>6, <2>2, <2>3 DEF AbandonCandidate, Detached, Touch
<1>7. CASE Restart
  BY <1>7 DEF Restart, StreamType
<1>8. CASE UNCHANGED streamVars
  BY <1>8 DEF streamVars
<1> QED
  BY <1>1, <1>2, <1>3, <1>4, <1>5, <1>6, <1>7, <1>8 DEF StreamNext

\* Every table keeps its type: no operation leaves a cursor, a receipt or an
\* event outside its range.
THEOREM TypeCorrect == StreamSpec => []TypeOK
<1>1. TypeOK /\ [StreamNext]_streamVars => TypeOK'
  BY TypeStep
<1> QED
  BY TypeInit, <1>1, PTL DEF StreamSpec

-----------------------------------------------------------------------------
(* The record table *)

\* Records that end before the cursor leave it to the next record to start
\* there: adding it keeps the tiling.
LEMMA TilingExtends ==
  ASSUME NEW T \in SUBSET Record, NEW next \in 1 .. (MaxCaptureSeq + 1), Tiles(T, next),
         NEW new \in Record, new.first = next
  PROVE  Tiles(T \cup {new}, new.last + 1)
<1>0. \A r \in Record : r.first \in Nat /\ r.last \in Nat /\ r.first <= r.last
  BY RecordFields, MaxCaptureAssumption DEF CaptureSeq
<1>1. ASSUME NEW n \in 1 .. ((new.last + 1) - 1)
      PROVE  \E r \in T \cup {new} : n \in Covers(r)
  <2>1. CASE n < next
    BY <2>1, MaxCaptureAssumption DEF Tiles
  <2>2. CASE n >= next
    <3>1. n \in Covers(new)
      BY <1>0, <2>2, MaxCaptureAssumption DEF Covers
    <3> QED
      BY <3>1
  <2> QED
    BY <2>1, <2>2, MaxCaptureAssumption
<1>2. \A r \in T \cup {new} : r.last < new.last + 1
  BY <1>0, MaxCaptureAssumption DEF Tiles
<1>3. ASSUME NEW r \in T \cup {new}, NEW s \in T \cup {new},
             r.first <= s.last, s.first <= r.last
      PROVE  r = s
  BY <1>0, <1>3, MaxCaptureAssumption DEF Tiles
<1> QED
  BY <1>1, <1>2, <1>3 DEF Tiles

\* The records of a stream cover the captures before its cursor, each exactly
\* once, whatever the clients send: retries, gaps, records out of order.
THEOREM RecordsTile == StreamSpec => []RowsTileCursor
<1>1. StreamInit => RowsTileCursor
  BY DEF StreamInit, RowsTileCursor, Tiles
<1>2. ASSUME TypeOK, RowsTileCursor, [StreamNext]_streamVars
      PROVE  RowsTileCursor'
  <2>1. ASSUME NEW i \in Instance, NEW c \in Conn, NEW r \in Record, Commit(i, c, r)
        PROVE  RowsTileCursor'
    <3>1. r.first = stream[i].next
      BY <2>1 DEF Commit, CommitCode
    <3>2. /\ stream[i].next \in 1 .. (MaxCaptureSeq + 1)
          /\ rows[i] \in SUBSET Record
      BY <1>2 DEF TypeOK, StreamType
    <3>3. /\ stream'[i].next = r.last + 1
          /\ rows'[i] = rows[i] \cup {r}
      BY <1>2, <2>1 DEF Commit, TypeOK, StreamType
    <3>4. \A j \in Instance \ {i} : stream'[j] = stream[j] /\ rows'[j] = rows[j]
      BY <1>2, <2>1 DEF Commit, TypeOK
    <3>5. Tiles(rows[i] \cup {r}, r.last + 1)
      BY <1>2, <3>1, <3>2, TilingExtends DEF RowsTileCursor
    <3> QED
      BY <1>2, <3>3, <3>4, <3>5 DEF RowsTileCursor
  <2>2. ASSUME \A i \in Instance : stream'[i].next = stream[i].next /\ rows'[i] = rows[i]
        PROVE  RowsTileCursor'
    BY <1>2, <2>2 DEF RowsTileCursor
  <2>3. ASSUME NEW i \in Instance, NEW c \in Conn, NEW j \in Instance,
               \/ Attach(i, c) \/ Disconnect(i, c)
               \/ \E final \in 0 .. MaxCaptureSeq : CloseStream(i, c, final)
        PROVE  stream'[j].next = stream[j].next /\ rows'[j] = rows[j]
    <3>1. stream[j] \in StreamType /\ stream \in [Instance -> StreamType]
      BY <1>2 DEF TypeOK
    <3>2. CASE Attach(i, c)
      BY <3>1, <3>2 DEF Attach, StreamType
    <3>3. CASE Disconnect(i, c)
      BY <3>1, <3>3 DEF Disconnect, StreamType
    <3>4. ASSUME NEW final \in 0 .. MaxCaptureSeq, CloseStream(i, c, final)
          PROVE  stream'[j].next = stream[j].next /\ rows'[j] = rows[j]
      BY <3>1, <3>4 DEF CloseStream, StreamType
    <3> QED
      BY <2>3, <3>2, <3>3, <3>4
  <2>4. ASSUME NEW j \in Instance,
               \/ \E elapsed \in SUBSET Instance : StartPass(elapsed)
               \/ \E i \in Instance : AbandonCandidate(i)
               \/ Restart
               \/ UNCHANGED streamVars
        PROVE  stream'[j].next = stream[j].next /\ rows'[j] = rows[j]
    <3>1. stream[j] \in StreamType /\ stream \in [Instance -> StreamType]
      BY <1>2 DEF TypeOK
    <3>2. CASE \E elapsed \in SUBSET Instance : StartPass(elapsed)
      BY <3>2 DEF StartPass
    <3>3. ASSUME NEW i \in Instance, AbandonCandidate(i)
          PROVE  stream'[j].next = stream[j].next /\ rows'[j] = rows[j]
      BY <3>1, <3>3 DEF AbandonCandidate, StreamType
    <3>4. CASE Restart
      BY <3>1, <3>4 DEF Restart, StreamType
    <3>5. CASE UNCHANGED streamVars
      BY <3>5 DEF streamVars
    <3> QED
      BY <2>4, <3>2, <3>3, <3>4, <3>5
  <2> QED
    BY <1>2, <2>1, <2>2, <2>3, <2>4 DEF StreamNext
<1> QED
  BY <1>1, <1>2, TypeCorrect, PTL DEF StreamSpec

-----------------------------------------------------------------------------
(* Terminal streams *)

\* A clean close certifies the cursor it found, and a stream that is not open
\* belongs to no connection.
THEOREM ReceiptsExact == StreamSpec => []TerminalReceipt
<1>1. StreamInit => TerminalReceipt
  BY DEF StreamInit, TerminalReceipt
<1>2. ASSUME TypeOK, TerminalReceipt, [StreamNext]_streamVars
      PROVE  TerminalReceipt'
  <2> USE <1>2 DEF TypeOK, TerminalReceipt
  <2>1. ASSUME NEW i \in Instance, NEW c \in Conn, Attach(i, c)
        PROVE  TerminalReceipt'
    BY <2>1 DEF Attach, StreamType
  <2>2. ASSUME NEW i \in Instance, NEW c \in Conn, Disconnect(i, c)
        PROVE  TerminalReceipt'
    BY <2>2 DEF Disconnect, StreamType
  <2>3. ASSUME NEW i \in Instance, NEW c \in Conn, NEW r \in Record, Commit(i, c, r)
        PROVE  TerminalReceipt'
    <3>1. stream[i].status = "open"
      BY <2>3 DEF Commit, CommitCode
    <3> QED
      BY <2>3, <3>1 DEF Commit, StreamType
  <2>4. ASSUME NEW i \in Instance, NEW c \in Conn, NEW final \in 0 .. MaxCaptureSeq,
               CloseStream(i, c, final)
        PROVE  TerminalReceipt'
    <3>1. final = stream[i].next - 1
      BY <2>4 DEF CloseStream, CloseCode
    <3> QED
      BY <2>4, <3>1 DEF CloseStream, StreamType
  <2>5. ASSUME NEW elapsed \in SUBSET Instance, StartPass(elapsed)
        PROVE  TerminalReceipt'
    BY <2>5 DEF StartPass
  <2>6. ASSUME NEW i \in Instance, AbandonCandidate(i)
        PROVE  TerminalReceipt'
    BY <2>6 DEF AbandonCandidate, Detached, StreamType
  <2>7. CASE Restart
    BY <2>7 DEF Restart, StreamType
  <2>8. CASE UNCHANGED streamVars
    BY <2>8 DEF streamVars
  <2> QED
    BY <2>1, <2>2, <2>3, <2>4, <2>5, <2>6, <2>7, <2>8 DEF StreamNext
<1> QED
  BY <1>1, <1>2, TypeCorrect, PTL DEF StreamSpec

\* No operation, late or repeated, changes a closed or abandoned stream.
THEOREM TerminalFrozen == StreamSpec => TerminalIsFrozen
<1>1. ASSUME TypeOK, TerminalReceipt, [StreamNext]_streamVars,
             NEW t \in Instance, Terminal(t)
      PROVE  stream'[t] = stream[t] /\ rows'[t] = rows[t]
  <2>0. stream[t].status \notin {"open", "absent"} /\ stream[t].nonce = NoConn
    BY <1>1 DEF Terminal, TerminalReceipt
  <2>1. ASSUME NEW i \in Instance, NEW c \in Conn, Attach(i, c)
        PROVE  i # t
    BY <1>1, <2>1 DEF Attach, AttachCode, Terminal
  <2>2. ASSUME NEW i \in Instance, NEW c \in Conn, Disconnect(i, c)
        PROVE  i # t
    BY <2>0, <2>2, ConnAssumption DEF Disconnect
  <2>3. ASSUME NEW i \in Instance, NEW c \in Conn, NEW r \in Record, Commit(i, c, r)
        PROVE  i # t
    BY <2>0, <2>3 DEF Commit, CommitCode
  <2>4. ASSUME NEW i \in Instance, NEW c \in Conn, NEW final \in 0 .. MaxCaptureSeq,
               CloseStream(i, c, final)
        PROVE  i # t
    BY <2>0, <2>4 DEF CloseStream, CloseCode
  <2>5. ASSUME NEW i \in Instance, NEW c \in Conn,
               \/ Attach(i, c) \/ Disconnect(i, c)
               \/ \E r \in Record : Commit(i, c, r)
               \/ \E final \in 0 .. MaxCaptureSeq : CloseStream(i, c, final)
        PROVE  stream'[t] = stream[t] /\ rows'[t] = rows[t]
    <3>1. i # t
      BY <2>1, <2>2, <2>3, <2>4, <2>5
    <3> QED
      BY <1>1, <2>5, <3>1 DEF Attach, Disconnect, Commit, CloseStream, TypeOK
  <2>6. ASSUME NEW i \in Instance, AbandonCandidate(i)
        PROVE  stream'[t] = stream[t] /\ rows'[t] = rows[t]
    BY <1>1, <2>0, <2>6 DEF AbandonCandidate, Detached, TypeOK
  <2>7. ASSUME NEW elapsed \in SUBSET Instance, StartPass(elapsed)
        PROVE  stream'[t] = stream[t] /\ rows'[t] = rows[t]
    BY <2>7 DEF StartPass
  <2>8. CASE Restart
    BY <1>1, <2>0, <2>8 DEF Restart, TypeOK
  <2>9. CASE UNCHANGED streamVars
    BY <2>9 DEF streamVars
  <2> QED
    BY <1>1, <2>5, <2>6, <2>7, <2>8, <2>9 DEF StreamNext
<1>2. TypeOK /\ TerminalReceipt /\ [StreamNext]_streamVars
        => [\A i \in Instance : Terminal(i) =>
              stream'[i] = stream[i] /\ rows'[i] = rows[i]]_streamVars
  BY <1>1
<1> QED
  BY <1>2, TypeCorrect, ReceiptsExact, PTL DEF StreamSpec, TerminalIsFrozen

-----------------------------------------------------------------------------
(* Committed history *)

\* Appending keeps the sequence as a prefix.
LEMMA AppendKeepsPrefix ==
  ASSUME NEW S, NEW s \in Seq(S), NEW e \in S
  PROVE  Len(s) <= Len(Append(s, e)) /\ SubSeq(Append(s, e), 1, Len(s)) = s
<1>1. /\ Append(s, e) \in Seq(S)
      /\ Len(Append(s, e)) = Len(s) + 1
      /\ \A k \in 1 .. Len(s) : Append(s, e)[k] = s[k]
      /\ Len(s) \in Nat
  OBVIOUS
<1>2. /\ SubSeq(Append(s, e), 1, Len(s)) \in Seq(S)
      /\ Len(SubSeq(Append(s, e), 1, Len(s))) = Len(s)
      /\ \A k \in 1 .. Len(s) : SubSeq(Append(s, e), 1, Len(s))[k] = s[k]
  BY <1>1, SubSeqProperties
<1> QED
  BY <1>1, <1>2, SeqEqual

\* Cursors never move back, records are never replaced and the ledger is only
\* appended to, whatever the order of the operations.
THEOREM HistoryGrows == StreamSpec => HistoryOnlyGrows
<1> DEFINE Grows == /\ \A i \in Instance : /\ stream[i].next <= stream'[i].next
                                           /\ rows[i] \subseteq rows'[i]
                    /\ Len(events) <= Len(events')
                    /\ SubSeq(events', 1, Len(events)) = events
<1>1. ASSUME TypeOK, [StreamNext]_streamVars
      PROVE  Grows
  <2>0. /\ stream \in [Instance -> StreamType]
        /\ \A i \in Instance : stream[i].next \in Nat
        /\ rows \in [Instance -> SUBSET Record]
        /\ events \in Seq(EventType)
    BY <1>1, MaxCaptureAssumption DEF TypeOK, StreamType
  <2>1. ASSUME \/ events' = events
               \/ \E e \in EventType : events' = Append(events, e)
        PROVE  Len(events) <= Len(events') /\ SubSeq(events', 1, Len(events)) = events
    <3>1. CASE events' = events
      <4>1. Len(events) \in Nat /\ SubSeq(events, 1, Len(events)) = events
        BY <2>0, SubSeqFull
      <4> QED
        BY <3>1, <4>1
    <3>2. ASSUME NEW e \in EventType, events' = Append(events, e)
          PROVE  Len(events) <= Len(events') /\ SubSeq(events', 1, Len(events)) = events
      BY <2>0, <3>2, AppendKeepsPrefix
    <3> QED
      BY <2>1, <3>1, <3>2
  <2>2. ASSUME NEW i \in Instance, NEW c \in Conn, Attach(i, c) \/ Disconnect(i, c)
        PROVE  Grows
    <3>1. ASSUME NEW j \in Instance
          PROVE  stream'[j].next = stream[j].next
      <4>1. stream[j] \in StreamType
        BY <2>0
      <4>2. CASE Attach(i, c)
        BY <2>0, <4>1, <4>2 DEF Attach, StreamType
      <4>3. CASE Disconnect(i, c)
        BY <2>0, <4>1, <4>3 DEF Disconnect, StreamType
      <4> QED
        BY <2>2, <4>2, <4>3
    <3> QED
      BY <2>0, <2>1, <2>2, <3>1 DEF Attach, Disconnect
  <2>3. ASSUME NEW i \in Instance, NEW c \in Conn, NEW r \in Record, Commit(i, c, r)
        PROVE  Grows
    <3>1. /\ r.first = stream[i].next
          /\ r.first <= r.last /\ r.first \in CaptureSeq /\ r.last \in CaptureSeq
          /\ r.kind \in {"observation", "gap"}
      BY <2>3, RecordFields DEF Commit, CommitCode
    <3>2. \A j \in Instance : stream[j].next <= stream'[j].next /\ rows[j] \subseteq rows'[j]
      BY <2>0, <2>3, <3>1, MaxCaptureAssumption DEF Commit, StreamType, CaptureSeq
    <3>3. RawEvent(i, r) \in EventType
      BY <3>1, MaxCaptureAssumption DEF RawEvent, EventType, CaptureSeq
    <3> QED
      BY <2>1, <2>3, <3>2, <3>3 DEF Commit
  <2>4. ASSUME NEW i \in Instance, NEW c \in Conn, NEW final \in 0 .. MaxCaptureSeq,
               CloseStream(i, c, final)
        PROVE  Grows
    <3>1. \A j \in Instance : stream'[j].next = stream[j].next
      BY <2>0, <2>4 DEF CloseStream, StreamType
    <3> QED
      BY <2>0, <2>1, <2>4, <3>1 DEF CloseStream
  <2>5. ASSUME NEW elapsed \in SUBSET Instance, StartPass(elapsed)
        PROVE  Grows
    BY <2>0, <2>1, <2>5 DEF StartPass
  <2>6. ASSUME NEW i \in Instance, AbandonCandidate(i)
        PROVE  Grows
    <3>1. \A j \in Instance : stream'[j].next = stream[j].next
      BY <2>0, <2>6 DEF AbandonCandidate, StreamType
    <3>2. UnknownGap(i) \in EventType
      BY <2>0, MaxCaptureAssumption DEF UnknownGap, EventType, StreamType
    <3>3. events' = events \/ events' = Append(events, UnknownGap(i))
      BY <2>6 DEF AbandonCandidate
    <3> QED
      BY <2>0, <2>1, <2>6, <3>1, <3>2, <3>3 DEF AbandonCandidate
  <2>7. CASE Restart
    <3>1. \A j \in Instance : stream'[j].next = stream[j].next
      BY <2>0, <2>7 DEF Restart, StreamType
    <3> QED
      BY <2>0, <2>1, <2>7, <3>1 DEF Restart
  <2>8. CASE UNCHANGED streamVars
    BY <2>0, <2>1, <2>8 DEF streamVars
  <2> QED
    BY <1>1, <2>2, <2>3, <2>4, <2>5, <2>6, <2>7, <2>8 DEF StreamNext
<1>2. TypeOK /\ [StreamNext]_streamVars
        => [/\ \A i \in Instance : stream[i].next <= stream'[i].next /\ rows[i] \subseteq rows'[i]
            /\ Len(events) <= Len(events')
            /\ SubSeq(events', 1, Len(events)) = events]_streamVars
  BY <1>1
<1> QED
  BY <1>2, TypeCorrect, PTL DEF StreamSpec, HistoryOnlyGrows

-----------------------------------------------------------------------------
(* Plugin and daemon together *)

\* The part of the bridge's state that can reach a request.
BridgeTyped ==
    /\ inst \in Instance
    /\ nextCap \in 1 .. (MaxCaptureSeq + 1)
    /\ queue \in Seq(CaptureSeq)
    /\ gaps \in Seq(GapRecord)
    /\ head \in 0 .. MaxCaptureSeq
    /\ retained \in Record \cup {NoRecord}
    /\ finalCap \in 0 .. MaxCaptureSeq
    /\ goal \in {"select", "commit", "close"}
    /\ pc = "claim" => gaps # << >>

Typed == BridgeTyped /\ TypeOK /\ conn \in [Conn -> ConnType]

-----------------------------------------------------------------------------
(* Records *)

\* A gap with its ends in order is a gap record.
LEMMA GapInRecord ==
  ASSUME NEW m \in CaptureSeq, NEW n \in CaptureSeq, m <= n
  PROVE  Gap(m, n) \in GapRecord
BY DEF Gap, GapRecord

\* An observation is a record.
LEMMA ObservationInRecord ==
  ASSUME NEW n \in CaptureSeq
  PROVE  Observation(n) \in Record
BY DEF Record

\* Publishing the next capture as a gap keeps the spans well formed, whether
\* the last span is extended or a new one begins.
LEMMA GapsWithTyped ==
  ASSUME NEW n \in CaptureSeq, gaps \in Seq(GapRecord)
  PROVE  GapsWith(n) \in Seq(GapRecord) /\ GapsWith(n) # << >>
<1> DEFINE k == Len(gaps)
<1>1. CASE k > 0 /\ gaps[k].last + 1 = n
  <2>1. k \in 1 .. Len(gaps) /\ gaps[k] \in GapRecord
    BY <1>1
  <2>2. gaps[k].first \in CaptureSeq /\ gaps[k].last \in CaptureSeq
        /\ gaps[k].first <= gaps[k].last /\ gaps[k].kind = "gap"
    BY <2>1 DEF GapRecord
  <2>3. gaps[k].first <= n
    BY <1>1, <2>2, MaxCaptureAssumption DEF CaptureSeq
  <2>4. [gaps[k] EXCEPT !.last = n] \in GapRecord
    BY <2>1, <2>2, <2>3 DEF GapRecord
  <2>5. [gaps EXCEPT ![k] = [gaps[k] EXCEPT !.last = n]] \in Seq(GapRecord)
        /\ Len([gaps EXCEPT ![k] = [gaps[k] EXCEPT !.last = n]]) = Len(gaps)
    BY <2>1, <2>4, ExceptSeq
  <2> QED
    BY <1>1, <2>5 DEF GapsWith
<1>2. CASE ~(k > 0 /\ gaps[k].last + 1 = n)
  <2>1. Gap(n, n) \in GapRecord
    BY GapInRecord, MaxCaptureAssumption DEF CaptureSeq
  <2> QED
    BY <1>2, <2>1, AppendProperties DEF GapsWith
<1> QED
  BY <1>1, <1>2

-----------------------------------------------------------------------------
(* The bridge *)

\* Callbacks keep the plugin typed.
LEMMA CallbackTyped ==
  ASSUME BridgeTyped, CallbackNext
  PROVE  BridgeTyped'
<1> USE DEF BridgeTyped
<1>1. ASSUME PublishGap, UNCHANGED <<inst, head, retained, attempted, closeVars, workerVars>>
      PROVE  BridgeTyped'
  <2>1. nextCap \in CaptureSeq /\ nextCap' \in 1 .. (MaxCaptureSeq + 1)
    BY <1>1, MaxCaptureAssumption DEF PublishGap, Reserve, CaptureSeq
  <2>2. gaps' \in Seq(GapRecord) /\ gaps' # << >>
    BY <1>1, <2>1, GapsWithTyped DEF PublishGap
  <2> QED
    BY <1>1, <2>1, <2>2 DEF PublishGap, closeVars, workerVars
<1>2. ASSUME PublishObservation,
             UNCHANGED <<inst, head, retained, attempted, closeVars, workerVars>>
      PROVE  BridgeTyped'
  <2>1. nextCap \in CaptureSeq /\ nextCap' \in 1 .. (MaxCaptureSeq + 1)
    BY <1>2, MaxCaptureAssumption DEF PublishObservation, Reserve, CaptureSeq
  <2>2. queue' \in Seq(CaptureSeq)
    BY <1>2, <2>1 DEF PublishObservation
  <2> QED
    BY <1>2, <2>1, <2>2 DEF PublishObservation, closeVars, workerVars
<1>3. CASE CaptureLate
  BY <1>3 DEF CaptureLate, captureVars, closeVars, workerVars
<1>4. CASE RequestClose
  BY <1>4 DEF RequestClose, captureVars, workerVars
<1> QED
  BY <1>1, <1>2, <1>3, <1>4 DEF CallbackNext, Capture, CaptureInvalid

\* Steps of the worker without a call keep the plugin typed.
LEMMA LocalTyped ==
  ASSUME BridgeTyped, LocalNext
  PROVE  BridgeTyped'
<1> USE DEF BridgeTyped, Go
<1>1. CASE SelectHead
  <2>1. CASE retained # NoRecord
    BY <1>1, <2>1 DEF SelectHead, closeVars
  <2>2. CASE retained = NoRecord
    <3>1. /\ queue' \in Seq(CaptureSeq)
          /\ head' \in 0 .. MaxCaptureSeq
      <4>1. CASE head = 0 /\ queue # << >>
        <5>1. Head(queue) \in CaptureSeq /\ Tail(queue) \in Seq(CaptureSeq)
          BY <4>1, HeadTailProperties
        <5>2. head' = Head(queue) /\ queue' = Tail(queue)
          BY <1>1, <2>2, <4>1 DEF SelectHead
        <5> QED
          BY <5>1, <5>2, MaxCaptureAssumption DEF CaptureSeq
      <4>2. CASE ~(head = 0 /\ queue # << >>)
        BY <1>1, <2>2, <4>2 DEF SelectHead
      <4> QED
        BY <4>1, <4>2
    <3> QED
      BY <1>1, <2>2, <3>1 DEF SelectHead, closeVars
  <2> QED
    BY <2>1, <2>2
<1>2. CASE ReadFirstGap
  <2>1. CASE GapComesFirst
    BY <1>2, <2>1 DEF ReadFirstGap, GapComesFirst, captureVars, closeVars
  <2>2. CASE ~GapComesFirst /\ head # 0
    <3>1. head \in CaptureSeq
      BY <2>2, MaxCaptureAssumption DEF CaptureSeq
    <3>2. Observation(head) \in Record
      BY <3>1, ObservationInRecord
    <3> QED
      BY <1>2, <2>2, <3>2, MaxCaptureAssumption DEF ReadFirstGap, captureVars, closeVars
  <2>3. CASE ~GapComesFirst /\ head = 0
    BY <1>2, <2>3 DEF ReadFirstGap, captureVars, closeVars
  <2> QED
    BY <2>1, <2>2, <2>3
<1>3. CASE ClaimFirstGap
  <2>1. Head(gaps) \in GapRecord /\ Tail(gaps) \in Seq(GapRecord)
    BY <1>3, HeadTailProperties DEF ClaimFirstGap
  <2>2. retained' \in Record
    BY <1>3, <2>1 DEF ClaimFirstGap, Record
  <2> QED
    BY <1>3, <2>1, <2>2 DEF ClaimFirstGap, closeVars
<1>4. CASE Deliver
  BY <1>4 DEF Deliver, captureVars, closeVars
<1>5. CASE SealAndClose
  <2>1. finalCap' \in 0 .. MaxCaptureSeq
    BY <1>5, MaxCaptureAssumption DEF SealAndClose
  <2> QED
    BY <1>5, <2>1 DEF SealAndClose, captureVars
<1>6. CASE Idle
  BY <1>6 DEF Idle, captureVars, closeVars
<1> QED
  BY <1>1, <1>2, <1>3, <1>4, <1>5, <1>6 DEF LocalNext

\* Whatever the worker makes of an answer.
LEMMA AnswerTyped ==
  ASSUME BridgeTyped,
         \/ \E next : AttachAccepted(next)
         \/ FrameAccepted
         \/ CommitAccepted
         \/ CloseAccepted
         \/ CallFailed
         \/ \E fresh \in Instance : Rotate(fresh)
  PROVE  BridgeTyped'
<1> USE DEF BridgeTyped, Go, captureVars, closeVars
<1>1. ASSUME NEW next, AttachAccepted(next)
      PROVE  BridgeTyped'
  BY <1>1 DEF AttachAccepted
<1>2. CASE FrameAccepted
  BY <1>2 DEF FrameAccepted
<1>3. CASE CommitAccepted
  BY <1>3 DEF CommitAccepted
<1>4. CASE CloseAccepted
  BY <1>4 DEF CloseAccepted
<1>5. CASE CallFailed
  BY <1>5 DEF CallFailed
<1>6. ASSUME NEW fresh \in Instance, Rotate(fresh)
      PROVE  BridgeTyped'
  <2>1. /\ queue' = << >> /\ gaps' = << >> /\ head' = 0 /\ retained' = NoRecord
        /\ finalCap' = 0 /\ nextCap' = 1 /\ inst' = fresh /\ goal' = goal
        /\ pc' = "select"
    BY <1>6 DEF Rotate, EmptyBuffers, BreakSeal
  <2> QED
    BY <2>1, MaxCaptureAssumption
<1> QED
  BY <1>1, <1>2, <1>3, <1>4, <1>5, <1>6

-----------------------------------------------------------------------------
(* The connections *)

\* Requests built from a typed plugin are typed.
LEMMA RequestTyped ==
  ASSUME BridgeTyped, NEW op \in Operation
  PROVE  Request(op) \in RequestType
<1>1. (IF op = "commit" THEN retained ELSE NoRecord) \in Record \cup {NoRecord}
  BY DEF BridgeTyped
<1>2. (IF op \in {"close", "recover"} THEN finalCap ELSE 0) \in 0 .. MaxCaptureSeq
  BY MaxCaptureAssumption DEF BridgeTyped
<1> QED
  BY <1>1, <1>2 DEF BridgeTyped, Request, RequestType

\* The empty reply, request and connection are typed.
LEMMA ReplyTypes ==
  /\ NoReply \in ReplyType
  /\ NoRequest \in RequestType
  /\ FreeConn \in ConnType
BY MaxCaptureAssumption DEF NoReply, ReplyType, NoRequest, RequestType, FreeConn, ConnType

\* Sending a request keeps the connections typed.
LEMMA SendTyped ==
  ASSUME BridgeTyped, conn \in [Conn -> ConnType], NEW c, NEW op \in Operation, Send(c, op)
  PROVE  conn' \in [Conn -> ConnType]
<1>1. Request(op) \in RequestType /\ NoReply \in ReplyType
  BY RequestTyped, ReplyTypes
<1> QED
  BY <1>1 DEF Send, ConnType

\* Hanging up keeps the connections typed.
LEMMA HangUpTyped ==
  ASSUME conn \in [Conn -> ConnType], NEW c, HangUp(c)
  PROVE  conn' \in [Conn -> ConnType]
<1>1. FreeConn \in ConnType /\ NoReply \in ReplyType
  BY ReplyTypes
<1> QED
  BY <1>1 DEF HangUp, ConnType

\* Answering a request keeps the connections typed.
LEMMA ReplyTyped ==
  ASSUME conn \in [Conn -> ConnType], NEW c \in Conn, NEW code \in Code,
         NEW next \in 0 .. (MaxCaptureSeq + 1), NEW bound \in SUBSET Instance,
         Reply(c, code, next, bound)
  PROVE  conn' \in [Conn -> ConnType]
<1>1. /\ NoRequest \in RequestType
      /\ (IF conn[c].phase = "open" THEN [code |-> code, next |-> next] ELSE NoReply)
            \in ReplyType
  BY ReplyTypes DEF ReplyType
<1> DEFINE rep == IF conn[c].phase = "open" THEN [code |-> code, next |-> next] ELSE NoReply
           answered == [conn[c] EXCEPT !.req = NoRequest, !.bound = bound, !.rep = rep]
<1>2. rep \in ReplyType
  BY <1>1
<1>3. conn' = [conn EXCEPT ![c] = answered]
  BY DEF Reply
<1> HIDE DEF rep
<1>4. answered \in ConnType
  BY <1>1, <1>2 DEF ConnType
<1> HIDE DEF answered
<1> QED
  BY <1>3, <1>4

\* The outcomes of a commit.
LEMMA CommitCodeTyped ==
  ASSUME NEW i, NEW c, NEW r
  PROVE  CommitCode(i, c, r) \in Code \cup {"duplicate"}
BY Zenon DEF CommitCode, Code

-----------------------------------------------------------------------------
(* The steps of the composition *)

Step == BridgeTyped' /\ conn' \in [Conn -> ConnType] /\ [StreamNext]_streamVars

\* A callback leaves the store alone.
LEMMA CallbackStep ==
  ASSUME Typed, CallbackNext, UNCHANGED <<streamVars, conn, up, faults>>
  PROVE  Step
BY CallbackTyped DEF Typed, Step

\* So does the worker.
LEMMA WorkerStepTyped ==
  ASSUME Typed, WorkerNext \/ TransportFails
  PROVE  Step
<1> USE DEF Typed
<1>1. CASE LocalNext /\ UNCHANGED <<streamVars, conn, up, faults>>
  BY <1>1, LocalTyped DEF Step
<1>2. CASE Connect
  <2>1. Request("attach") \in RequestType /\ NoReply \in ReplyType
    BY RequestTyped, ReplyTypes DEF Operation
  <2>2. conn' \in [Conn -> ConnType]
    BY <1>2, <2>1 DEF Connect, ConnType
  <2>3. BridgeTyped'
    BY <1>2 DEF Connect, BridgeTyped, captureVars, closeVars
  <2> QED
    BY <1>2, <2>2, <2>3 DEF Connect, Step
<1>3. CASE ConnectRefused
  BY <1>3, AnswerTyped DEF ConnectRefused, Step
<1>4. CASE CallNext
  <2>1. ASSUME NEW at, NEW op \in Operation, NEW then, then # "claim", Call(at, op, then)
        PROVE  Step
    <3>1. conn' \in [Conn -> ConnType]
      BY <2>1, SendTyped DEF Call
    <3>2. BridgeTyped'
      BY <2>1 DEF Call, Go, BridgeTyped, captureVars, closeVars
    <3> QED
      BY <2>1, <3>1, <3>2 DEF Call, Step
  <2> QED
    BY <1>4, <2>1 DEF CallNext, Operation
<1>5. CASE ReadAnswer
  <2>1. UNCHANGED streamVars
    BY <1>5 DEF ReadAnswer
  <2>2. CASE RpcFailed
    <3>1. ASSUME NEW fresh \in Instance, Rotate(fresh), HangUp(link)
          PROVE  BridgeTyped' /\ conn' \in [Conn -> ConnType]
      BY <3>1, AnswerTyped, HangUpTyped
    <3>2. ASSUME Send(link, "recover"), Go("recovering"),
                 UNCHANGED <<inst, captureVars, head, retained, attempted, closeVars, health>>
          PROVE  BridgeTyped' /\ conn' \in [Conn -> ConnType]
      <4>1. BridgeTyped'
        BY <3>2 DEF Go, BridgeTyped, captureVars, closeVars
      <4> QED
        BY <3>2, <4>1, SendTyped DEF Operation
    <3>3. ASSUME CallFailed, HangUp(link)
          PROVE  BridgeTyped' /\ conn' \in [Conn -> ConnType]
      BY <3>3, AnswerTyped, HangUpTyped
    <3> QED
      BY <2>1, <2>2, <3>1, <3>2, <3>3 DEF RpcFailed, Step
  <2>3. ASSUME Consume
        PROVE  conn' \in [Conn -> ConnType]
    BY <2>3, ReplyTypes DEF Consume, ConnType
  <2>4. CASE ~RpcFailed
    <3>1. BridgeTyped'
      BY <1>5, <2>4, AnswerTyped DEF ReadAnswer
    <3>2. conn' \in [Conn -> ConnType]
      BY <1>5, <2>3, <2>4, HangUpTyped DEF ReadAnswer
    <3> QED
      BY <2>1, <3>1, <3>2 DEF Step
  <2> QED
    BY <2>2, <2>4
<1>6. CASE PeerGone
  BY <1>6, AnswerTyped, HangUpTyped DEF PeerGone, Step
<1>7. CASE Finish
  <2>1. BridgeTyped'
    BY <1>7 DEF Finish, Stop, BridgeTyped, captureVars, closeVars
  <2> QED
    BY <1>7, <2>1, HangUpTyped DEF Finish, Step
<1>8. CASE TransportFails
  BY <1>8, AnswerTyped, HangUpTyped DEF TransportFails, Step
<1> QED
  BY <1>1, <1>2, <1>3, <1>4, <1>5, <1>6, <1>7, <1>8 DEF WorkerNext

\* Steps of the daemon leave the plugin alone.
LEMMA BridgeUntouched ==
  ASSUME BridgeTyped, UNCHANGED bridgeVars
  PROVE  BridgeTyped'
BY DEF BridgeTyped, bridgeVars, captureVars, closeVars, workerVars

\* A request that is served changes the store as BridgeStream allows.
LEMMA ServeStep ==
  ASSUME Typed, NEW c \in Conn, Serve(c)
  PROVE  Step
<1> USE DEF Typed
<1> DEFINE req == conn[c].req
           bound == conn[c].bound
<1>1. BridgeTyped'
  BY BridgeUntouched DEF Serve
<1>2. bound \in SUBSET Instance /\ req \in RequestType
  BY DEF ConnType
<1>3. 0 \in 0 .. (MaxCaptureSeq + 1)
  BY MaxCaptureAssumption
<1>4. \A i \in Instance : stream[i].next \in 1 .. (MaxCaptureSeq + 1)
                         /\ stream[i].next \in 0 .. (MaxCaptureSeq + 1)
  BY MaxCaptureAssumption DEF TypeOK, StreamType
<1>5. req.op # "none" =>
        /\ req.inst \in Instance
        /\ req.rec \in Record \cup {NoRecord}
        /\ req.final \in 0 .. MaxCaptureSeq
  BY <1>2 DEF RequestType, NoRequest
<1>6. CASE req.op = "attach" /\ ServeAttach(c, req.inst)
  <2>1. req.inst \in Instance
    BY <1>5, <1>6
  <2>2. AttachCode(req.inst, c) \in Code
    BY DEF AttachCode, Code
  <2>3. bound \cup {req.inst} \in SUBSET Instance
    BY <1>2, <2>1
  <2>4. CASE AttachCode(req.inst, c) = "ok"
    <3>1. Attach(req.inst, c) /\ Reply(c, "ok", stream[req.inst].next, bound \cup {req.inst})
      BY <1>6, <2>4 DEF ServeAttach
    <3>2. conn' \in [Conn -> ConnType]
      BY <1>4, <2>1, <2>3, <3>1, ReplyTyped DEF Code
    <3> QED
      BY <1>1, <2>1, <3>1, <3>2 DEF Step, StreamNext
  <2>5. CASE AttachCode(req.inst, c) # "ok"
    <3>1. Reply(c, AttachCode(req.inst, c), 0, bound) /\ UNCHANGED streamVars
      BY <1>6, <2>5 DEF ServeAttach
    <3>2. conn' \in [Conn -> ConnType]
      BY <1>2, <1>3, <2>2, <3>1, ReplyTyped
    <3> QED
      BY <1>1, <3>1, <3>2 DEF Step
  <2> QED
    BY <2>4, <2>5
<1>7. CASE req.op = "frame" /\ ServeFrame(c, req.inst)
  <2>1. PICK code \in Code : Reply(c, code, 0, bound)
    BY <1>7 DEF ServeFrame, Code
  <2>2. conn' \in [Conn -> ConnType]
    BY <1>2, <1>3, <2>1, ReplyTyped
  <2> QED
    BY <1>1, <1>7, <2>2 DEF ServeFrame, Step
<1>8. CASE req.op = "commit" /\ ServeCommit(c, req.inst, req.rec)
  <2> DEFINE code == CommitCode(req.inst, c, req.rec)
  <2>1. req.inst \in Instance /\ req.rec \in Record \cup {NoRecord}
    BY <1>5, <1>8
  <2>2. (IF code = "duplicate" THEN "ok" ELSE code) \in Code
    BY CommitCodeTyped DEF Code
  <2>3. conn' \in [Conn -> ConnType]
    BY <1>2, <1>3, <1>8, <2>2, ReplyTyped DEF ServeCommit
  <2>4. code = "ok" => req.rec \in Record
    <3>1. code = "ok" => req.rec.first = stream[req.inst].next
      BY DEF CommitCode
    <3>2. stream[req.inst].next # 0
      BY <1>4, <2>1
    <3> QED
      BY <2>1, <3>1, <3>2 DEF NoRecord
  <2>5. [StreamNext]_streamVars
    BY <1>8, <2>1, <2>4 DEF ServeCommit, StreamNext
  <2> QED
    BY <1>1, <2>3, <2>5 DEF Step
<1>9. CASE req.op = "close" /\ ServeClose(c, req.inst, req.final)
  <2>1. req.inst \in Instance /\ req.final \in 0 .. MaxCaptureSeq
    BY <1>5, <1>9
  <2>2. CloseCode(req.inst, c, req.final) \in Code
    BY DEF CloseCode, Code
  <2>3. conn' \in [Conn -> ConnType]
    BY <1>2, <1>3, <1>9, <2>2, ReplyTyped DEF ServeClose
  <2>4. [StreamNext]_streamVars
    BY <1>9, <2>1 DEF ServeClose, StreamNext
  <2> QED
    BY <1>1, <2>3, <2>4 DEF Step
<1>10. CASE req.op = "recover" /\ ServeRecover(c, req.inst, req.final)
  <2>1. RecoverCode(req.inst, req.final) \in Code
    BY DEF RecoverCode, Code
  <2>2. conn' \in [Conn -> ConnType]
    BY <1>2, <1>3, <1>10, <2>1, ReplyTyped DEF ServeRecover
  <2> QED
    BY <1>1, <1>10, <2>2 DEF ServeRecover, Step
<1> QED
  BY <1>6, <1>7, <1>8, <1>9, <1>10 DEF Serve

\* So do ends of connections, restarts and maintenance.
LEMMA DaemonStep ==
  ASSUME Typed, (\E c \in Conn : ServeEof(c)) \/ Reopen \/ Crash \/ Maintain
  PROVE  Step
<1> USE DEF Typed
<1>1. FreeConn \in ConnType
  BY ReplyTypes
<1>2. ASSUME NEW c \in Conn, ServeEof(c)
      PROVE  Step
  <2>1. conn' \in [Conn -> ConnType]
    BY <1>1, <1>2 DEF ServeEof
  <2>2. conn[c].bound \in SUBSET Instance
    BY DEF ConnType
  <2>3. [StreamNext]_streamVars
    BY <1>2, <2>2 DEF ServeEof, StreamNext
  <2> QED
    BY <1>2, <2>1, <2>3, BridgeUntouched DEF ServeEof, Step
<1>3. CASE Reopen
  BY <1>3, BridgeUntouched DEF Reopen, Step, StreamNext
<1>4. CASE Crash
  <2>1. ASSUME NEW c \in Conn
        PROVE  [FreeConn EXCEPT !.phase = "dead", !.rep = conn[c].rep] \in ConnType
    BY <1>1 DEF ConnType
  <2>2. conn' \in [Conn -> ConnType]
    BY <1>1, <1>4, <2>1 DEF Crash
  <2> QED
    BY <1>4, <2>2, BridgeUntouched DEF Crash, Step
<1>5. CASE Maintain
  <2>1. [StreamNext]_streamVars
    BY <1>5 DEF Maintain, StreamNext
  <2> QED
    BY <1>5, <2>1, BridgeUntouched DEF Maintain, Step
<1> QED
  BY <1>2, <1>3, <1>4, <1>5

-----------------------------------------------------------------------------
\* Everything is typed at the start.
LEMMA TypedInit == Init => Typed
<1> SUFFICES ASSUME Init PROVE Typed
  OBVIOUS
<1>1. TypeOK
  BY TypeInit DEF Init
<1>2. conn \in [Conn -> ConnType]
  BY ReplyTypes DEF Init
<1>3. BridgeTyped
  BY MaxCaptureAssumption DEF Init, BridgeInit, BridgeTyped
<1> QED
  BY <1>1, <1>2, <1>3 DEF Typed

\* Every step keeps it typed and is a step of the store or leaves it alone.
LEMMA TypedStep ==
  ASSUME Typed, [Next]_vars
  PROVE  Typed' /\ [StreamNext]_streamVars
<1>1. Step
  <2>1. CASE Next
    BY <2>1, CallbackStep, WorkerStepTyped, ServeStep, DaemonStep DEF Next, ServerNext
  <2>2. CASE UNCHANGED vars
    BY <2>2, BridgeUntouched DEF vars, Typed, Step
  <2> QED
    BY <2>1, <2>2
<1>2. TypeOK'
  BY <1>1, TypeStep DEF Typed, Step
<1> QED
  BY <1>1, <1>2 DEF Typed, Step

\* Whatever the plugin, the sockets, the crashes and the maintenance passes
\* do, the durable tables only take steps that BridgeStream offers: the
\* handlers of protocol/service.py never write a stream any other way.
THEOREM StoreImplemented == Spec => StoreSpec
<1>1. Init => Typed /\ StreamInit
  BY TypedInit DEF Init
<1>2. Typed /\ [Next]_vars => Typed' /\ [StreamNext]_streamVars
  BY TypedStep
<1> QED
  BY <1>1, <1>2, PTL DEF Spec, StoreSpec, StreamSpec

\* Hence, in the running system, the committed records of every stream cover
\* the captures before its cursor, each exactly once.
THEOREM DeliveredRecordsTile == Spec => []RowsTileCursor
BY StoreImplemented, RecordsTile, PTL DEF StoreSpec

-----------------------------------------------------------------------------
(* Where every capture is: the inductive invariant *)

\* What the worker is about at each step.
WorkerInv ==
    /\ link \in Conn \cup {NoConn}
    /\ pc \in {"gaps", "claim", "idle"} => retained = NoRecord
    /\ pc \in {"deliver", "commit", "committing"} => retained # NoRecord
    /\ pc \in {"connect", "attaching", "frame", "framing"} =>
          /\ goal = "commit" => retained # NoRecord
          /\ goal = "close" => sealed
    /\ pc \in {"close", "closing", "recovering"} => sealed
    /\ attempted => retained # NoRecord

Requesting == [attaching |-> "attach", framing |-> "frame", committing |-> "commit",
               closing |-> "close", recovering |-> "recover"]

\* The worker holds the one connection that is not hung up, and at most its own
\* request is on it; when the daemon died nothing is left to serve.
LinkInv ==
    /\ pc \in Waiting \cup {"commit", "frame", "close"} => link # NoConn
    /\ pc \in {"connect", "done"} => link = NoConn
    /\ \A c \in Conn :
          /\ conn[c].phase \in {"open", "dead"} <=> c = link
          /\ conn[c].phase = "open" => up
          /\ conn[c].phase = "dead" => \A d \in Conn : d # c => conn[d].req = NoRequest
          /\ conn[c].phase = "free" => conn[c].req = NoRequest
    /\ link # NoConn =>
          /\ pc \notin Waiting => conn[link].req = NoRequest /\ conn[link].rep = NoReply
          /\ conn[link].rep # NoReply => conn[link].req = NoRequest
          /\ conn[link].req # NoRequest => conn[link].req = Request(Requesting[pc])

\* What a request that is still on its way may do: to the current stream only what
\* the worker stands for.
RequestInv ==
    \A c \in Conn :
      LET req == conn[c].req
      IN req # NoRequest =>
           /\ req.inst = inst \/ stream[req.inst].status = "abandoned"
           /\ req.op = "commit" => req.rec # NoRecord
           /\ req.inst = inst /\ req.op = "close" => sealed
           /\ req.inst = inst /\ req.op = "commit" /\ stream[inst].nonce = c =>
                 attempted /\ retained = req.rec

\* What an answer on its way says is so, and an attached worker stays attached.
AnswerInv ==
    link # NoConn =>
      /\ conn[link].phase = "open" /\ (pc # "attaching" \/ Answer.code = "ok") =>
            stream[inst].nonce = link \/ Terminal(inst)
      /\ Answer.code = "bridge_abandoned" => stream[inst].status = "abandoned"
      /\ Answer.code = "bridge_clean_closed" => stream[inst].status = "clean_closed"
      /\ Answer.code = "ok" =>
            /\ pc = "attaching" => Answer.next = stream[inst].next
            /\ pc = "committing" => retained \in rows[inst]
            /\ pc \in {"closing", "recovering"} => stream[inst].status = "clean_closed"

KindOf(i, r) == \A n \in Covers(r) : n <= Len(captured[i]) /\ captured[i][n] = r.kind

\* One stream is current; the ones before it are abandoned and the others unused.
HistoryInv ==
    /\ captured \in [Instance -> Seq({"observation", "gap"})]
    /\ nextCap = Len(captured[inst]) + 1
    /\ \A i \in Instance :
          /\ i # inst => stream[i].status \in {"absent", "abandoned"}
          /\ i # inst /\ stream[i].status = "absent" => captured[i] = << >>
          /\ stream[i].status = "absent" => stream[i].next = 1 /\ rows[i] = {}
          /\ \A r \in rows[i] : KindOf(i, r)
    /\ stream[inst].status = "clean_closed" => sealed
    /\ sealed => NothingPending
    /\ stopped => stream[inst].status = "clean_closed"

Observed(n) == n < nextCap /\ stream[inst].next <= n /\ captured[inst][n] = "observation"

\* Capture n is on its way or in the ledger.
Placed(n) ==
    \/ \E k \in DOMAIN queue : queue[k] = n
    \/ head = n
    \/ \E k \in DOMAIN gaps : gaps[k].first <= n /\ n <= gaps[k].last
    \/ retained # NoRecord /\ retained.first <= n /\ n <= retained.last
    \/ n < stream[inst].next

\* Everything local is in order, each kind by itself, and ahead of the cursor.
LocalInv ==
    /\ \A k \in DOMAIN queue : Observed(queue[k])
    /\ \A j, k \in DOMAIN queue : j < k => queue[j] < queue[k]
    /\ head # 0 => Observed(head) /\ \A k \in DOMAIN queue : head < queue[k]
    /\ \A k \in DOMAIN gaps : stream[inst].next <= gaps[k].first /\ KindOf(inst, gaps[k])
    /\ \A j, k \in DOMAIN gaps : j < k => gaps[j].last < gaps[k].first
    /\ retained # NoRecord =>
          /\ KindOf(inst, retained)
          /\ stream[inst].next <= retained.first \/ (attempted /\ retained \in rows[inst])
          /\ retained.kind = "observation" =>
                /\ head # 0 => retained.first < head
                /\ \A k \in DOMAIN queue : retained.first < queue[k]
          /\ retained.kind = "gap" => \A k \in DOMAIN gaps : retained.last < gaps[k].first
    /\ \A n \in 1 .. nextCap - 1 : Placed(n)

Stored == Typed /\ RowsTileCursor /\ TerminalReceipt

DeliveryInv ==
    WorkerInv /\ LinkInv /\ RequestInv /\ AnswerInv /\ HistoryInv /\ LocalInv

-----------------------------------------------------------------------------
(* What the helpers of the composition do to a connection *)

\* A request sent is the only thing on its connection.
LEMMA SendFacts ==
  ASSUME conn \in [Conn -> ConnType], NEW c \in Conn, NEW op, Send(c, op)
  PROVE  /\ conn'[c].phase = conn[c].phase /\ conn'[c].bound = conn[c].bound
         /\ conn'[c].req = Request(op) /\ conn'[c].rep = NoReply
         /\ \A d \in Conn : d # c => conn'[d] = conn[d]
BY DEF Send, ConnType

\* A connection that is hung up keeps what is on its way to the daemon.
LEMMA HangUpFacts ==
  ASSUME conn \in [Conn -> ConnType], NEW c \in Conn, HangUp(c)
  PROVE  /\ conn[c].phase = "dead" => conn'[c] = FreeConn
         /\ conn[c].phase # "dead" =>
              /\ conn'[c].phase = "eof" /\ conn'[c].req = conn[c].req
              /\ conn'[c].rep = NoReply
         /\ \A d \in Conn : d # c => conn'[d] = conn[d]
BY DEF HangUp, ConnType

\* An answer read is gone.
LEMMA ConsumeFacts ==
  ASSUME conn \in [Conn -> ConnType], link \in Conn, Consume
  PROVE  /\ conn'[link].phase = conn[link].phase /\ conn'[link].req = conn[link].req
         /\ conn'[link].rep = NoReply
         /\ \A d \in Conn : d # link => conn'[d] = conn[d]
BY DEF Consume, ConnType

\* An answer takes the place of its request, unless the client has hung up.
LEMMA ReplyFacts ==
  ASSUME conn \in [Conn -> ConnType], NEW c \in Conn, NEW code, NEW next, NEW bound,
         Reply(c, code, next, bound)
  PROVE  /\ conn'[c].phase = conn[c].phase /\ conn'[c].req = NoRequest
         /\ conn[c].phase = "open" => conn'[c].rep = [code |-> code, next |-> next]
         /\ \A d \in Conn : d # c => conn'[d] = conn[d]
BY DEF Reply, ConnType

-----------------------------------------------------------------------------
(* Callbacks *)

\* What is known of the bridge's data.
LEMMA LocalTypes ==
  ASSUME Typed
  PROVE  /\ inst \in Instance /\ nextCap \in Nat /\ head \in Nat
         /\ \A k \in DOMAIN queue : queue[k] \in Nat /\ queue[k] > 0
         /\ DOMAIN queue = 1 .. Len(queue) /\ Len(queue) \in Nat
         /\ DOMAIN gaps = 1 .. Len(gaps) /\ Len(gaps) \in Nat
         /\ \A k \in DOMAIN gaps :
               /\ gaps[k].kind = "gap" /\ gaps[k].first \in Nat /\ gaps[k].last \in Nat
               /\ 0 < gaps[k].first /\ gaps[k].first <= gaps[k].last
         /\ retained # NoRecord =>
               /\ retained \in Record /\ retained.kind \in {"observation", "gap"}
               /\ retained.first \in Nat /\ retained.last \in Nat
               /\ 0 < retained.first /\ retained.first <= retained.last
         /\ \A i \in Instance : stream[i].next \in Nat /\ stream[i].next > 0
<1>1. ASSUME NEW k \in DOMAIN gaps
      PROVE  gaps[k] \in GapRecord
  BY DEF Typed, BridgeTyped
<1>2. \A i \in Instance : stream[i].next \in 1 .. (MaxCaptureSeq + 1)
  BY DEF Typed, TypeOK, StreamType
<1>3. retained # NoRecord => retained \in Record
  BY DEF Typed, BridgeTyped
<1>4. \A k \in DOMAIN queue : queue[k] \in CaptureSeq
  BY DEF Typed, BridgeTyped
<1>5. /\ DOMAIN queue = 1 .. Len(queue) /\ Len(queue) \in Nat
      /\ DOMAIN gaps = 1 .. Len(gaps) /\ Len(gaps) \in Nat
  BY DEF Typed, BridgeTyped
<1>6. \A k \in DOMAIN gaps :
               /\ gaps[k].kind = "gap" /\ gaps[k].first \in Nat /\ gaps[k].last \in Nat
               /\ 0 < gaps[k].first /\ gaps[k].first <= gaps[k].last
  BY <1>1, MaxCaptureAssumption DEF GapRecord, CaptureSeq
<1>7. retained # NoRecord =>
               /\ retained \in Record /\ retained.kind \in {"observation", "gap"}
               /\ retained.first \in Nat /\ retained.last \in Nat
               /\ 0 < retained.first /\ retained.first <= retained.last
  BY <1>3, RecordFields, MaxCaptureAssumption DEF CaptureSeq
<1> QED
  BY <1>2, <1>4, <1>5, <1>6, <1>7, MaxCaptureAssumption DEF Typed, BridgeTyped, CaptureSeq

\* A capture reserved is appended to the history of the current stream; what was
\* said of earlier captures stays true.
LEMMA ReserveFacts ==
  ASSUME inst \in Instance, HistoryInv, NEW kind \in {"observation", "gap"}, Reserve(kind)
  PROVE  /\ captured' \in [Instance -> Seq({"observation", "gap"})]
         /\ ~sealed /\ nextCap' = nextCap + 1
         /\ Len(captured[inst]) \in Nat /\ nextCap = Len(captured[inst]) + 1
         /\ Len(captured'[inst]) = Len(captured[inst]) + 1
         /\ captured'[inst][nextCap] = kind
         /\ \A n \in 1 .. Len(captured[inst]) : captured'[inst][n] = captured[inst][n]
         /\ \A i \in Instance : i # inst => captured'[i] = captured[i]
         /\ \A i \in Instance, r \in Record : KindOf(i, r) => KindOf(i, r)'
<1>1. captured[inst] \in Seq({"observation", "gap"})
  BY DEF HistoryInv
<1>2. captured'[inst] = Append(captured[inst], kind)
  BY DEF HistoryInv, Reserve
<1>3. /\ Append(captured[inst], kind) \in Seq({"observation", "gap"})
      /\ Len(Append(captured[inst], kind)) = Len(captured[inst]) + 1
      /\ Append(captured[inst], kind)[Len(captured[inst]) + 1] = kind
      /\ \A n \in 1 .. Len(captured[inst]) : Append(captured[inst], kind)[n] = captured[inst][n]
      /\ Len(captured[inst]) \in Nat
  BY <1>1, AppendProperties
<1>4. captured' \in [Instance -> Seq({"observation", "gap"})]
  BY <1>3 DEF HistoryInv, Reserve
<1>5. \A i \in Instance : i # inst => captured'[i] = captured[i]
  BY DEF HistoryInv, Reserve
<1>6. nextCap = Len(captured[inst]) + 1 /\ nextCap' = nextCap + 1 /\ ~sealed
  BY DEF HistoryInv, Reserve
<1>7. ASSUME NEW i \in Instance, NEW r \in Record, KindOf(i, r), NEW n \in Covers(r)
      PROVE  n <= Len(captured'[i]) /\ captured'[i][n] = r.kind
  <2>1. n \in Nat /\ n > 0
    BY RecordFields, MaxCaptureAssumption DEF Covers, CaptureSeq
  <2>2. n <= Len(captured[i]) /\ captured[i][n] = r.kind
    BY <1>7 DEF KindOf
  <2>3. CASE i = inst
    <3>1. n \in 1 .. Len(captured[inst])
      BY <2>1, <2>2, <2>3, <1>3
    <3> QED
      BY <3>1, <2>1, <2>2, <2>3, <1>2, <1>3
  <2>4. CASE i # inst
    BY <2>2, <2>4, <1>5
  <2> QED
    BY <2>3, <2>4
<1>8. \A i \in Instance, r \in Record : KindOf(i, r) => KindOf(i, r)'
  BY <1>7 DEF KindOf
<1> QED
  BY <1>2, <1>3, <1>4, <1>5, <1>6, <1>8

\* The gap published last covers the new capture; the others are as they were.
LEMMA GapsWithFacts ==
  ASSUME gaps \in Seq(GapRecord), NEW n \in CaptureSeq
  PROVE  LET G == GapsWith(n)
             k == Len(gaps)
         IN \/ /\ Len(G) = k + 1 /\ G[k + 1] = Gap(n, n)
               /\ \A j \in 1 .. k : G[j] = gaps[j]
            \/ /\ Len(G) = k /\ k > 0
               /\ gaps[k].last + 1 = n
               /\ G[k] = [gaps[k] EXCEPT !.last = n]
               /\ \A j \in 1 .. (k - 1) : G[j] = gaps[j]
<1> DEFINE k == Len(gaps)
<1>1. CASE k > 0 /\ gaps[k].last + 1 = n
  <2>1. GapsWith(n) = [gaps EXCEPT ![k] = [gaps[k] EXCEPT !.last = n]]
    BY <1>1 DEF GapsWith
  <2>2. k \in DOMAIN gaps /\ DOMAIN gaps = 1 .. k /\ k \in Nat
    BY <1>1
  <2>3. Len([gaps EXCEPT ![k] = [gaps[k] EXCEPT !.last = n]]) = k
    BY <2>2
  <2>4. GapsWith(n)[k] = [gaps[k] EXCEPT !.last = n]
    BY <2>1, <2>2
  <2>5. \A j \in 1 .. (k - 1) : GapsWith(n)[j] = gaps[j]
    BY <2>1, <2>2
  <2> QED
    BY <1>1, <2>1, <2>3, <2>4, <2>5
<1>2. CASE ~(k > 0 /\ gaps[k].last + 1 = n)
  <2>1. GapsWith(n) = Append(gaps, Gap(n, n))
    BY <1>2 DEF GapsWith
  <2>2. Gap(n, n) \in GapRecord
    BY GapInRecord, MaxCaptureAssumption DEF CaptureSeq
  <2> QED
    BY <2>1, <2>2, AppendProperties
<1> QED
  BY <1>1, <1>2

\* The daemon has committed nothing that was not captured.
LEMMA CursorBehind ==
  ASSUME Typed, RowsTileCursor, HistoryInv, NEW i \in Instance
  PROVE  stream[i].next <= Len(captured[i]) + 1
<1>1. stream[i].next \in Nat /\ stream[i].next > 0 /\ Len(captured[i]) \in Nat
  BY LocalTypes DEF HistoryInv
<1>2. CASE stream[i].next = 1
  BY <1>1, <1>2
<1>3. CASE stream[i].next > 1
  <2> DEFINE n == stream[i].next - 1
  <2>1. n \in 1 .. (stream[i].next - 1)
    BY <1>1, <1>3
  <2>2. PICK r \in rows[i] : n \in Covers(r)
    BY <2>1 DEF RowsTileCursor, Tiles
  <2>3. n <= Len(captured[i])
    BY <2>2 DEF HistoryInv, KindOf
  <2> QED
    BY <1>1, <2>3
<1> QED
  BY <1>1, <1>2, <1>3

\* What does not move the worker, its connection or the store leaves the four
\* invariants of the calls as they were.
LEMMA CallsFramed ==
  ASSUME WorkerInv, LinkInv, RequestInv, AnswerInv,
         UNCHANGED <<inst, retained, attempted, finalCap, sealed, pc, goal, link, conn, up,
                     stream, rows>>
  PROVE  WorkerInv' /\ LinkInv' /\ RequestInv' /\ AnswerInv'
<1>1. WorkerInv'
  BY DEF WorkerInv
<1>2. LinkInv'
  BY DEF LinkInv, Request
<1>3. RequestInv'
  BY DEF RequestInv
<1>4. AnswerInv'
  BY DEF AnswerInv, Answer, Terminal
<1> QED
  BY <1>1, <1>2, <1>3, <1>4

\* A capture extends the history of the current stream.
LEMMA CaptureHistory ==
  ASSUME Stored, HistoryInv, NEW kind \in {"observation", "gap"}, Reserve(kind),
         UNCHANGED <<inst, sealed, stopped, stream, rows>>
  PROVE  HistoryInv'
<1>1. inst \in Instance /\ rows \in [Instance -> SUBSET Record]
  BY LocalTypes DEF Stored, Typed, TypeOK
<1>2. /\ captured' \in [Instance -> Seq({"observation", "gap"})]
      /\ nextCap' = Len(captured'[inst]) + 1
      /\ ~sealed'
      /\ \A i \in Instance : i # inst => captured'[i] = captured[i]
      /\ \A i \in Instance, r \in Record : KindOf(i, r) => KindOf(i, r)'
  BY <1>1, ReserveFacts
<1>3. \A i \in Instance : \A r \in rows'[i] : KindOf(i, r)'
  BY <1>1, <1>2 DEF HistoryInv
<1> QED
  BY <1>1, <1>2, <1>3 DEF HistoryInv

\* An observation goes to the end of the queue, after every other capture.
LEMMA ObservationLocal ==
  ASSUME Stored, HistoryInv, LocalInv, PublishObservation,
         UNCHANGED <<inst, head, retained, attempted, stream, rows>>
  PROVE  LocalInv'
<1> DEFINE next == stream[inst].next
<1>0. inst \in Instance /\ queue \in Seq(CaptureSeq)
  BY DEF Stored, Typed, BridgeTyped
<1>1. /\ next \in Nat /\ nextCap \in Nat /\ head \in Nat
      /\ \A k \in DOMAIN queue : queue[k] \in Nat
      /\ Len(queue) \in Nat /\ DOMAIN queue = 1 .. Len(queue)
      /\ \A k \in DOMAIN gaps : gaps[k] \in Record
      /\ retained # NoRecord => retained \in Record /\ retained.first \in Nat
                                 /\ retained.last \in Nat /\ retained.first <= retained.last
  BY <1>0, LocalTypes DEF Stored, Typed, BridgeTyped, Record
<1>2. next <= nextCap
  BY <1>0, CursorBehind DEF Stored, HistoryInv
<1>3. /\ nextCap' = nextCap + 1
      /\ captured'[inst][nextCap] = "observation"
      /\ \A n \in 1 .. nextCap - 1 : captured'[inst][n] = captured[inst][n]
      /\ \A r \in Record : KindOf(inst, r) => KindOf(inst, r)'
  BY <1>0, ReserveFacts DEF PublishObservation
<1>4. nextCap \in CaptureSeq
  BY <1>1, MaxCaptureAssumption DEF PublishObservation, Reserve, CaptureSeq, Stored, Typed, BridgeTyped
<1>5. /\ queue' = Append(queue, nextCap) /\ DOMAIN queue' = 1 .. (Len(queue) + 1)
      /\ queue'[Len(queue) + 1] = nextCap
      /\ \A k \in 1 .. Len(queue) : queue'[k] = queue[k]
  BY <1>0, <1>4, AppendProperties DEF PublishObservation
<1>6. gaps' = gaps
  BY DEF PublishObservation
<1>7. /\ stream'[inst'].next = next /\ inst' = inst /\ head' = head /\ retained' = retained
      /\ attempted' = attempted /\ rows' = rows
  OBVIOUS
<1>8. \A n \in Nat : n > 0 /\ Observed(n) => Observed(n)'
  BY <1>1, <1>3, <1>7 DEF Observed
<1>9. \A k \in DOMAIN queue : Observed(queue[k]) /\ queue[k] < nextCap /\ queue[k] > 0
  BY LocalTypes DEF LocalInv, Observed, Stored
<1>10. \A k \in DOMAIN queue' : Observed(queue[k])'
  <2> SUFFICES ASSUME NEW k \in DOMAIN queue'
               PROVE  Observed(queue[k])'
    OBVIOUS
  <2>1. CASE k \in 1 .. Len(queue)
    BY <1>1, <1>3, <1>5, <1>7, <1>9, <2>1 DEF Observed
  <2>2. CASE k = Len(queue) + 1
    BY <1>1, <1>2, <1>3, <1>5, <1>7, <2>2 DEF Observed
  <2> QED
    BY <1>1, <1>5, <2>1, <2>2
<1>11. \A j, k \in DOMAIN queue' : j < k => queue'[j] < queue'[k]
  BY <1>1, <1>5, <1>9 DEF LocalInv
<1>12. head' # 0 => Observed(head)' /\ \A k \in DOMAIN queue' : head' < queue'[k]
  <2>1. head # 0 => Observed(head) /\ head < nextCap /\ \A k \in DOMAIN queue : head < queue[k]
    BY DEF LocalInv, Observed
  <2>2. head # 0 => Observed(head)'
    BY <1>1, <1>3, <1>7, <2>1 DEF Observed
  <2> QED
    BY <1>1, <1>5, <1>7, <2>1, <2>2
<1>13. /\ \A k \in DOMAIN gaps' : stream'[inst'].next <= gaps'[k].first /\ KindOf(inst, gaps[k])'
       /\ \A j, k \in DOMAIN gaps' : j < k => gaps'[j].last < gaps'[k].first
  <2>1. \A k \in DOMAIN gaps : KindOf(inst, gaps[k])'
    BY <1>1, <1>3, <1>6, <1>7 DEF LocalInv, KindOf
  <2> QED
    BY <1>6, <1>7, <2>1 DEF LocalInv
<1>14. retained' # NoRecord =>
          /\ KindOf(inst, retained)'
          /\ stream'[inst'].next <= retained'.first \/ (attempted' /\ retained' \in rows'[inst'])
          /\ retained'.kind = "observation" =>
                /\ head' # 0 => retained'.first < head'
                /\ \A k \in DOMAIN queue' : retained'.first < queue'[k]
          /\ retained'.kind = "gap" => \A k \in DOMAIN gaps' : retained'.last < gaps'[k].first
  <2> SUFFICES ASSUME retained # NoRecord
               PROVE  /\ KindOf(inst, retained)'
                      /\ \A k \in DOMAIN queue' :
                            retained.kind = "observation" => retained.first < queue'[k]
    BY <1>6, <1>7 DEF LocalInv
  <2>1. KindOf(inst, retained) /\ KindOf(inst, retained)'
    BY <1>1, <1>3, <1>7 DEF LocalInv, KindOf
  <2>2. retained.first < nextCap
    <3>1. retained.first \in Covers(retained)
      BY <1>1 DEF Covers
    <3> QED
      BY <1>1, <2>1, <3>1 DEF KindOf, HistoryInv
  <2> QED
    BY <1>1, <1>5, <2>1, <2>2 DEF LocalInv
<1>15. \A n \in 1 .. nextCap' - 1 : Placed(n)'
  <2> SUFFICES ASSUME NEW n \in 1 .. nextCap' - 1
               PROVE  Placed(n)'
    OBVIOUS
  <2>1. CASE n = nextCap
    BY <1>1, <1>5, <2>1 DEF Placed
  <2>2. CASE n # nextCap
    <3>1. Placed(n)
      BY <1>1, <1>3, <2>2 DEF LocalInv
    <3> QED
      BY <1>1, <1>5, <1>6, <1>7, <3>1 DEF Placed
  <2> QED
    BY <2>1, <2>2
<1> QED
  BY <1>10, <1>11, <1>12, <1>13, <1>14, <1>15 DEF LocalInv

\* A gap extends the last published span or begins one after every other capture.
LEMMA GapLocal ==
  ASSUME Stored, HistoryInv, LocalInv, PublishGap,
         UNCHANGED <<inst, head, retained, attempted, stream, rows>>
  PROVE  LocalInv'
<1> DEFINE next == stream[inst].next
           last == Len(gaps)
<1>0. inst \in Instance /\ gaps \in Seq(GapRecord)
  BY DEF Stored, Typed, BridgeTyped
<1>1. /\ next \in Nat /\ nextCap \in Nat /\ nextCap > 0 /\ head \in Nat
      /\ \A k \in DOMAIN queue : queue[k] \in Nat /\ queue[k] > 0
      /\ last \in Nat /\ DOMAIN gaps = 1 .. last
      /\ \A k \in DOMAIN gaps :
            /\ gaps[k] \in Record /\ gaps[k].kind = "gap"
            /\ gaps[k].first \in Nat /\ gaps[k].last \in Nat
            /\ 0 < gaps[k].first /\ gaps[k].first <= gaps[k].last
      /\ retained # NoRecord => retained \in Record /\ retained.first \in Nat
                                 /\ retained.last \in Nat /\ retained.first <= retained.last
  BY <1>0, LocalTypes, MaxCaptureAssumption DEF Stored, Typed, BridgeTyped, Record
<1>2. next <= nextCap
  BY <1>0, CursorBehind DEF Stored, HistoryInv
<1>3. /\ nextCap' = nextCap + 1
      /\ captured'[inst][nextCap] = "gap"
      /\ Len(captured[inst]) = nextCap - 1 /\ Len(captured'[inst]) = nextCap
      /\ \A n \in 1 .. nextCap - 1 : captured'[inst][n] = captured[inst][n]
      /\ \A r \in Record : KindOf(inst, r) => KindOf(inst, r)'
  BY <1>0, <1>1, ReserveFacts DEF PublishGap
<1>4. nextCap \in CaptureSeq
  BY <1>1, MaxCaptureAssumption DEF PublishGap, Reserve, CaptureSeq, Stored, Typed, BridgeTyped
<1>5. /\ stream'[inst'].next = next /\ inst' = inst /\ head' = head /\ retained' = retained
      /\ attempted' = attempted /\ rows' = rows /\ queue' = queue
  BY DEF PublishGap
<1>6. ASSUME NEW k \in DOMAIN gaps
      PROVE  /\ gaps[k].last < nextCap /\ next <= gaps[k].first
             /\ \A n \in Covers(gaps[k]) : n <= Len(captured'[inst]) /\ captured'[inst][n] = "gap"
  <2>1. KindOf(inst, gaps[k]) /\ next <= gaps[k].first
    BY DEF LocalInv
  <2>2. gaps[k].last \in Covers(gaps[k])
    BY <1>1 DEF Covers
  <2>3. gaps[k].last < nextCap
    BY <1>1, <1>3, <2>1, <2>2 DEF KindOf
  <2> QED
    BY <1>1, <1>3, <1>5, <2>1, <2>3 DEF KindOf, Covers
<1>7. retained # NoRecord => KindOf(inst, retained)' /\ retained.last < nextCap
  <2> SUFFICES ASSUME retained # NoRecord
               PROVE  KindOf(inst, retained)' /\ retained.last < nextCap
    OBVIOUS
  <2>1. KindOf(inst, retained)
    BY DEF LocalInv
  <2>2. retained.last \in Covers(retained)
    BY <1>1 DEF Covers
  <2>3. retained.last < nextCap
    BY <1>1, <1>3, <2>1, <2>2 DEF KindOf
  <2> QED
    BY <1>1, <1>3, <1>5, <2>1, <2>3 DEF KindOf, Covers
<1>8. DOMAIN gaps' = 1 .. Len(gaps') /\ gaps' = GapsWith(nextCap)
  BY <1>0, <1>4, GapsWithTyped DEF PublishGap
<1> DEFINE Spans == /\ \A k \in DOMAIN gaps' : next <= gaps'[k].first /\ KindOf(inst, gaps[k])'
                    /\ \A j, k \in DOMAIN gaps' : j < k => gaps'[j].last < gaps'[k].first
                    /\ \A k \in DOMAIN gaps' :
                          \/ gaps'[k].first = nextCap
                          \/ k \in DOMAIN gaps /\ gaps'[k].first = gaps[k].first
                    /\ \A k \in DOMAIN gaps :
                          /\ k \in DOMAIN gaps' /\ gaps'[k].first = gaps[k].first
                          /\ gaps[k].last <= gaps'[k].last
                    /\ \E k \in DOMAIN gaps' :
                          gaps'[k].first <= nextCap /\ nextCap <= gaps'[k].last
<1>9. ASSUME Len(gaps') = last + 1, gaps'[last + 1] = Gap(nextCap, nextCap),
             \A j \in 1 .. last : gaps'[j] = gaps[j]
      PROVE  Spans
  <2>1. ASSUME NEW k \in DOMAIN gaps'
        PROVE  next <= gaps'[k].first /\ KindOf(inst, gaps[k])'
    <3>1. CASE k = last + 1
      BY <1>1, <1>2, <1>3, <1>5, <1>9, <3>1 DEF Gap, KindOf, Covers
    <3>2. CASE k \in 1 .. last
      BY <1>1, <1>3, <1>5, <1>6, <1>9, <3>2 DEF KindOf
    <3> QED
      BY <1>1, <1>8, <1>9, <3>1, <3>2
  <2>2. \A j, k \in DOMAIN gaps' : j < k => gaps'[j].last < gaps'[k].first
    BY <1>1, <1>6, <1>8, <1>9 DEF Gap, LocalInv
  <2>3. /\ \A k \in DOMAIN gaps' :
                          \/ gaps'[k].first = nextCap
                          \/ k \in DOMAIN gaps /\ gaps'[k].first = gaps[k].first
        /\ \A k \in DOMAIN gaps :
                          /\ k \in DOMAIN gaps' /\ gaps'[k].first = gaps[k].first
                          /\ gaps[k].last <= gaps'[k].last
    BY <1>1, <1>8, <1>9 DEF Gap
  <2>4. gaps'[last + 1].first <= nextCap /\ nextCap <= gaps'[last + 1].last
    BY <1>1, <1>9 DEF Gap
  <2> QED
    BY <1>1, <1>8, <1>9, <2>1, <2>2, <2>3, <2>4
<1>10. ASSUME Len(gaps') = last, last > 0, gaps[last].last + 1 = nextCap,
              gaps'[last] = [gaps[last] EXCEPT !.last = nextCap],
              \A j \in 1 .. (last - 1) : gaps'[j] = gaps[j]
       PROVE  Spans
  <2>0. /\ gaps'[last].kind = "gap" /\ gaps'[last].first = gaps[last].first
        /\ gaps'[last].last = nextCap
    <3>1. gaps[last] \in GapRecord
      BY <1>0, <1>1, <1>10
    <3> QED
      BY <1>1, <1>10, <3>1 DEF GapRecord
  <2>00. last > 0 /\ gaps[last].last + 1 = nextCap /\ last \in DOMAIN gaps
         /\ \A j \in DOMAIN gaps : j # last => gaps'[j] = gaps[j]
    BY <1>1, <1>10
  <2>1. ASSUME NEW k \in DOMAIN gaps'
        PROVE  next <= gaps'[k].first /\ KindOf(inst, gaps[k])'
    <3>1. CASE k = last
      <4>1. KindOf(inst, gaps[k])'
        <5> SUFFICES ASSUME NEW n \in gaps[last].first .. nextCap
                     PROVE  n <= nextCap /\ captured'[inst][n] = "gap"
          BY <1>3, <1>5, <2>0, <3>1 DEF KindOf, Covers
        <5>1. CASE n \in Covers(gaps[last])
          BY <1>3, <1>6, <2>00, <5>1
        <5>2. CASE n = nextCap
          BY <1>1, <1>3, <5>2
        <5> QED
          BY <1>1, <2>00, <5>1, <5>2 DEF Covers
      <4> QED
        BY <1>6, <2>0, <2>00, <3>1, <4>1
    <3>2. CASE k \in 1 .. (last - 1)
      BY <1>1, <1>3, <1>5, <1>6, <2>00, <3>2 DEF KindOf
    <3> QED
      BY <1>1, <1>8, <1>10, <3>1, <3>2
  <2>2. \A j, k \in DOMAIN gaps' : j < k => gaps'[j].last < gaps'[k].first
    <3> SUFFICES ASSUME NEW j \in 1 .. last, NEW k \in 1 .. last, j < k
                 PROVE  gaps'[j].last < gaps'[k].first
      BY <1>8, <1>10
    <3>1. j \in 1 .. (last - 1) /\ gaps[j].last < gaps[k].first
      BY <1>1 DEF LocalInv
    <3>2. gaps'[k].first = gaps[k].first
      BY <1>1, <2>0, <2>00
    <3>3. gaps'[j] = gaps[j]
      BY <1>1, <2>00, <3>1
    <3> QED
      BY <3>1, <3>2, <3>3
  <2>3. \A k \in 1 .. last : /\ gaps'[k].first = gaps[k].first
                             /\ gaps[k].last <= gaps'[k].last
    <3> SUFFICES ASSUME NEW k \in 1 .. last
                 PROVE  /\ gaps'[k].first = gaps[k].first
                        /\ gaps[k].last <= gaps'[k].last
      OBVIOUS
    <3>1. CASE k = last
      BY <1>1, <2>0, <2>00, <3>1
    <3>2. CASE k # last
      <4>1. gaps[k].last \in Nat /\ k \in DOMAIN gaps
        BY <1>1
      <4>2. gaps'[k] = gaps[k]
        BY <2>00, <3>2, <4>1
      <4> QED
        BY <4>1, <4>2
    <3> QED
      BY <3>1, <3>2
  <2>4. last \in DOMAIN gaps' /\ gaps'[last].first <= nextCap /\ nextCap <= gaps'[last].last
    BY <1>1, <1>8, <1>10, <2>0, <2>00
  <2> QED
    BY <1>1, <1>8, <1>10, <2>1, <2>2, <2>3, <2>4
<1>11. Spans
  BY <1>0, <1>4, <1>8, <1>9, <1>10, GapsWithFacts
<1> HIDE DEF Spans
<1>12. retained # NoRecord /\ retained.kind = "gap" =>
          \A k \in DOMAIN gaps' : retained.last < gaps'[k].first
  BY <1>7, <1>11 DEF Spans, LocalInv
<1>13. \A n \in 1 .. nextCap' - 1 : Placed(n)'
  <2> SUFFICES ASSUME NEW n \in 1 .. nextCap' - 1
               PROVE  Placed(n)'
    OBVIOUS
  <2>1. CASE n = nextCap
    BY <1>11, <2>1 DEF Placed, Spans
  <2>2. CASE n # nextCap
    <3>1. Placed(n)
      BY <1>1, <1>3, <2>2 DEF LocalInv
    <3>2. ASSUME NEW k \in DOMAIN gaps, gaps[k].first <= n, n <= gaps[k].last
          PROVE  Placed(n)'
      <4>1. k \in DOMAIN gaps' /\ gaps'[k].first = gaps[k].first /\ gaps[k].last <= gaps'[k].last
        BY <1>11 DEF Spans
      <4>2. gaps'[k].last \in Nat
        BY <1>0, <1>4, <1>8, <4>1, GapsWithTyped, MaxCaptureAssumption DEF GapRecord, CaptureSeq
      <4>3. gaps'[k].first <= n /\ n <= gaps'[k].last
        BY <1>1, <3>2, <4>1, <4>2
      <4> QED
        BY <4>1, <4>3 DEF Placed
    <3> QED
      BY <1>5, <3>1, <3>2 DEF Placed
  <2> QED
    BY <2>1, <2>2
<1>14. /\ \A k \in DOMAIN queue' : Observed(queue[k])'
       /\ head' # 0 => Observed(head)'
  <2>1. \A n \in Nat : n > 0 /\ Observed(n) =>
           n < nextCap' /\ next <= n /\ captured'[inst][n] = "observation"
    BY <1>1, <1>3 DEF Observed
  <2>2. (\A k \in DOMAIN queue : Observed(queue[k])) /\ (head # 0 => Observed(head))
    BY DEF LocalInv
  <2> QED
    BY <1>1, <1>5, <2>1, <2>2 DEF Observed
<1> QED
  BY <1>5, <1>7, <1>11, <1>12, <1>13, <1>14 DEF LocalInv, Spans

\* Callbacks keep all of it.
LEMMA CallbackKeeps ==
  ASSUME Stored, DeliveryInv, CallbackNext, UNCHANGED <<streamVars, conn, up, faults>>
  PROVE  DeliveryInv'
<1>1. ASSUME PublishGap \/ PublishObservation,
             UNCHANGED <<inst, head, retained, attempted, closeVars, workerVars>>
      PROVE  DeliveryInv'
  <2>1. UNCHANGED <<inst, head, retained, attempted, closing, sealed, finalCap, stopped, pc, goal,
                    link, stream, rows>>
    BY <1>1 DEF closeVars, workerVars, streamVars
  <2>2. WorkerInv' /\ LinkInv' /\ RequestInv' /\ AnswerInv'
    BY <2>1, CallsFramed DEF DeliveryInv
  <2>3. HistoryInv'
    BY <1>1, <2>1, CaptureHistory DEF DeliveryInv, PublishGap, PublishObservation
  <2>4. LocalInv'
    BY <1>1, <2>1, ObservationLocal, GapLocal DEF DeliveryInv
  <2> QED
    BY <2>2, <2>3, <2>4 DEF DeliveryInv
<1>2. ASSUME CaptureLate \/ RequestClose
      PROVE  DeliveryInv'
  <2>1. UNCHANGED <<inst, nextCap, queue, gaps, captured, head, retained, attempted, sealed,
                    finalCap, stopped, pc, goal, link, stream, rows>>
    BY <1>2 DEF CaptureLate, RequestClose, captureVars, closeVars, workerVars, streamVars
  <2>2. WorkerInv' /\ LinkInv' /\ RequestInv' /\ AnswerInv'
    BY <2>1, CallsFramed DEF DeliveryInv
  <2>3. HistoryInv'
    BY <2>1 DEF DeliveryInv, HistoryInv, NothingPending, KindOf
  <2>4. LocalInv'
    BY <2>1 DEF DeliveryInv, LocalInv, KindOf, Placed, Observed
  <2> QED
    BY <2>2, <2>3, <2>4 DEF DeliveryInv
<1> QED
  BY <1>1, <1>2 DEF CallbackNext, Capture, CaptureInvalid

-----------------------------------------------------------------------------
(* Steps of the worker without a call *)

\* No answer, no request: what the worker does between two calls disturbs neither.
LEMMA BetweenCalls ==
  ASSUME LinkInv, AnswerInv, UNCHANGED <<inst, link, conn, up, stream, rows>>,
         pc \notin Waiting, pc' \notin Waiting,
         pc' \in {"commit", "frame", "close"} => link # NoConn,
         pc' \in {"connect", "done"} => link = NoConn
  PROVE  LinkInv' /\ AnswerInv'
<1>1. LinkInv'
  <2>1. pc' \in Waiting \cup {"commit", "frame", "close"} => link' # NoConn
    OBVIOUS
  <2>2. link # NoConn => conn[link].req = NoRequest /\ conn[link].rep = NoReply
    BY DEF LinkInv
  <2> QED
    BY <2>1, <2>2 DEF LinkInv
<1>2. AnswerInv'
  <2>1. link # NoConn => conn[link].rep = NoReply
    BY DEF LinkInv
  <2>2. link # NoConn => Answer'.code = "none"
    BY <2>1 DEF Answer, NoReply
  <2>3. pc # "attaching" /\ pc' # "attaching"
    BY DEF Waiting
  <2> QED
    BY <2>2, <2>3 DEF AnswerInv, Answer, Terminal
<1> QED
  BY <1>1, <1>2

\* A request on its way still stands for the record in hand.
LEMMA RequestsFramed ==
  ASSUME RequestInv, UNCHANGED <<inst, conn, stream>>, sealed => sealed',
         attempted => attempted' /\ retained' = retained
  PROVE  RequestInv'
BY DEF RequestInv

\* The streams and their history do not move.
LEMMA HistoryFramed ==
  ASSUME HistoryInv, UNCHANGED <<inst, nextCap, captured, stopped, stream, rows>>,
         sealed => sealed', sealed' => NothingPending'
  PROVE  HistoryInv'
BY DEF HistoryInv, KindOf

\* Nor does what is local.
LEMMA LocalFramed ==
  ASSUME LocalInv, UNCHANGED <<inst, nextCap, captured, queue, gaps, head, retained, stream, rows>>,
         attempted => attempted'
  PROVE  LocalInv'
BY DEF LocalInv, KindOf, Placed, Observed

\* The first observation of the queue is the next one to deliver.
LEMMA SelectKeeps ==
  ASSUME Stored, DeliveryInv, SelectHead, UNCHANGED <<streamVars, conn, up, faults>>
  PROVE  DeliveryInv'
<1> USE DEF DeliveryInv
<1>1. UNCHANGED <<inst, nextCap, gaps, captured, retained, attempted, closing, sealed, finalCap,
                  stopped, goal, link, stream, rows>> /\ pc = "select"
  BY DEF SelectHead, Go, closeVars, streamVars
<1>2. /\ pc' = IF retained # NoRecord THEN "deliver" ELSE "gaps"
      /\ pc' \notin Waiting \cup {"commit", "frame", "close", "connect", "done"}
      /\ pc \notin Waiting
  BY <1>1 DEF SelectHead, Go, Waiting
<1>3. WorkerInv' /\ LinkInv' /\ AnswerInv'
  <2>1. WorkerInv'
    BY <1>1, <1>2 DEF WorkerInv
  <2> QED
    BY <1>1, <1>2, <2>1, BetweenCalls
<1>4. RequestInv'
  BY <1>1, RequestsFramed
<1>5. HistoryInv'
  <2>1. sealed => NothingPending'
    BY <1>1 DEF HistoryInv, NothingPending, SelectHead
  <2> QED
    BY <1>1, <2>1, HistoryFramed
<1>6. LocalInv'
  <2>1. CASE UNCHANGED <<queue, head>>
    BY <1>1, <2>1, LocalFramed
  <2>2. CASE ~UNCHANGED <<queue, head>>
    <3>1. retained = NoRecord /\ head = 0 /\ queue # << >> /\ head' = Head(queue) /\ queue' = Tail(queue)
      BY <2>2 DEF SelectHead
    <3>2. queue \in Seq(CaptureSeq)
      BY DEF Stored, Typed, BridgeTyped
    <3>3. /\ Len(queue) \in Nat /\ Len(queue) > 0 /\ DOMAIN queue = 1 .. Len(queue)
          /\ DOMAIN queue' = 1 .. (Len(queue) - 1) /\ head' = queue[1]
          /\ \A k \in 1 .. (Len(queue) - 1) : queue'[k] = queue[k + 1]
      BY <3>1, <3>2
    <3>4. /\ stream[inst].next \in Nat /\ stream[inst].next > 0
          /\ \A k \in DOMAIN queue : queue[k] \in Nat /\ queue[k] > 0
      BY LocalTypes DEF Stored
    <3>5. /\ \A k \in DOMAIN queue : Observed(queue[k])
          /\ \A j, k \in DOMAIN queue : j < k => queue[j] < queue[k]
      BY DEF LocalInv
    <3>6. /\ \A k \in DOMAIN queue' : Observed(queue[k])'
          /\ \A j, k \in DOMAIN queue' : j < k => queue'[j] < queue'[k]
          /\ Observed(head)' /\ \A k \in DOMAIN queue' : head' < queue'[k]
      <4>1. 1 \in DOMAIN queue
            /\ \A k \in DOMAIN queue' : k + 1 \in DOMAIN queue /\ queue'[k] = queue[k + 1]
        BY <3>3
      <4>2. \A j, k \in DOMAIN queue' : j < k => j + 1 < k + 1
        BY <3>3
      <4>3. \A k \in DOMAIN queue' : 1 < k + 1
        BY <3>3
      <4>4. \A j, k \in DOMAIN queue' : j < k => queue'[j] < queue'[k]
        BY <3>5, <4>1, <4>2
      <4>5. \A k \in DOMAIN queue' : head' < queue'[k]
        BY <3>3, <3>5, <4>1, <4>3
      <4>6. (\A k \in DOMAIN queue' : Observed(queue[k])') /\ Observed(head)'
        BY <1>1, <3>3, <3>5, <4>1 DEF Observed
      <4> QED
        BY <4>4, <4>5, <4>6
    <3>7. \A n \in 1 .. nextCap - 1 : Placed(n)'
      <4> SUFFICES ASSUME NEW n \in 1 .. nextCap - 1
                   PROVE  Placed(n)'
        OBVIOUS
      <4>1. Placed(n)
        BY DEF LocalInv
      <4>2. ASSUME NEW k \in DOMAIN queue, queue[k] = n
            PROVE  Placed(n)'
        <5>1. CASE k = 1
          BY <3>3, <4>2, <5>1 DEF Placed
        <5>2. CASE k # 1
          <6>1. k - 1 \in DOMAIN queue' /\ queue'[k - 1] = n
            BY <3>3, <4>2, <5>2
          <6> QED
            BY <6>1 DEF Placed
        <5> QED
          BY <5>1, <5>2
      <4>3. head # n
        BY <3>1
      <4> QED
        BY <1>1, <4>1, <4>2, <4>3 DEF Placed
    <3>8. /\ \A k \in DOMAIN gaps' : stream'[inst'].next <= gaps'[k].first /\ KindOf(inst, gaps[k])'
          /\ \A j, k \in DOMAIN gaps' : j < k => gaps'[j].last < gaps'[k].first
      BY <1>1 DEF LocalInv, KindOf
    <3> QED
      BY <1>1, <3>1, <3>6, <3>7, <3>8 DEF LocalInv
  <2> QED
    BY <2>1, <2>2
<1> QED
  BY <1>3, <1>4, <1>5, <1>6

\* An observation older than every published gap becomes the record in hand.
LEMMA ReadGapKeeps ==
  ASSUME Stored, DeliveryInv, ReadFirstGap, UNCHANGED <<streamVars, conn, up, faults>>
  PROVE  DeliveryInv'
<1> USE DEF DeliveryInv
<1>1. UNCHANGED <<inst, nextCap, queue, gaps, captured, attempted, closing, sealed, finalCap,
                  stopped, goal, link, stream, rows>> /\ pc = "gaps"
  BY DEF ReadFirstGap, Go, captureVars, closeVars, streamVars
<1>2. retained = NoRecord /\ ~attempted
  BY <1>1 DEF WorkerInv
<1>3. \/ pc' = "claim" /\ UNCHANGED <<head, retained>>
      \/ pc' = "deliver" /\ head # 0 /\ retained' = Observation(head) /\ head' = 0
      \/ pc' = "idle" /\ UNCHANGED <<head, retained>>
  BY DEF ReadFirstGap, Go
<1>4. head \in Nat /\ Observation(head) # NoRecord /\ Observation(head).kind = "observation"
      /\ Observation(head).first = head /\ Observation(head).last = head
  BY LocalTypes DEF Stored, Observation, NoRecord
<1>5. WorkerInv' /\ LinkInv' /\ AnswerInv'
  <2>1. WorkerInv'
    BY <1>1, <1>2, <1>3, <1>4 DEF WorkerInv
  <2>2. pc \notin Waiting /\ pc' \notin Waiting \cup {"commit", "frame", "close", "connect", "done"}
    BY <1>1, <1>3 DEF Waiting
  <2> QED
    BY <1>1, <2>1, <2>2, BetweenCalls
<1>6. RequestInv'
  BY <1>1, <1>2, RequestsFramed
<1>7. HistoryInv'
  <2>1. sealed => NothingPending'
    BY <1>1, <1>3 DEF HistoryInv, NothingPending
  <2> QED
    BY <1>1, <2>1, HistoryFramed
<1>8. LocalInv'
  <2>1. CASE UNCHANGED <<head, retained>>
    BY <1>1, <2>1, LocalFramed
  <2>2. CASE head # 0 /\ retained' = Observation(head) /\ head' = 0
    <3>1. Observed(head) /\ \A k \in DOMAIN queue : head < queue[k]
      BY <2>2 DEF LocalInv
    <3>2. KindOf(inst, retained)'
      <4>1. nextCap = Len(captured[inst]) + 1 /\ Len(captured[inst]) \in Nat
        BY LocalTypes DEF HistoryInv, Stored
      <4> QED
        BY <1>1, <1>4, <2>2, <3>1, <4>1 DEF KindOf, Covers, Observed
    <3>3. \A n \in 1 .. nextCap - 1 : Placed(n)'
      BY <1>1, <1>2, <1>4, <2>2 DEF LocalInv, Placed
    <3>4. /\ \A k \in DOMAIN queue' : Observed(queue[k])'
          /\ \A j, k \in DOMAIN queue' : j < k => queue'[j] < queue'[k]
          /\ \A k \in DOMAIN gaps' : stream'[inst'].next <= gaps'[k].first /\ KindOf(inst, gaps[k])'
          /\ \A j, k \in DOMAIN gaps' : j < k => gaps'[j].last < gaps'[k].first
      BY <1>1 DEF LocalInv, KindOf, Observed
    <3>5. stream'[inst'].next <= retained'.first
      BY <1>1, <1>4, <2>2, <3>1 DEF Observed
    <3>6. /\ \A k \in DOMAIN queue' : retained'.first < queue'[k]
          /\ retained'.kind = "observation"
      BY <1>1, <1>4, <2>2, <3>1
    <3> QED
      BY <1>1, <2>2, <3>2, <3>3, <3>4, <3>5, <3>6 DEF LocalInv
  <2> QED
    BY <1>3, <2>1, <2>2
<1> QED
  BY <1>5, <1>6, <1>7, <1>8

\* The first published gap becomes the record in hand.
LEMMA ClaimKeeps ==
  ASSUME Stored, DeliveryInv, ClaimFirstGap, UNCHANGED <<streamVars, conn, up, faults>>
  PROVE  DeliveryInv'
<1> USE DEF DeliveryInv
<1>1. UNCHANGED <<inst, nextCap, queue, captured, head, attempted, closing, sealed, finalCap,
                  stopped, goal, link, stream, rows>> /\ pc = "claim" /\ pc' = "deliver"
      /\ retained' = Head(gaps) /\ gaps' = Tail(gaps)
  BY DEF ClaimFirstGap, Go, closeVars, streamVars
<1>2. retained = NoRecord /\ ~attempted
  BY <1>1 DEF WorkerInv
<1>3. gaps \in Seq(GapRecord) /\ gaps # << >>
  BY <1>1 DEF Stored, Typed, BridgeTyped
<1>4. /\ Len(gaps) \in Nat /\ Len(gaps) > 0 /\ DOMAIN gaps = 1 .. Len(gaps)
      /\ DOMAIN gaps' = 1 .. (Len(gaps) - 1) /\ retained' = gaps[1]
      /\ \A k \in 1 .. (Len(gaps) - 1) : gaps'[k] = gaps[k + 1]
  BY <1>1, <1>3
<1>5. \A k \in DOMAIN gaps : gaps[k].kind = "gap"
  BY LocalTypes DEF Stored
<1>6. retained' # NoRecord /\ retained'.kind = "gap"
  BY <1>4, <1>5 DEF NoRecord
<1>7. WorkerInv' /\ LinkInv' /\ AnswerInv'
  <2>1. WorkerInv'
    BY <1>1, <1>2, <1>6 DEF WorkerInv
  <2>2. pc \notin Waiting /\ pc' \notin Waiting \cup {"commit", "frame", "close", "connect", "done"}
    BY <1>1 DEF Waiting
  <2> QED
    BY <1>1, <2>1, <2>2, BetweenCalls
<1>8. RequestInv'
  BY <1>1, <1>2, RequestsFramed
<1>9. HistoryInv'
  <2>1. ~sealed
    BY <1>3 DEF HistoryInv, NothingPending
  <2> QED
    BY <1>1, <2>1, HistoryFramed
<1>10. LocalInv'
  <2>1. /\ \A k \in DOMAIN gaps : stream[inst].next <= gaps[k].first /\ KindOf(inst, gaps[k])
        /\ \A j, k \in DOMAIN gaps : j < k => gaps[j].last < gaps[k].first
    BY DEF LocalInv
  <2>2. /\ \A k \in DOMAIN gaps' : stream'[inst'].next <= gaps'[k].first /\ KindOf(inst, gaps[k])'
        /\ \A j, k \in DOMAIN gaps' : j < k => gaps'[j].last < gaps'[k].first
        /\ \A k \in DOMAIN gaps' : retained'.last < gaps'[k].first
        /\ stream'[inst'].next <= retained'.first
    BY <1>1, <1>4, <2>1 DEF KindOf
  <2>3. KindOf(inst, retained)'
    BY <1>1, <1>4, <2>1 DEF KindOf
  <2>4. \A n \in 1 .. nextCap - 1 : Placed(n)'
    <3> SUFFICES ASSUME NEW n \in 1 .. nextCap - 1
                 PROVE  Placed(n)'
      OBVIOUS
    <3>1. Placed(n)
      BY DEF LocalInv
    <3>2. ASSUME NEW k \in DOMAIN gaps, gaps[k].first <= n, n <= gaps[k].last
          PROVE  Placed(n)'
      <4>1. CASE k = 1
        BY <1>4, <1>6, <3>2, <4>1 DEF Placed
      <4>2. CASE k # 1
        <5>1. k - 1 \in DOMAIN gaps' /\ gaps'[k - 1] = gaps[k]
          BY <1>4, <4>2
        <5> QED
          BY <3>2, <5>1 DEF Placed
      <4> QED
        BY <4>1, <4>2
    <3> QED
      BY <1>1, <1>2, <3>1, <3>2 DEF Placed
  <2>5. /\ \A k \in DOMAIN queue' : Observed(queue[k])'
        /\ \A j, k \in DOMAIN queue' : j < k => queue'[j] < queue'[k]
        /\ head' # 0 => Observed(head)' /\ \A k \in DOMAIN queue' : head' < queue'[k]
    BY <1>1 DEF LocalInv, Observed
  <2> QED
    BY <1>1, <1>6, <2>2, <2>3, <2>4, <2>5 DEF LocalInv
<1> QED
  BY <1>7, <1>8, <1>9, <1>10

\* What the worker decides on its way to a call keeps the rest as it is.
LEMMA DecideKeeps ==
  ASSUME Stored, DeliveryInv, Deliver \/ SealAndClose \/ Idle,
         UNCHANGED <<streamVars, conn, up, faults>>
  PROVE  DeliveryInv'
<1> USE DEF DeliveryInv
<1>1. /\ UNCHANGED <<inst, nextCap, queue, gaps, captured, head, retained, attempted, stopped,
                     link, stream, rows>>
      /\ pc \in {"deliver", "idle"}
      /\ sealed => sealed'
  BY DEF Deliver, SealAndClose, Idle, Go, captureVars, closeVars, streamVars
<1>2. sealed' => NothingPending'
  BY <1>1 DEF Deliver, SealAndClose, Idle, closeVars, HistoryInv, NothingPending
<1>3. /\ pc \notin Waiting /\ pc' \notin Waiting
      /\ pc' \in {"commit", "frame", "close"} => link # NoConn
      /\ pc' \in {"connect", "done"} => link = NoConn
  BY <1>1 DEF Deliver, SealAndClose, Idle, Go, Waiting
<1>4. WorkerInv'
  <2>1. CASE Deliver
    BY <1>1, <2>1 DEF WorkerInv, Deliver, Go, closeVars
  <2>2. CASE SealAndClose
    BY <1>1, <2>2 DEF WorkerInv, SealAndClose, Go
  <2>3. CASE Idle
    BY <1>1, <2>3 DEF WorkerInv, Idle, Go, closeVars
  <2> QED
    BY <2>1, <2>2, <2>3
<1>5. LinkInv' /\ AnswerInv'
  BY <1>1, <1>3, BetweenCalls
<1>6. RequestInv'
  BY <1>1, RequestsFramed
<1>7. HistoryInv'
  BY <1>1, <1>2, HistoryFramed
<1>8. LocalInv'
  BY <1>1, LocalFramed
<1> QED
  BY <1>4, <1>5, <1>6, <1>7, <1>8

-----------------------------------------------------------------------------
(* Connections and calls *)

\* After the worker has given its connection up, nothing is held.
LEMMA LinkDropped ==
  ASSUME conn \in [Conn -> ConnType], LinkInv, link \in Conn, HangUp(link),
         link' = NoConn, up' = up, pc' \notin Waiting \cup {"commit", "frame", "close"}
  PROVE  LinkInv' /\ AnswerInv' /\ \A c \in Conn : conn'[c].req \in {conn[c].req, NoRequest}
<1>1. /\ conn[link].phase = "dead" => conn'[link] = FreeConn
      /\ conn[link].phase # "dead" => conn'[link].phase = "eof" /\ conn'[link].req = conn[link].req
      /\ \A d \in Conn : d # link => conn'[d] = conn[d]
  BY HangUpFacts
<1>2. FreeConn.phase = "free" /\ FreeConn.req = NoRequest
  BY DEF FreeConn
<1>3. \A c \in Conn : conn'[c].phase \notin {"open", "dead"} /\ c # NoConn
  BY <1>1, <1>2, ConnAssumption DEF LinkInv
<1>4. \A c \in Conn : conn'[c].phase = "free" => conn'[c].req = NoRequest
  BY <1>1, <1>2 DEF LinkInv
<1>5. LinkInv'
  BY <1>3, <1>4 DEF LinkInv
<1>6. AnswerInv'
  BY DEF AnswerInv
<1> QED
  BY <1>1, <1>2, <1>5, <1>6

\* Requests that are gone, or as they were, still stand for the record in hand.
LEMMA RequestsKept ==
  ASSUME RequestInv, UNCHANGED <<inst, stream>>, sealed => sealed',
         attempted => attempted' /\ retained' = retained,
         \A c \in Conn : conn'[c].req \in {conn[c].req, NoRequest}
  PROVE  RequestInv'
BY DEF RequestInv

\* The names of the five calls.
LEMMA RequestOps ==
  /\ Requesting["attaching"] = "attach" /\ Requesting["framing"] = "frame"
  /\ Requesting["committing"] = "commit" /\ Requesting["closing"] = "close"
  /\ Requesting["recovering"] = "recover"
BY DEF Requesting

\* A new connection carries the attach of the current stream and nothing else.
LEMMA ConnectKeeps ==
  ASSUME Stored, DeliveryInv, Connect
  PROVE  DeliveryInv'
<1> USE DEF DeliveryInv
<1>1. UNCHANGED <<inst, nextCap, queue, gaps, captured, head, retained, attempted, sealed, finalCap,
                  stopped, goal, stream, rows, up>> /\ up /\ pc = "connect" /\ pc' = "attaching"
  BY DEF Connect, captureVars, closeVars, streamVars
<1>2. PICK c \in Conn :
        /\ conn[c].phase = "free" /\ link' = c
        /\ conn' = [conn EXCEPT ![c] = [phase |-> "open", bound |-> {}, req |-> Request("attach"),
                                        rep |-> NoReply]]
  BY DEF Connect
<1>3. conn \in [Conn -> ConnType]
  BY DEF Stored, Typed
<1>4. /\ conn'[c].phase = "open" /\ conn'[c].req = Request("attach") /\ conn'[c].rep = NoReply
      /\ \A d \in Conn : d # c => conn'[d] = conn[d]
  BY <1>2, <1>3
<1>5. link = NoConn /\ c # NoConn
  BY <1>1, ConnAssumption DEF LinkInv
<1>6. Request("attach").inst = inst /\ Request("attach").op = "attach"
      /\ Request("attach") = Request("attach")'
  BY <1>1 DEF Request
<1>7. WorkerInv'
  BY <1>1, <1>2 DEF WorkerInv
<1>8. LinkInv'
  <2>1. \A d \in Conn : d # c => conn[d].phase \notin {"open", "dead"}
    BY <1>5, ConnAssumption DEF LinkInv
  <2>2. \A d \in Conn :
          /\ conn'[d].phase \in {"open", "dead"} <=> d = link'
          /\ conn'[d].phase = "open" => up'
          /\ conn'[d].phase # "dead"
          /\ conn'[d].phase = "free" => conn'[d].req = NoRequest
    BY <1>1, <1>2, <1>4, <2>1 DEF LinkInv
  <2>3. conn'[link'].req = Request(Requesting[pc])'
    BY <1>1, <1>2, <1>4, <1>6, RequestOps
  <2>4. pc' \in Waiting /\ pc' \notin {"connect", "done"}
    BY <1>1 DEF Waiting
  <2> QED
    BY <1>2, <1>4, <1>5, <2>2, <2>3, <2>4 DEF LinkInv
<1>9. RequestInv'
  BY <1>1, <1>4, <1>6 DEF RequestInv
<1>10. AnswerInv'
  <2>1. Answer'.code = "none"
    BY <1>2, <1>4 DEF Answer, NoReply
  <2> QED
    BY <1>1, <2>1 DEF AnswerInv
<1>11. HistoryInv'
  BY <1>1, HistoryFramed DEF HistoryInv, NothingPending
<1>12. LocalInv'
  BY <1>1, LocalFramed
<1> QED
  BY <1>7, <1>8, <1>9, <1>10, <1>11, <1>12

\* The worker sends one request at a time, and only for what it stands for.
LEMMA CallKeeps ==
  ASSUME Stored, DeliveryInv, CallNext
  PROVE  DeliveryInv'
<1> USE DEF DeliveryInv
<1>1. PICK op \in {"frame", "commit", "close"} :
        /\ pc = op /\ Requesting[pc'] = op /\ pc' \in {"framing", "committing", "closing"}
        /\ op = "commit" <=> pc' = "committing"
        /\ op = "close" <=> pc' = "closing"
        /\ IF conn[link].phase = "open" THEN Send(link, op) ELSE UNCHANGED conn
        /\ attempted' = (attempted \/ op = "commit")
        /\ UNCHANGED <<inst, nextCap, queue, gaps, captured, head, retained, sealed, finalCap,
                       stopped, goal, link, stream, rows, up>>
  BY RequestOps DEF CallNext, Call, Go, captureVars, closeVars, streamVars
<1>2. pc \notin Waiting /\ pc' \in Waiting /\ pc' \notin {"connect", "done"}
  BY <1>1 DEF Waiting
<1>3. link \in Conn /\ conn \in [Conn -> ConnType]
  BY <1>1 DEF LinkInv, WorkerInv, Stored, Typed
<1>4. /\ \A d \in Conn : conn'[d].phase = conn[d].phase
      /\ \A d \in Conn : d # link => conn'[d] = conn[d]
      /\ conn'[link].rep = NoReply /\ conn'[link].req \in {NoRequest, Request(op)}
      /\ conn[link].phase = "dead" => conn'[link].req = NoRequest
  <2>1. conn[link].req = NoRequest /\ conn[link].rep = NoReply /\ link # NoConn
    BY <1>2, <1>3, ConnAssumption DEF LinkInv
  <2>2. CASE conn[link].phase = "open"
    BY <1>1, <1>3, <2>2, SendFacts
  <2>3. CASE conn[link].phase # "open"
    BY <1>1, <2>1, <2>3
  <2> QED
    BY <2>2, <2>3
<1>5. /\ Request(op).inst = inst /\ Request(op).op = op
      /\ op = "commit" => Request(op).rec = retained
      /\ Request(op) = Request(Requesting[pc])'
  BY <1>1 DEF Request
<1>6. WorkerInv'
  BY <1>1 DEF WorkerInv
<1>7. LinkInv'
  <2>1. \A c \in Conn :
          /\ conn'[c].phase \in {"open", "dead"} <=> c = link'
          /\ conn'[c].phase = "open" => up'
          /\ conn'[c].phase = "dead" => \A d \in Conn : d # c => conn'[d].req = NoRequest
          /\ conn'[c].phase = "free" => conn'[c].req = NoRequest
    BY <1>1, <1>3, <1>4 DEF LinkInv
  <2> QED
    BY <1>1, <1>2, <1>3, <1>4, <1>5, <2>1, ConnAssumption DEF LinkInv
<1>8. RequestInv'
  <2>1. op = "commit" => retained # NoRecord /\ attempted'
    BY <1>1 DEF WorkerInv
  <2>2. op = "close" => sealed
    BY <1>1 DEF WorkerInv
  <2>3. attempted => attempted'
    BY <1>1
  <2> QED
    BY <1>1, <1>4, <1>5, <2>1, <2>2, <2>3 DEF RequestInv
<1>9. AnswerInv'
  <2>1. Answer'.code = "none"
    BY <1>1, <1>4 DEF Answer, NoReply
  <2>2. pc # "attaching" /\ conn'[link].phase = conn[link].phase
    BY <1>1, <1>3, <1>4
  <2> QED
    BY <1>1, <2>1, <2>2 DEF AnswerInv, Terminal
<1>10. HistoryInv'
  BY <1>1, HistoryFramed DEF HistoryInv, NothingPending
<1>11. LocalInv'
  BY <1>1, LocalFramed
<1> QED
  BY <1>6, <1>7, <1>8, <1>9, <1>10, <1>11

\* The worker that starts over keeps its record and forgets its connection.
LEMMA FailureKeeps ==
  ASSUME Stored, DeliveryInv, UNCHANGED <<streamVars, up>>,
         \/ CallFailed /\ link # NoConn /\ HangUp(link)
         \/ CallFailed /\ link = NoConn /\ UNCHANGED conn
         \/ Stop /\ IF link = NoConn THEN UNCHANGED conn ELSE HangUp(link)
  PROVE  DeliveryInv'
<1> USE DEF DeliveryInv
<1>1. /\ UNCHANGED <<inst, nextCap, queue, gaps, captured, head, retained, attempted, sealed,
                     finalCap, stopped, goal, stream, rows, up>>
      /\ link' = NoConn /\ pc' \in {"select", "done"}
      /\ IF link = NoConn THEN UNCHANGED conn ELSE HangUp(link)
  BY DEF CallFailed, Stop, captureVars, closeVars, streamVars
<1>2. pc' \notin Waiting \cup {"commit", "frame", "close"}
  BY <1>1 DEF Waiting
<1>3. LinkInv' /\ AnswerInv' /\ \A c \in Conn : conn'[c].req \in {conn[c].req, NoRequest}
  <2>1. CASE link = NoConn
    BY <1>1, <1>2, <2>1 DEF LinkInv, AnswerInv
  <2>2. CASE link # NoConn
    BY <1>1, <1>2, <2>2, LinkDropped DEF WorkerInv, Stored, Typed
  <2> QED
    BY <2>1, <2>2
<1>4. WorkerInv'
  BY <1>1 DEF WorkerInv
<1>5. RequestInv'
  BY <1>1, <1>3, RequestsKept
<1>6. HistoryInv'
  BY <1>1, HistoryFramed DEF HistoryInv, NothingPending
<1>7. LocalInv'
  BY <1>1, LocalFramed
<1> QED
  BY <1>3, <1>4, <1>5, <1>6, <1>7

-----------------------------------------------------------------------------
(* Answers *)

\* While a positive answer waits to be read, no other connection can act on the
\* current stream.
LEMMA AnswerExcludes ==
  ASSUME Stored, DeliveryInv, link \in Conn, Answer # NoReply, Answer.code = "ok"
  PROVE  \A c \in Conn : conn[c].req # NoRequest => stream[inst].nonce # c
<1> USE DEF DeliveryInv
<1>0. inst \in Instance /\ link # NoConn
  BY ConnAssumption DEF Stored, Typed, BridgeTyped
<1>1. conn[link].req = NoRequest /\ conn[link].phase \in {"open", "dead"}
  BY <1>0 DEF LinkInv, Answer
<1>2. CASE conn[link].phase = "dead"
  BY <1>1, <1>2 DEF LinkInv
<1>3. CASE conn[link].phase = "open"
  <2>1. stream[inst].nonce = link \/ Terminal(inst)
    BY <1>0, <1>3 DEF AnswerInv
  <2>2. Terminal(inst) => stream[inst].nonce = NoConn
    BY <1>0 DEF Terminal, TerminalReceipt, Stored
  <2> QED
    BY <1>1, <2>1, <2>2, ConnAssumption
<1> QED
  BY <1>1, <1>2, <1>3

\* A positive answer read leaves the worker attached, with nothing in flight.
LEMMA ConsumeKeeps ==
  ASSUME Stored, DeliveryInv, link \in Conn, Answer # NoReply, Answer.code = "ok", Consume,
         UNCHANGED <<inst, link, up, stream, rows>>,
         pc' \in {"select", "frame", "commit", "close"}
  PROVE  /\ LinkInv' /\ AnswerInv'
         /\ \A c \in Conn : conn'[c].req = conn[c].req
<1> USE DEF DeliveryInv
<1>1. link # NoConn /\ conn[link].req = NoRequest
  BY ConnAssumption DEF LinkInv, Answer
<1>2. /\ conn'[link].phase = conn[link].phase /\ conn'[link].req = conn[link].req
      /\ conn'[link].rep = NoReply
      /\ \A d \in Conn : d # link => conn'[d] = conn[d]
  BY ConsumeFacts DEF Stored, Typed
<1>3. /\ \A c \in Conn : conn'[c].req = conn[c].req /\ conn'[c].phase = conn[c].phase
      /\ pc' \notin Waiting
  BY <1>2 DEF Waiting
<1>4. LinkInv'
  BY <1>1, <1>2, <1>3 DEF LinkInv
<1>5. Answer'.code = "none"
  BY <1>2 DEF Answer, NoReply
<1>6. AnswerInv'
  BY <1>1, <1>3, <1>5 DEF AnswerInv, Terminal
<1> QED
  BY <1>3, <1>4, <1>6

\* The cursor of an attach decides whether the record in hand was applied.
LEMMA AttachedKeeps ==
  ASSUME Stored, DeliveryInv, link \in Conn, Answer # NoReply, Answer.code = "ok",
         pc = "attaching", CursorBinds(Answer.next), AttachAccepted(Answer.next), Consume,
         UNCHANGED <<streamVars, up>>
  PROVE  DeliveryInv'
<1> USE DEF DeliveryInv
<1>1. /\ UNCHANGED <<inst, nextCap, queue, gaps, captured, head, retained, sealed, finalCap, stopped,
                     goal, link, stream, rows, up>>
      /\ pc' = "frame" /\ attempted' = (attempted /\ Answer.next # retained.first)
  BY DEF AttachAccepted, Go, captureVars, closeVars, streamVars
<1>2. link # NoConn /\ Answer.next = stream[inst].next
  BY ConnAssumption DEF AnswerInv
<1>3. LinkInv' /\ AnswerInv' /\ \A c \in Conn : conn'[c].req = conn[c].req
  BY <1>1, ConsumeKeeps
<1>4. WorkerInv'
  BY <1>1 DEF WorkerInv
<1>5. RequestInv'
  <2>1. \A c \in Conn : conn[c].req # NoRequest => stream[inst].nonce # c
    BY AnswerExcludes
  <2> QED
    BY <1>1, <1>3, <2>1 DEF RequestInv
<1>6. HistoryInv'
  BY <1>1, HistoryFramed DEF HistoryInv, NothingPending
<1>7. LocalInv'
  <2>1. CASE Answer.next # retained.first
    BY <1>1, <2>1, LocalFramed
  <2>2. CASE Answer.next = retained.first
    <3>1. stream[inst].next = retained.first
      BY <1>1, <1>2, <2>2
    <3>2. stream[inst].next <= retained.first
      BY <3>1, LocalTypes DEF Stored
    <3>3. UNCHANGED <<inst, nextCap, queue, gaps, captured, head, retained, stream, rows>>
      BY <1>1
    <3> QED
      BY <3>2, <3>3 DEF LocalInv, KindOf, Placed, Observed
  <2> QED
    BY <2>1, <2>2
<1> QED
  BY <1>3, <1>4, <1>5, <1>6, <1>7

\* A frame refreshed changes nothing.
LEMMA FramedKeeps ==
  ASSUME Stored, DeliveryInv, link \in Conn, Answer # NoReply, Answer.code = "ok",
         pc = "framing", FrameAccepted, Consume, UNCHANGED <<streamVars, up>>
  PROVE  DeliveryInv'
<1> USE DEF DeliveryInv
<1>1. /\ UNCHANGED <<inst, nextCap, queue, gaps, captured, head, retained, attempted, sealed,
                     finalCap, stopped, goal, link, stream, rows, up>>
      /\ pc' = goal
  BY DEF FrameAccepted, captureVars, closeVars, streamVars
<1>2. goal \in {"select", "commit", "close"}
  BY DEF Stored, Typed, BridgeTyped
<1>3. LinkInv' /\ AnswerInv' /\ \A c \in Conn : conn'[c].req = conn[c].req
  BY <1>1, <1>2, ConsumeKeeps
<1>4. WorkerInv'
  BY <1>1, <1>2 DEF WorkerInv
<1>5. RequestInv'
  BY <1>1, <1>3, RequestsKept
<1>6. HistoryInv'
  BY <1>1, HistoryFramed DEF HistoryInv, NothingPending
<1>7. LocalInv'
  BY <1>1, LocalFramed
<1> QED
  BY <1>3, <1>4, <1>5, <1>6, <1>7

\* A record acknowledged is in the ledger and leaves the bridge.
LEMMA CommittedKeeps ==
  ASSUME Stored, DeliveryInv, link \in Conn, Answer # NoReply, Answer.code = "ok",
         pc = "committing", CommitAccepted, Consume, UNCHANGED <<streamVars, up>>
  PROVE  DeliveryInv'
<1> USE DEF DeliveryInv
<1>1. /\ UNCHANGED <<inst, nextCap, queue, gaps, captured, head, sealed, finalCap, stopped, goal,
                     link, stream, rows, up>>
      /\ pc' = "select" /\ retained' = NoRecord /\ attempted' = FALSE
  BY DEF CommitAccepted, Go, captureVars, closeVars, streamVars
<1>2. inst \in Instance /\ link # NoConn
  BY ConnAssumption DEF Stored, Typed, BridgeTyped
<1>3. retained \in rows[inst]
  BY <1>2 DEF AnswerInv
<1>4. retained.last < stream[inst].next
  BY <1>2, <1>3 DEF Stored, RowsTileCursor, Tiles
<1>5. LinkInv' /\ AnswerInv' /\ \A c \in Conn : conn'[c].req = conn[c].req
  BY <1>1, ConsumeKeeps
<1>6. WorkerInv'
  BY <1>1 DEF WorkerInv
<1>7. RequestInv'
  <2>1. \A c \in Conn : conn[c].req # NoRequest => stream[inst].nonce # c
    BY AnswerExcludes
  <2> QED
    BY <1>1, <1>5, <2>1 DEF RequestInv
<1>8. HistoryInv'
  BY <1>1, HistoryFramed DEF HistoryInv, NothingPending
<1>9. LocalInv'
  <2>1. \A n \in 1 .. nextCap - 1 : Placed(n)'
    <3> SUFFICES ASSUME NEW n \in 1 .. nextCap - 1
                 PROVE  Placed(n)'
      OBVIOUS
    <3>1. Placed(n) /\ n \in Nat
      BY DEF LocalInv
    <3>2. retained # NoRecord /\ n <= retained.last => n < stream[inst].next
      BY <1>2, <1>4, <3>1, LocalTypes DEF Stored
    <3> QED
      BY <1>1, <3>1, <3>2 DEF Placed
  <2> QED
    BY <1>1, <2>1 DEF LocalInv, KindOf, Observed
<1> QED
  BY <1>5, <1>6, <1>7, <1>8, <1>9

\* A close acknowledged ends the worker behind a clean close.
LEMMA ClosedKeeps ==
  ASSUME Stored, DeliveryInv, link \in Conn, Answer # NoReply, Answer.code = "ok",
         pc \in {"closing", "recovering"}, CloseAccepted, HangUp(link), UNCHANGED <<streamVars, up>>
  PROVE  DeliveryInv'
<1> USE DEF DeliveryInv
<1>1. /\ UNCHANGED <<inst, nextCap, queue, gaps, captured, head, retained, attempted, sealed,
                     finalCap, goal, stream, rows, up>>
      /\ pc' = "select" /\ link' = NoConn
  BY DEF CloseAccepted, captureVars, streamVars
<1>2. stream[inst].status = "clean_closed"
  BY ConnAssumption DEF AnswerInv
<1>3. LinkInv' /\ AnswerInv' /\ \A c \in Conn : conn'[c].req \in {conn[c].req, NoRequest}
  BY <1>1, LinkDropped DEF Stored, Typed, Waiting
<1>4. WorkerInv'
  BY <1>1 DEF WorkerInv
<1>5. RequestInv'
  BY <1>1, <1>3, RequestsKept
<1>6. HistoryInv'
  BY <1>1, <1>2 DEF HistoryInv, KindOf, NothingPending
<1>7. LocalInv'
  BY <1>1, LocalFramed
<1> QED
  BY <1>3, <1>4, <1>5, <1>6, <1>7

\* The bridge starts again from nothing under an identity the daemon has not seen.
LEMMA RotateKeeps ==
  ASSUME Stored, DeliveryInv, link \in Conn, Answer.code = "bridge_abandoned",
         NEW fresh \in Instance, Unused(fresh), Rotate(fresh), HangUp(link),
         UNCHANGED <<streamVars, up>>
  PROVE  DeliveryInv'
<1> USE DEF DeliveryInv
<1>1. /\ inst' = fresh /\ nextCap' = 1 /\ queue' = << >> /\ gaps' = << >> /\ head' = 0
      /\ retained' = NoRecord /\ attempted' = FALSE /\ sealed' = FALSE
      /\ pc' = "select" /\ link' = NoConn
      /\ UNCHANGED <<captured, stopped, goal, stream, rows, up>>
  BY DEF Rotate, EmptyBuffers, BreakSeal, streamVars
<1>2. fresh # inst /\ stream[fresh].status = "absent" /\ inst \in Instance
  BY DEF Unused, Stored, Typed, BridgeTyped
<1>3. stream[inst].status = "abandoned"
  BY ConnAssumption DEF AnswerInv
<1>4. captured[fresh] = << >> /\ stream[fresh].next = 1 /\ rows[fresh] = {}
  BY <1>2 DEF HistoryInv
<1>5. LinkInv' /\ AnswerInv' /\ \A c \in Conn : conn'[c].req \in {conn[c].req, NoRequest}
  BY <1>1, LinkDropped DEF Stored, Typed, Waiting
<1>6. WorkerInv'
  BY <1>1 DEF WorkerInv
<1>7. RequestInv'
  <2>1. \A c \in Conn : conn[c].req # NoRequest =>
           /\ stream[conn[c].req.inst].status = "abandoned"
           /\ conn[c].req.op = "commit" => conn[c].req.rec # NoRecord
    BY <1>3 DEF RequestInv
  <2>2. \A c \in Conn : conn[c].req # NoRequest => conn[c].req.inst # fresh
    BY <1>2, <2>1
  <2> QED
    BY <1>1, <1>5, <2>1, <2>2 DEF RequestInv
<1>8. HistoryInv'
  <2>1. ~stopped
    BY <1>3 DEF HistoryInv
  <2>2. \A i \in Instance : stream[i].status \in {"absent", "abandoned"}
    BY <1>3 DEF HistoryInv
  <2>3. \A i \in Instance : /\ stream[i].status = "absent" => captured[i] = << >>
                            /\ stream[i].status = "absent" => stream[i].next = 1 /\ rows[i] = {}
                            /\ \A r \in rows[i] : KindOf(i, r)
    BY <1>3 DEF HistoryInv
  <2>4. nextCap' = Len(captured'[inst']) + 1
    BY <1>1, <1>4
  <2>5. captured \in [Instance -> Seq({"observation", "gap"})]
    BY DEF HistoryInv
  <2>6. stream[fresh].status # "clean_closed"
    BY <1>2
  <2> QED
    BY <1>1, <2>1, <2>2, <2>3, <2>4, <2>5, <2>6 DEF HistoryInv, KindOf
<1>9. LocalInv'
  BY <1>1 DEF LocalInv
<1> QED
  BY <1>5, <1>6, <1>7, <1>8, <1>9

\* A clean close whose answer was lost is asked for again.
LEMMA RecoverKeeps ==
  ASSUME Stored, DeliveryInv, link \in Conn, pc = "attaching", Answer # NoReply,
         Answer.code = "bridge_clean_closed", sealed,
         Send(link, "recover"), Go("recovering"),
         UNCHANGED <<inst, captureVars, head, retained, attempted, closeVars, health>>,
         UNCHANGED <<streamVars, up>>
  PROVE  DeliveryInv'
<1> USE DEF DeliveryInv
<1>1. /\ UNCHANGED <<inst, nextCap, queue, gaps, captured, head, retained, attempted, sealed,
                     finalCap, stopped, goal, link, stream, rows, up>>
      /\ pc' = "recovering"
  BY DEF Go, captureVars, closeVars, streamVars
<1>2. link # NoConn
  BY ConnAssumption
<1>3. stream[inst].status = "clean_closed"
  BY <1>2 DEF AnswerInv
<1>4. /\ conn'[link].phase = conn[link].phase
      /\ conn'[link].req = Request("recover") /\ conn'[link].rep = NoReply
      /\ \A d \in Conn : d # link => conn'[d] = conn[d]
  BY SendFacts DEF Stored, Typed
<1>5. Request("recover").inst = inst /\ Request("recover").op = "recover"
      /\ Request("recover") = Request("recover")'
  BY <1>1 DEF Request
<1>6. WorkerInv'
  BY <1>1 DEF WorkerInv
<1>7. LinkInv'
  <2>1. \A c \in Conn :
          /\ conn'[c].phase \in {"open", "dead"} <=> c = link'
          /\ conn'[c].phase = "open" => up'
          /\ conn'[c].phase = "dead" => \A d \in Conn : d # c => conn'[d].req = NoRequest
          /\ conn'[c].phase = "free" => conn'[c].req = NoRequest
    <3>1. \A c \in Conn : conn'[c].phase = conn[c].phase
      BY <1>4
    <3>2. conn[link].phase \in {"open", "dead"}
      BY DEF LinkInv
    <3>3. \A c \in Conn : conn'[c].phase = "dead" => c = link
      BY <3>1 DEF LinkInv
    <3> QED
      BY <1>1, <1>4, <3>1, <3>2, <3>3 DEF LinkInv
  <2>2. conn'[link'].req = Request(Requesting[pc])'
    BY <1>1, <1>4, <1>5, RequestOps
  <2>3. pc' \in Waiting /\ pc' \notin {"connect", "done"}
    BY <1>1 DEF Waiting
  <2> QED
    BY <1>1, <1>2, <1>4, <2>1, <2>2, <2>3 DEF LinkInv
<1>8. RequestInv'
  BY <1>1, <1>4, <1>5 DEF RequestInv
<1>9. AnswerInv'
  <2>1. Answer'.code = "none"
    BY <1>1, <1>4 DEF Answer, NoReply
  <2>2. Terminal(inst)'
    BY <1>1, <1>3 DEF Terminal
  <2> QED
    BY <2>1, <2>2 DEF AnswerInv
<1>10. HistoryInv'
  BY <1>1, HistoryFramed DEF HistoryInv, NothingPending
<1>11. LocalInv'
  BY <1>1, LocalFramed
<1> QED
  BY <1>6, <1>7, <1>8, <1>9, <1>10, <1>11

\* Every step of the worker keeps all of it.
LEMMA WorkerKeeps ==
  ASSUME Stored, DeliveryInv, WorkerNext \/ TransportFails
  PROVE  DeliveryInv'
<1>1. CASE LocalNext /\ UNCHANGED <<streamVars, conn, up, faults>>
  BY <1>1, SelectKeeps, ReadGapKeeps, ClaimKeeps, DecideKeeps DEF LocalNext
<1>2. CASE Connect
  BY <1>2, ConnectKeeps
<1>3. CASE ConnectRefused
  <2>1. link = NoConn
    BY <1>3 DEF ConnectRefused, DeliveryInv, LinkInv
  <2> QED
    BY <1>3, <2>1, FailureKeeps DEF ConnectRefused
<1>4. CASE CallNext
  BY <1>4, CallKeeps
<1>5. ASSUME pc \in Waiting
      PROVE  link \in Conn /\ link # NoConn
  BY <1>5 DEF DeliveryInv, LinkInv, WorkerInv
<1>6. CASE ReadAnswer
  <2>1. link \in Conn /\ link # NoConn /\ Answer # NoReply /\ UNCHANGED <<streamVars, up>>
    BY <1>5, <1>6 DEF ReadAnswer
  <2>2. CASE RpcFailed
    BY <2>1, <2>2, RotateKeeps, RecoverKeeps, FailureKeeps DEF RpcFailed
  <2>3. CASE Answer.code = "ok"
    BY <1>6, <2>1, <2>3, AttachedKeeps, FramedKeeps, CommittedKeeps, ClosedKeeps, FailureKeeps
       DEF ReadAnswer
  <2> QED
    BY <1>6, <2>2, <2>3 DEF ReadAnswer
<1>7. CASE PeerGone \/ TransportFails
  BY <1>5, <1>7, FailureKeeps DEF PeerGone, TransportFails
<1>8. CASE Finish
  BY <1>8, FailureKeeps DEF Finish
<1> QED
  BY <1>1, <1>2, <1>3, <1>4, <1>6, <1>7, <1>8 DEF WorkerNext

-----------------------------------------------------------------------------
(* The daemon *)

\* An observation has one capture.
LEMMA ObservationSingle ==
  ASSUME NEW r \in Record, r.kind = "observation"
  PROVE  r.first = r.last
BY DEF Record, Observation, GapRecord

\* The daemon moves nothing of the plugin.
LEMMA PluginUntouched ==
  ASSUME UNCHANGED bridgeVars
  PROVE  UNCHANGED <<inst, nextCap, queue, gaps, captured, head, retained, attempted, closing, sealed,
                     finalCap, stopped, goal, pc, link>>
BY DEF bridgeVars, captureVars, closeVars, workerVars

\* With cursors, records and statuses as they were, so is everything said of them.
LEMMA StoreKept ==
  ASSUME inst \in Instance, HistoryInv, LocalInv, UNCHANGED bridgeVars, rows' = rows,
         \A j \in Instance : /\ stream'[j].next = stream[j].next
                             /\ stream'[j].status = stream[j].status
  PROVE  HistoryInv' /\ LocalInv'
<1>1. UNCHANGED <<inst, nextCap, queue, gaps, captured, head, retained, attempted, sealed, stopped>>
  BY PluginUntouched
<1>2. HistoryInv'
  BY <1>1 DEF HistoryInv, KindOf, NothingPending
<1>3. LocalInv'
  BY <1>1 DEF LocalInv, KindOf, Placed, Observed
<1> QED
  BY <1>2, <1>3

\* A request dispatched is gone, and the worker's link is as it was.
LEMMA ServedLink ==
  ASSUME conn \in [Conn -> ConnType], WorkerInv, LinkInv, NEW c \in Conn, conn[c].req # NoRequest,
         NEW code, NEW next, NEW bound, Reply(c, code, next, bound),
         UNCHANGED bridgeVars, up' = up
  PROVE  /\ WorkerInv' /\ LinkInv'
         /\ conn'[c].req = NoRequest /\ \A d \in Conn : conn'[d].req \in {conn[d].req, NoRequest}
         /\ \A d \in Conn : d # c => conn'[d] = conn[d]
         /\ conn'[c].phase = conn[c].phase
         /\ conn[c].phase = "open" => conn'[c].rep = [code |-> code, next |-> next]
<1>1. UNCHANGED <<inst, head, retained, attempted, closing, sealed, finalCap, stopped, goal, pc, link>>
  BY PluginUntouched
<1>2. /\ conn'[c].phase = conn[c].phase /\ conn'[c].req = NoRequest
      /\ conn[c].phase = "open" => conn'[c].rep = [code |-> code, next |-> next]
      /\ \A d \in Conn : d # c => conn'[d] = conn[d]
  BY ReplyFacts
<1>3. WorkerInv'
  BY <1>1 DEF WorkerInv
<1>4. \A d \in Conn : conn'[d].phase = conn[d].phase /\ conn'[d].req \in {conn[d].req, NoRequest}
  BY <1>2
<1>5. link # NoConn => link \in Conn
  BY DEF WorkerInv
<1>6. LinkInv'
  <2>1. \A d \in Conn :
          /\ conn'[d].phase \in {"open", "dead"} <=> d = link'
          /\ conn'[d].phase = "open" => up'
          /\ conn'[d].phase = "dead" => \A e \in Conn : e # d => conn'[e].req = NoRequest
          /\ conn'[d].phase = "free" => conn'[d].req = NoRequest
    BY <1>1, <1>4 DEF LinkInv
  <2>2. ASSUME link # NoConn
        PROVE  /\ pc \notin Waiting => conn'[link].req = NoRequest /\ conn'[link].rep = NoReply
               /\ conn'[link].rep # NoReply => conn'[link].req = NoRequest
               /\ conn'[link].req # NoRequest => conn'[link].req = Request(Requesting[pc])
    <3>1. CASE link = c
      BY <1>2, <2>2, <3>1 DEF LinkInv
    <3>2. CASE link # c
      BY <1>2, <1>5, <2>2, <3>2 DEF LinkInv
    <3> QED
      BY <3>1, <3>2
  <2>3. \A op : Request(op) = Request(op)'
    BY <1>1 DEF Request
  <2> QED
    BY <1>1, <2>1, <2>2, <2>3 DEF LinkInv
<1> QED
  BY <1>2, <1>3, <1>4, <1>6

\* The request on the worker's own link is the call it is waiting in.
LEMMA OwnRequest ==
  ASSUME DeliveryInv, link \in Conn, conn[link].req # NoRequest
  PROVE  /\ pc \in Waiting /\ conn[link].req.op = Requesting[pc] /\ conn[link].req.inst = inst
         /\ conn[link].req.op = "attach" <=> pc = "attaching"
         /\ conn[link].req.op = "frame" <=> pc = "framing"
         /\ conn[link].req.op = "commit" <=> pc = "committing"
         /\ conn[link].req.op = "close" <=> pc = "closing"
         /\ conn[link].req.op = "recover" <=> pc = "recovering"
         /\ conn[link].req.op = "commit" => conn[link].req.rec = retained
<1>1. pc \in Waiting /\ conn[link].req = Request(Requesting[pc])
  BY ConnAssumption DEF DeliveryInv, LinkInv
<1> QED
  BY <1>1, RequestOps DEF Request, Waiting

\* A connection the worker has given up can act on the current stream only while
\* the worker is not attached.
LEMMA OtherActs ==
  ASSUME DeliveryInv, NEW c \in Conn, c # link, conn[c].req # NoRequest, ~Terminal(inst),
         stream[inst].nonce \in {NoConn, c}
  PROVE  \/ link = NoConn
         \/ pc = "attaching" /\ Answer.code \notin {"ok", "bridge_abandoned", "bridge_clean_closed"}
<1> SUFFICES ASSUME link # NoConn
             PROVE  pc = "attaching"
                    /\ Answer.code \notin {"ok", "bridge_abandoned", "bridge_clean_closed"}
  OBVIOUS
<1>1. link \in Conn
  BY DEF DeliveryInv, WorkerInv
<1>2. conn[link].phase = "open"
  BY <1>1 DEF DeliveryInv, LinkInv
<1>3. stream[inst].nonce # link
  BY <1>1
<1>4. pc = "attaching" /\ Answer.code # "ok"
  BY <1>2, <1>3 DEF DeliveryInv, AnswerInv
<1>5. Answer.code \notin {"bridge_abandoned", "bridge_clean_closed"}
  BY DEF DeliveryInv, AnswerInv, Terminal
<1> QED
  BY <1>4, <1>5

\* A write to the current stream for one connection leaves the requests of the
\* others as they were.
LEMMA RequestsServed ==
  ASSUME Stored, RequestInv, UNCHANGED bridgeVars, NEW c \in Conn,
         conn'[c].req = NoRequest, \A d \in Conn : d # c => conn'[d] = conn[d],
         \A j \in Instance : j # inst => stream'[j] = stream[j],
         stream'[inst].nonce \in {stream[inst].nonce, NoConn, c}
  PROVE  RequestInv'
<1>1. UNCHANGED <<inst, retained, attempted, sealed>>
  BY PluginUntouched
<1> SUFFICES ASSUME NEW d \in Conn, d # c, conn[d].req # NoRequest
             PROVE  LET req == conn[d].req
                    IN /\ req.inst = inst \/ stream'[req.inst].status = "abandoned"
                       /\ req.op = "commit" => req.rec # NoRecord
                       /\ req.inst = inst /\ req.op = "close" => sealed
                       /\ req.inst = inst /\ req.op = "commit" /\ stream'[inst].nonce = d =>
                             attempted /\ retained = req.rec
  BY <1>1 DEF RequestInv
<1>2. conn[d].req.inst \in Instance
  BY DEF Stored, Typed, ConnType, RequestType
<1>3. stream'[inst].nonce = d => stream[inst].nonce = d
  BY ConnAssumption
<1> QED
  BY <1>2, <1>3 DEF RequestInv

\* A request answered without a write changes nothing but the answer.
LEMMA AnsweredKeeps ==
  ASSUME Stored, DeliveryInv, NEW c \in Conn, conn[c].req # NoRequest,
         conn[c].phase \in {"open", "eof"},
         NEW code, NEW next, NEW bound, Reply(c, code, next, bound),
         UNCHANGED bridgeVars, UNCHANGED streamVars, up' = up,
         c = link => /\ code = "ok" => pc # "attaching"
                     /\ code = "ok" /\ pc = "committing" => retained \in rows[inst]
                     /\ code = "ok" /\ pc \in {"closing", "recovering"} =>
                           stream[inst].status = "clean_closed"
                     /\ code = "bridge_abandoned" => stream[inst].status = "abandoned"
                     /\ code = "bridge_clean_closed" => stream[inst].status = "clean_closed"
  PROVE  DeliveryInv'
<1> USE DEF DeliveryInv
<1>0. inst \in Instance /\ conn \in [Conn -> ConnType] /\ stream' = stream /\ rows' = rows
  BY DEF Stored, Typed, BridgeTyped, streamVars
<1>1. UNCHANGED <<inst, retained, attempted, sealed, pc, link>>
  BY PluginUntouched
<1>2. /\ WorkerInv' /\ LinkInv'
      /\ \A d \in Conn : conn'[d].req \in {conn[d].req, NoRequest}
      /\ \A d \in Conn : d # c => conn'[d] = conn[d]
      /\ conn'[c].phase = conn[c].phase
      /\ conn[c].phase = "open" => conn'[c].rep = [code |-> code, next |-> next]
  BY <1>0, ServedLink
<1>3. RequestInv'
  BY <1>0, <1>1, <1>2, RequestsKept
<1>4. AnswerInv'
  <2>1. CASE link = c
    <3>1. conn[c].phase = "open"
      BY <2>1 DEF LinkInv
    <3>2. Answer'.code = code /\ conn'[link].phase = "open"
      BY <1>1, <1>2, <2>1, <3>1 DEF Answer
    <3>3. pc # "attaching" => stream[inst].nonce = link \/ Terminal(inst)
      BY <2>1, <3>1, ConnAssumption DEF AnswerInv
    <3> QED
      BY <1>0, <1>1, <2>1, <3>2, <3>3 DEF AnswerInv, Terminal, Waiting
  <2>2. CASE link # c
    <3>1. link # NoConn => link \in Conn
      BY DEF WorkerInv
    <3>2. link # NoConn => conn'[link] = conn[link]
      BY <1>2, <2>2, <3>1
    <3> QED
      BY <1>0, <1>1, <3>2 DEF AnswerInv, Answer, Terminal
  <2> QED
    BY <2>1, <2>2
<1>5. HistoryInv' /\ LocalInv'
  BY <1>0, StoreKept
<1> QED
  BY <1>2, <1>3, <1>4, <1>5

\* A stream is attached for the worker, or by a connection it has given up while it
\* waits for the answer to its own attach.
LEMMA ServeAttachKeeps ==
  ASSUME Stored, DeliveryInv, NEW c \in Conn, conn[c].req # NoRequest,
         conn[c].phase \in {"open", "eof"}, NEW i \in Instance, i = conn[c].req.inst,
         conn[c].req.op = "attach", ServeAttach(c, i), UNCHANGED bridgeVars, up' = up
  PROVE  DeliveryInv'
<1> USE DEF DeliveryInv
<1>0. inst \in Instance /\ conn \in [Conn -> ConnType] /\ stream \in [Instance -> StreamType]
  BY DEF Stored, Typed, BridgeTyped, TypeOK
<1>1. UNCHANGED <<inst, nextCap, queue, gaps, captured, head, retained, attempted, sealed, stopped,
                  pc, link>>
  BY PluginUntouched
<1>2. c = link => pc = "attaching" /\ i = inst
  BY OwnRequest
<1>3. i = inst \/ stream[i].status = "abandoned"
  BY DEF RequestInv
<1>4. CASE AttachCode(i, c) # "ok"
  <2>1. Reply(c, AttachCode(i, c), 0, conn[c].bound) /\ UNCHANGED streamVars
    BY <1>4 DEF ServeAttach
  <2>2. /\ AttachCode(i, c) = "bridge_abandoned" => stream[i].status = "abandoned"
        /\ AttachCode(i, c) = "bridge_clean_closed" => stream[i].status = "clean_closed"
    BY DEF AttachCode
  <2> QED
    BY <1>2, <1>4, <2>1, <2>2, AnsweredKeeps
<1>5. CASE AttachCode(i, c) = "ok"
  <2>1. Attach(i, c) /\ Reply(c, "ok", stream[i].next, conn[c].bound \cup {i})
    BY <1>5 DEF ServeAttach
  <2>2. ~Terminal(i) /\ stream[i].nonce \in {NoConn, c} /\ i = inst
    BY <1>3, <1>5 DEF AttachCode, Terminal
  <2>3. /\ stream'[i].status = "open" /\ stream'[i].nonce = c
        /\ stream'[i].next = stream[i].next /\ rows' = rows
        /\ \A j \in Instance : j # i => stream'[j] = stream[j]
    <3>1. stream[i] \in StreamType
      BY <1>0
    <3> QED
      BY <1>0, <2>1, <3>1 DEF Attach, StreamType
  <2>4. /\ WorkerInv' /\ LinkInv' /\ conn'[c].req = NoRequest
        /\ \A d \in Conn : d # c => conn'[d] = conn[d]
        /\ conn'[c].phase = conn[c].phase
        /\ conn[c].phase = "open" => conn'[c].rep = [code |-> "ok", next |-> stream[i].next]
    BY <1>0, <2>1, ServedLink
  <2>5. RequestInv'
    BY <2>2, <2>3, <2>4, RequestsServed
  <2>6. AnswerInv'
    <3>1. CASE link = c
      <4>1. conn[c].phase = "open"
        BY <3>1 DEF LinkInv
      <4>2. Answer' = [code |-> "ok", next |-> stream[i].next]
        BY <1>1, <2>4, <3>1, <4>1 DEF Answer
      <4> QED
        BY <1>1, <1>2, <2>2, <2>3, <3>1, <4>2 DEF AnswerInv
    <3>2. CASE link # c
      <4>1. link # NoConn => link \in Conn /\ conn'[link] = conn[link]
        BY <2>4, <3>2 DEF WorkerInv
      <4>2. \/ link = NoConn
            \/ pc = "attaching" /\ Answer.code \notin {"ok", "bridge_abandoned", "bridge_clean_closed"}
        BY <2>2, <3>2, OtherActs
      <4> QED
        BY <1>1, <4>1, <4>2 DEF AnswerInv, Answer
    <3> QED
      BY <3>1, <3>2
  <2>7. HistoryInv'
    <3>1. ~stopped
      BY <2>2 DEF HistoryInv, Terminal
    <3>2. stream'[inst].status = "open"
      BY <2>2, <2>3
    <3>3. \A j \in Instance : /\ j # inst => stream'[j] = stream[j]
                              /\ \A r \in rows[j] : KindOf(j, r)
      BY <2>2, <2>3 DEF HistoryInv
    <3> QED
      BY <1>1, <2>3, <3>1, <3>2, <3>3 DEF HistoryInv, KindOf, NothingPending
  <2>8. LocalInv'
    BY <1>1, <2>2, <2>3 DEF LocalInv, KindOf, Placed, Observed
  <2> QED
    BY <2>4, <2>5, <2>6, <2>7, <2>8
<1> QED
  BY <1>4, <1>5

\* A record is committed only for the worker that still has it in hand; everything
\* else that is local comes after it.
LEMMA ServeCommitKeeps ==
  ASSUME Stored, DeliveryInv, NEW c \in Conn, conn[c].req # NoRequest,
         conn[c].phase \in {"open", "eof"}, NEW i \in Instance, i = conn[c].req.inst,
         NEW r, r = conn[c].req.rec,
         conn[c].req.op = "commit", ServeCommit(c, i, r), UNCHANGED bridgeVars, up' = up
  PROVE  DeliveryInv'
<1> USE DEF DeliveryInv
<1>0. /\ inst \in Instance /\ conn \in [Conn -> ConnType] /\ stream \in [Instance -> StreamType]
      /\ rows \in [Instance -> SUBSET Record]
  BY DEF Stored, Typed, BridgeTyped, TypeOK
<1>1. UNCHANGED <<inst, nextCap, queue, gaps, captured, head, retained, attempted, sealed, stopped,
                  pc, link>>
  BY PluginUntouched
<1>2. c = link => pc = "committing" /\ i = inst /\ r = retained
  BY OwnRequest
<1>3. i = inst \/ stream[i].status = "abandoned"
  BY DEF RequestInv
<1> DEFINE code == CommitCode(i, c, r)
<1>4. CASE code # "ok"
  <2> DEFINE answer == IF code = "duplicate" THEN "ok" ELSE code
  <2>1. Reply(c, answer, 0, conn[c].bound) /\ UNCHANGED streamVars
    BY <1>4 DEF ServeCommit
  <2>2. /\ answer = "ok" => r \in rows[i]
        /\ answer \notin {"bridge_abandoned", "bridge_clean_closed"}
    BY <1>4 DEF CommitCode
  <2> HIDE DEF answer
  <2> QED
    BY <1>2, <2>1, <2>2, AnsweredKeeps
<1>5. CASE code = "ok"
  <2>1. Commit(i, c, r) /\ Reply(c, "ok", 0, conn[c].bound)
    BY <1>5 DEF ServeCommit
  <2>2. stream[i].status = "open" /\ stream[i].nonce = c /\ r.first = stream[i].next
    BY <1>5 DEF CommitCode
  <2>3. i = inst /\ attempted /\ retained = r /\ ~Terminal(inst)
    BY <1>3, <2>2 DEF RequestInv, Terminal
  <2>4. /\ stream'[i].status = "open" /\ stream'[i].nonce = c
        /\ stream'[i].next = r.last + 1 /\ rows'[i] = rows[i] \cup {r}
        /\ \A j \in Instance : j # i => stream'[j] = stream[j] /\ rows'[j] = rows[j]
    <3>1. stream[i] \in StreamType
      BY <1>0
    <3> QED
      BY <1>0, <2>1, <2>2, <3>1 DEF Commit, StreamType
  <2>5. /\ WorkerInv' /\ LinkInv' /\ conn'[c].req = NoRequest
        /\ \A d \in Conn : d # c => conn'[d] = conn[d]
        /\ conn'[c].phase = conn[c].phase
        /\ conn[c].phase = "open" => conn'[c].rep = [code |-> "ok", next |-> 0]
    BY <1>0, <2>1, ServedLink
  <2>6. RequestInv'
    BY <2>2, <2>3, <2>4, <2>5, RequestsServed
  <2>7. AnswerInv'
    <3>1. CASE link = c
      <4>1. conn[c].phase = "open"
        BY <3>1 DEF LinkInv
      <4>2. Answer'.code = "ok"
        BY <1>1, <2>5, <3>1, <4>1 DEF Answer
      <4>3. pc' = "committing" /\ retained' \in rows'[inst'] /\ stream'[inst'].nonce = link'
        BY <1>1, <1>2, <2>3, <2>4, <3>1
      <4> QED
        BY <4>2, <4>3 DEF AnswerInv
    <3>2. CASE link # c
      <4>1. link # NoConn => link \in Conn /\ conn'[link] = conn[link]
        BY <2>5, <3>2 DEF WorkerInv
      <4>2. \/ link = NoConn
            \/ pc = "attaching" /\ Answer.code \notin {"ok", "bridge_abandoned", "bridge_clean_closed"}
        BY <2>2, <2>3, <3>2, OtherActs
      <4> QED
        BY <1>1, <4>1, <4>2 DEF AnswerInv, Answer
    <3> QED
      BY <3>1, <3>2
  <2>8. retained # NoRecord
    BY <2>3 DEF WorkerInv
  <2>9. KindOf(inst, retained)
    BY <2>8 DEF LocalInv
  <2>10. HistoryInv'
    <3>1. ~stopped
      BY <2>3 DEF HistoryInv, Terminal
    <3>2. stream'[inst].status = "open"
      BY <2>3, <2>4
    <3>3. \A j \in Instance : /\ j # inst => stream'[j] = stream[j] /\ rows'[j] = rows[j]
                              /\ \A s \in rows'[j] : KindOf(j, s)
      BY <1>0, <2>3, <2>4, <2>9 DEF HistoryInv
    <3> QED
      BY <1>1, <3>1, <3>2, <3>3 DEF HistoryInv, KindOf, NothingPending
  <2>11. /\ nextCap \in Nat /\ head \in Nat /\ stream[inst].next \in Nat
         /\ \A k \in DOMAIN queue : queue[k] \in Nat
         /\ \A k \in DOMAIN gaps :
               /\ gaps[k].kind = "gap" /\ gaps[k].first \in Nat /\ gaps[k].last \in Nat
               /\ gaps[k].first <= gaps[k].last
         /\ retained \in Record /\ retained.kind \in {"observation", "gap"}
         /\ retained.first \in Nat /\ retained.last \in Nat /\ retained.first <= retained.last
         /\ retained.first = stream[inst].next
         /\ retained.kind = "observation" => retained.first = retained.last
    BY <2>2, <2>3, <2>8, LocalTypes, ObservationSingle DEF Stored
  <2>12. stream'[inst'].next = retained.last + 1
    BY <1>1, <2>3, <2>4
  <2>13. ASSUME NEW n \in Nat, Observed(n), retained.kind = "observation" => retained.first < n
         PROVE  Observed(n)'
    <3>1. CASE retained.kind = "observation"
      BY <1>1, <2>11, <2>12, <2>13, <3>1 DEF Observed
    <3>2. CASE retained.kind = "gap"
      <4>1. n \notin Covers(retained)
        BY <2>9, <2>13, <3>2 DEF KindOf, Observed
      <4>2. retained.last < n
        BY <2>11, <2>13, <4>1 DEF Covers, Observed
      <4> QED
        BY <1>1, <2>11, <2>12, <2>13, <4>2 DEF Observed
    <3> QED
      BY <2>11, <3>1, <3>2
  <2>14. ASSUME NEW k \in DOMAIN gaps
         PROVE  retained.last < gaps[k].first
    <3>1. CASE retained.kind = "gap"
      BY <2>8, <3>1 DEF LocalInv
    <3>2. CASE retained.kind = "observation"
      <4>1. KindOf(inst, gaps[k]) /\ stream[inst].next <= gaps[k].first
        BY DEF LocalInv
      <4>2. captured[inst][gaps[k].first] = "gap"
        BY <2>11, <4>1 DEF KindOf, Covers
      <4>3. captured[inst][retained.first] = "observation"
        BY <2>9, <2>11, <3>2 DEF KindOf, Covers
      <4>4. gaps[k].first # retained.first
        BY <4>2, <4>3
      <4> QED
        BY <2>11, <3>2, <4>1, <4>4
    <3> QED
      BY <2>11, <3>1, <3>2
  <2>15. LocalInv'
    <3>1. \A k \in DOMAIN queue' : Observed(queue[k])'
      <4> SUFFICES ASSUME NEW k \in DOMAIN queue
                   PROVE  Observed(queue[k])'
        BY <1>1
      <4>1. Observed(queue[k]) /\ (retained.kind = "observation" => retained.first < queue[k])
        BY <2>8 DEF LocalInv
      <4> QED
        BY <1>1, <2>11, <2>13, <4>1 DEF Observed
    <3>2. head' # 0 => Observed(head)'
      <4> SUFFICES ASSUME head # 0
                   PROVE  Observed(head)'
        BY <1>1
      <4>1. Observed(head) /\ (retained.kind = "observation" => retained.first < head)
        BY <2>8 DEF LocalInv
      <4> QED
        BY <1>1, <2>11, <2>13, <4>1 DEF Observed
    <3>3. \A k \in DOMAIN gaps' : stream'[inst'].next <= gaps'[k].first /\ KindOf(inst, gaps[k])'
      BY <1>1, <2>11, <2>12, <2>14 DEF LocalInv, KindOf
    <3>4. KindOf(inst, retained)' /\ attempted' /\ retained' \in rows'[inst']
      BY <1>1, <2>3, <2>4, <2>9 DEF KindOf
    <3>5. \A n \in 1 .. nextCap' - 1 : Placed(n)'
      <4> SUFFICES ASSUME NEW n \in 1 .. nextCap - 1
                   PROVE  Placed(n)'
        BY <1>1
      <4>1. Placed(n) /\ n \in Nat
        BY <2>11 DEF LocalInv
      <4>2. n < stream[inst].next => n < stream'[inst'].next
        BY <2>11, <2>12, <4>1
      <4> QED
        BY <1>1, <4>1, <4>2 DEF Placed
    <3> QED
      BY <1>1, <2>8, <3>1, <3>2, <3>3, <3>4, <3>5 DEF LocalInv
  <2> QED
    BY <2>5, <2>6, <2>7, <2>10, <2>15
<1> QED
  BY <1>4, <1>5

\* A close is served only behind the worker's seal, and takes the stream with it.
LEMMA ServeCloseKeeps ==
  ASSUME Stored, DeliveryInv, NEW c \in Conn, conn[c].req # NoRequest,
         conn[c].phase \in {"open", "eof"}, NEW i \in Instance, i = conn[c].req.inst,
         NEW final,
         conn[c].req.op = "close", ServeClose(c, i, final), UNCHANGED bridgeVars, up' = up
  PROVE  DeliveryInv'
<1> USE DEF DeliveryInv
<1>0. inst \in Instance /\ conn \in [Conn -> ConnType] /\ stream \in [Instance -> StreamType]
  BY DEF Stored, Typed, BridgeTyped, TypeOK
<1>1. UNCHANGED <<inst, nextCap, queue, gaps, captured, head, retained, attempted, sealed, stopped,
                  pc, link>>
  BY PluginUntouched
<1>2. c = link => pc = "closing" /\ i = inst
  BY OwnRequest
<1>3. i = inst \/ stream[i].status = "abandoned"
  BY DEF RequestInv
<1> DEFINE code == CloseCode(i, c, final)
<1>4. CASE code # "ok"
  <2>1. Reply(c, code, 0, conn[c].bound) /\ UNCHANGED streamVars
    BY <1>4 DEF ServeClose
  <2>2. code \notin {"bridge_abandoned", "bridge_clean_closed"}
    BY DEF CloseCode
  <2> HIDE DEF code
  <2> QED
    BY <1>4, <2>1, <2>2, AnsweredKeeps
<1>5. CASE code = "ok"
  <2>1. CloseStream(i, c, final) /\ Reply(c, "ok", 0, conn[c].bound)
    BY <1>5 DEF ServeClose
  <2>2. stream[i].status = "open" /\ stream[i].nonce = c
    BY <1>5 DEF CloseCode
  <2>3. i = inst /\ sealed /\ ~Terminal(inst)
    BY <1>3, <2>2 DEF RequestInv, Terminal
  <2>4. /\ stream'[i].status = "clean_closed" /\ stream'[i].nonce = NoConn
        /\ stream'[i].next = stream[i].next /\ rows' = rows
        /\ \A j \in Instance : j # i => stream'[j] = stream[j]
    <3>1. stream[i] \in StreamType
      BY <1>0
    <3> QED
      BY <1>0, <2>1, <2>2, <3>1 DEF CloseStream, StreamType
  <2>5. /\ WorkerInv' /\ LinkInv' /\ conn'[c].req = NoRequest
        /\ \A d \in Conn : d # c => conn'[d] = conn[d]
        /\ conn'[c].phase = conn[c].phase
        /\ conn[c].phase = "open" => conn'[c].rep = [code |-> "ok", next |-> 0]
    BY <1>0, <2>1, ServedLink
  <2>6. RequestInv'
    BY <2>2, <2>3, <2>4, <2>5, RequestsServed
  <2>7. AnswerInv'
    <3>1. CASE link = c
      <4>1. conn[c].phase = "open"
        BY <3>1 DEF LinkInv
      <4>2. Answer'.code = "ok"
        BY <1>1, <2>5, <3>1, <4>1 DEF Answer
      <4>3. pc' = "closing" /\ stream'[inst'].status = "clean_closed" /\ Terminal(inst)'
        BY <1>1, <1>2, <2>3, <2>4, <3>1 DEF Terminal
      <4> QED
        BY <4>2, <4>3 DEF AnswerInv
    <3>2. CASE link # c
      <4>1. link # NoConn => link \in Conn /\ conn'[link] = conn[link]
        BY <2>5, <3>2 DEF WorkerInv
      <4>2. \/ link = NoConn
            \/ pc = "attaching" /\ Answer.code \notin {"ok", "bridge_abandoned", "bridge_clean_closed"}
        BY <2>2, <2>3, <3>2, OtherActs
      <4> QED
        BY <1>1, <4>1, <4>2 DEF AnswerInv, Answer
    <3> QED
      BY <3>1, <3>2
  <2>8. HistoryInv'
    <3>1. stream'[inst].status = "clean_closed" /\ stream'[inst].next = stream[inst].next
      BY <2>3, <2>4
    <3>2. \A j \in Instance : j # inst => stream'[j] = stream[j]
      BY <2>3, <2>4
    <3> QED
      BY <1>1, <2>3, <2>4, <3>1, <3>2 DEF HistoryInv, KindOf, NothingPending
  <2>9. LocalInv'
    BY <1>1, <2>3, <2>4 DEF LocalInv, KindOf, Placed, Observed
  <2> QED
    BY <2>5, <2>6, <2>7, <2>8, <2>9
<1> QED
  BY <1>4, <1>5

\* A request served keeps all of it.
LEMMA ServeKeeps ==
  ASSUME Stored, DeliveryInv, NEW c \in Conn, Serve(c)
  PROVE  DeliveryInv'
<1> DEFINE req == conn[c].req
<1>1. /\ UNCHANGED bridgeVars /\ up' = up /\ conn[c].phase \in {"open", "eof"}
      /\ req.op \in {"attach", "frame", "commit", "close", "recover"}
  BY DEF Serve
<1>2. req # NoRequest
  BY <1>1 DEF NoRequest
<1>3. req.inst \in Instance
  <2>1. req \in RequestType
    BY DEF Stored, Typed, ConnType
  <2> QED
    BY <1>2, <2>1 DEF RequestType
<1>4. CASE req.op = "attach" /\ ServeAttach(c, req.inst)
  BY <1>1, <1>2, <1>3, <1>4, ServeAttachKeeps
<1>5. CASE req.op = "frame" /\ ServeFrame(c, req.inst)
  <2>1. PICK code \in {"ok", "invalid_binding"} : Reply(c, code, 0, conn[c].bound)
    BY <1>5 DEF ServeFrame
  <2>2. c = link => pc = "framing"
    BY <1>2, <1>5, OwnRequest
  <2> QED
    BY <1>1, <1>2, <1>5, <2>1, <2>2, AnsweredKeeps DEF ServeFrame
<1>6. CASE req.op = "commit" /\ ServeCommit(c, req.inst, req.rec)
  BY <1>1, <1>2, <1>3, <1>6, ServeCommitKeeps
<1>7. CASE req.op = "close" /\ ServeClose(c, req.inst, req.final)
  BY <1>1, <1>2, <1>3, <1>7, ServeCloseKeeps
<1>8. CASE req.op = "recover" /\ ServeRecover(c, req.inst, req.final)
  <2> DEFINE code == RecoverCode(req.inst, req.final)
  <2>1. c = link => pc = "recovering" /\ req.inst = inst
    BY <1>2, <1>8, OwnRequest
  <2>2. /\ code = "ok" => stream[req.inst].status = "clean_closed"
        /\ code \notin {"bridge_abandoned", "bridge_clean_closed"}
    BY DEF RecoverCode
  <2>3. Reply(c, code, 0, conn[c].bound) /\ UNCHANGED streamVars
    BY <1>8 DEF ServeRecover
  <2> HIDE DEF code
  <2> QED
    BY <1>1, <1>2, <2>1, <2>2, <2>3, AnsweredKeeps
<1> QED
  BY <1>4, <1>5, <1>6, <1>7, <1>8 DEF Serve

\* The end of a connection the worker has given up detaches at most its own stream.
LEMMA EofKeeps ==
  ASSUME Stored, DeliveryInv, NEW c \in Conn, ServeEof(c)
  PROVE  DeliveryInv'
<1> USE DEF DeliveryInv
<1>0. /\ inst \in Instance /\ conn \in [Conn -> ConnType] /\ stream \in [Instance -> StreamType]
      /\ UNCHANGED bridgeVars /\ up' = up /\ conn[c].phase = "eof"
      /\ conn[c].bound \subseteq Instance
  BY DEF Stored, Typed, BridgeTyped, TypeOK, ServeEof, ConnType
<1>1. UNCHANGED <<inst, nextCap, queue, gaps, captured, head, retained, attempted, sealed, finalCap,
                  stopped, goal, pc, link>>
  BY <1>0, PluginUntouched
<1>2. /\ conn'[c] = FreeConn /\ FreeConn.phase = "free" /\ FreeConn.req = NoRequest
      /\ \A d \in Conn : d # c => conn'[d] = conn[d]
  BY <1>0 DEF ServeEof, FreeConn
<1>3. c # link
  BY <1>0 DEF LinkInv
<1>4. WorkerInv'
  BY <1>1 DEF WorkerInv
<1>5. LinkInv'
  <2>1. \A d \in Conn :
          /\ conn'[d].phase \in {"open", "dead"} <=> d = link'
          /\ conn'[d].phase = "open" => up'
          /\ conn'[d].phase = "dead" => \A e \in Conn : e # d => conn'[e].req = NoRequest
          /\ conn'[d].phase = "free" => conn'[d].req = NoRequest
    BY <1>0, <1>1, <1>2, <1>3 DEF LinkInv
  <2>2. link # NoConn => conn'[link] = conn[link]
    BY <1>2, <1>3 DEF WorkerInv
  <2>3. \A op : Request(op) = Request(op)'
    BY <1>1 DEF Request
  <2> QED
    BY <1>1, <2>1, <2>2, <2>3 DEF LinkInv
<1>6. /\ rows' = rows
      /\ \A j \in Instance : /\ stream'[j].next = stream[j].next
                             /\ stream'[j].status = stream[j].status
                             /\ \/ stream'[j] = stream[j]
                                \/ stream[j].nonce = c /\ stream'[j].nonce = NoConn
  <2>1. CASE UNCHANGED streamVars
    BY <2>1 DEF streamVars
  <2>2. ASSUME NEW i \in conn[c].bound, Disconnect(i, c)
        PROVE  /\ rows' = rows
               /\ \A j \in Instance : /\ stream'[j].next = stream[j].next
                                      /\ stream'[j].status = stream[j].status
                                      /\ \/ stream'[j] = stream[j]
                                         \/ stream[j].nonce = c /\ stream'[j].nonce = NoConn
    <3>1. i \in Instance /\ stream[i] \in StreamType
      BY <1>0
    <3> QED
      BY <1>0, <2>2, <3>1 DEF Disconnect, StreamType
  <2> QED
    BY <2>1, <2>2 DEF ServeEof
<1>7. RequestInv'
  <2> SUFFICES ASSUME NEW d \in Conn, d # c, conn[d].req # NoRequest
               PROVE  LET req == conn[d].req
                      IN /\ req.inst = inst \/ stream'[req.inst].status = "abandoned"
                         /\ req.op = "commit" => req.rec # NoRecord
                         /\ req.inst = inst /\ req.op = "close" => sealed
                         /\ req.inst = inst /\ req.op = "commit" /\ stream'[inst].nonce = d =>
                               attempted /\ retained = req.rec
    BY <1>1, <1>2 DEF RequestInv
  <2>1. conn[d].req.inst \in Instance
    BY DEF Stored, Typed, ConnType, RequestType
  <2>2. stream'[inst].nonce = d => stream[inst].nonce = d
    BY <1>0, <1>6, ConnAssumption
  <2> QED
    BY <1>6, <2>1, <2>2 DEF RequestInv
<1>8. AnswerInv'
  <2>1. link # NoConn => link \in Conn /\ conn'[link] = conn[link]
    BY <1>2, <1>3 DEF WorkerInv
  <2>2. stream[inst].nonce = link => stream'[inst].nonce = link
    BY <1>0, <1>3, <1>6
  <2> QED
    BY <1>0, <1>1, <1>6, <2>1, <2>2 DEF AnswerInv, Answer, Terminal
<1>9. HistoryInv' /\ LocalInv'
  BY <1>0, <1>6, StoreKept
<1> QED
  BY <1>4, <1>5, <1>7, <1>8, <1>9

\* A daemon that starts again finds no request and detaches every open stream.
LEMMA ReopenKeeps ==
  ASSUME Stored, DeliveryInv, Reopen
  PROVE  DeliveryInv'
<1> USE DEF DeliveryInv
<1>0. /\ inst \in Instance /\ stream \in [Instance -> StreamType]
      /\ UNCHANGED bridgeVars /\ conn' = conn /\ ~up /\ up' /\ rows' = rows
  BY DEF Stored, Typed, BridgeTyped, TypeOK, Reopen, Restart
<1>1. UNCHANGED <<inst, nextCap, queue, gaps, captured, head, retained, attempted, sealed, finalCap,
                  stopped, goal, pc, link>>
  BY <1>0, PluginUntouched
<1>2. \A j \in Instance : /\ stream'[j].next = stream[j].next
                          /\ stream'[j].status = stream[j].status
                          /\ stream'[j].nonce \in {stream[j].nonce, NoConn}
  <2>1. ASSUME NEW j \in Instance
        PROVE  /\ stream'[j].next = stream[j].next
               /\ stream'[j].status = stream[j].status
               /\ stream'[j].nonce \in {stream[j].nonce, NoConn}
    <3>1. stream[j] \in StreamType
      BY <1>0
    <3> QED
      BY <3>1 DEF Reopen, Restart, StreamType
  <2> QED
    BY <2>1
<1>3. WorkerInv'
  BY <1>1 DEF WorkerInv
<1>4. LinkInv'
  <2>1. \A op : Request(op) = Request(op)'
    BY <1>1 DEF Request
  <2> QED
    BY <1>0, <1>1, <2>1 DEF LinkInv
<1>5. RequestInv'
  <2> SUFFICES ASSUME NEW d \in Conn, conn[d].req # NoRequest
               PROVE  LET req == conn[d].req
                      IN /\ req.inst = inst \/ stream'[req.inst].status = "abandoned"
                         /\ req.op = "commit" => req.rec # NoRecord
                         /\ req.inst = inst /\ req.op = "close" => sealed
                         /\ req.inst = inst /\ req.op = "commit" /\ stream'[inst].nonce = d =>
                               attempted /\ retained = req.rec
    BY <1>0, <1>1 DEF RequestInv
  <2>1. conn[d].req.inst \in Instance
    BY DEF Stored, Typed, ConnType, RequestType
  <2>2. stream'[inst].nonce = d => stream[inst].nonce = d
    BY <1>0, <1>2, ConnAssumption
  <2> QED
    BY <1>2, <2>1, <2>2 DEF RequestInv
<1>6. AnswerInv'
  <2>1. link # NoConn => conn[link].phase # "open"
    BY <1>0 DEF LinkInv, WorkerInv
  <2> QED
    BY <1>0, <1>1, <1>2, <2>1 DEF AnswerInv, Answer
<1>7. HistoryInv' /\ LocalInv'
  BY <1>0, <1>2, StoreKept
<1> QED
  BY <1>3, <1>4, <1>5, <1>6, <1>7

\* A crash takes every request that was on its way; an answer already sent may
\* still be read.
LEMMA CrashKeeps ==
  ASSUME Stored, DeliveryInv, Crash
  PROVE  DeliveryInv'
<1> USE DEF DeliveryInv
<1>0. /\ inst \in Instance /\ conn \in [Conn -> ConnType]
      /\ UNCHANGED bridgeVars /\ ~up' /\ stream' = stream /\ rows' = rows
  BY DEF Stored, Typed, BridgeTyped, Crash, streamVars
<1>1. UNCHANGED <<inst, nextCap, queue, gaps, captured, head, retained, attempted, sealed, finalCap,
                  stopped, goal, pc, link>>
  BY <1>0, PluginUntouched
<1>2. \A c \in Conn :
        /\ conn[c].phase = "open" => conn'[c].phase = "dead" /\ conn'[c].req = NoRequest
                                     /\ conn'[c].rep = conn[c].rep
        /\ conn[c].phase = "dead" => conn'[c] = conn[c]
        /\ conn[c].phase \notin {"open", "dead"} =>
              conn'[c].phase = "free" /\ conn'[c].req = NoRequest
  BY DEF Crash, FreeConn
<1>3. WorkerInv'
  BY <1>1 DEF WorkerInv
<1>4. LinkInv'
  <2>1. \A c \in Conn :
          /\ conn'[c].phase \in {"open", "dead"} <=> c = link
          /\ conn'[c].phase # "open"
          /\ conn'[c].phase = "dead" => \A d \in Conn : d # c => conn'[d].req = NoRequest
          /\ conn'[c].phase = "free" => conn'[c].req = NoRequest
    <3>1. \A c \in Conn : conn[c].phase \in {"open", "dead"} <=> c = link
      BY DEF LinkInv
    <3>2. \A c \in Conn : conn'[c].phase \in {"open", "dead"} <=> c = link
      BY <1>2, <3>1
    <3>3. \A c \in Conn : c # link => conn'[c].req = NoRequest
      BY <1>2, <3>1
    <3> QED
      BY <1>2, <3>2, <3>3
  <2>2. link # NoConn => /\ link \in Conn
                         /\ conn'[link].rep = conn[link].rep
                         /\ conn'[link].req \in {conn[link].req, NoRequest}
    BY <1>2 DEF LinkInv, WorkerInv
  <2>3. \A op : Request(op) = Request(op)'
    BY <1>1 DEF Request
  <2> QED
    BY <1>0, <1>1, <2>1, <2>2, <2>3 DEF LinkInv
<1>5. RequestInv'
  <2>1. \A c \in Conn : conn'[c].req \in {conn[c].req, NoRequest}
    BY <1>2
  <2> QED
    BY <1>0, <1>1, <2>1, RequestsKept
<1>6. AnswerInv'
  <2>1. link # NoConn => conn'[link].rep = conn[link].rep /\ conn'[link].phase # "open"
    BY <1>2 DEF LinkInv, WorkerInv
  <2> QED
    BY <1>0, <1>1, <2>1 DEF AnswerInv, Answer
<1>7. HistoryInv' /\ LocalInv'
  BY <1>0, StoreKept
<1> QED
  BY <1>3, <1>4, <1>5, <1>6, <1>7

\* Only a detached stream is abandoned, and only the current one can be.
LEMMA MaintainKeeps ==
  ASSUME Stored, DeliveryInv, Maintain
  PROVE  DeliveryInv'
<1> USE DEF DeliveryInv
<1>0. /\ inst \in Instance /\ stream \in [Instance -> StreamType]
      /\ UNCHANGED bridgeVars /\ conn' = conn /\ up' = up /\ rows' = rows
  BY DEF Stored, Typed, BridgeTyped, TypeOK, Maintain, StartPass, AbandonCandidate
<1>1. UNCHANGED <<inst, nextCap, queue, gaps, captured, head, retained, attempted, sealed, finalCap,
                  stopped, goal, pc, link>>
  BY <1>0, PluginUntouched
<1>2. WorkerInv'
  BY <1>1 DEF WorkerInv
<1>3. LinkInv'
  <2>1. \A op : Request(op) = Request(op)'
    BY <1>1 DEF Request
  <2> QED
    BY <1>0, <1>1, <2>1 DEF LinkInv
<1>4. CASE stream' = stream
  <2>1. RequestInv' /\ AnswerInv'
    BY <1>0, <1>1, <1>4 DEF RequestInv, AnswerInv, Answer, Terminal
  <2>2. HistoryInv' /\ LocalInv'
    BY <1>0, <1>4, StoreKept
  <2> QED
    BY <1>2, <1>3, <2>1, <2>2
<1>5. CASE stream' # stream
  <2>1. PICK i \in Instance : AbandonCandidate(i) /\ Detached(i)
    BY <1>5 DEF Maintain, StartPass, AbandonCandidate
  <2>2. i = inst /\ stream[inst].status = "open" /\ stream[inst].nonce = NoConn
    BY <2>1 DEF Detached, HistoryInv
  <2>3. /\ stream'[inst].status = "abandoned" /\ stream'[inst].nonce = NoConn
        /\ stream'[inst].next = stream[inst].next
        /\ \A j \in Instance : j # inst => stream'[j] = stream[j]
    <3>1. stream[inst] \in StreamType
      BY <1>0
    <3> QED
      BY <1>0, <1>5, <2>1, <2>2, <3>1 DEF AbandonCandidate, StreamType
  <2>4. RequestInv'
    <3> SUFFICES ASSUME NEW d \in Conn, conn[d].req # NoRequest
                 PROVE  LET req == conn[d].req
                        IN /\ req.inst = inst \/ stream'[req.inst].status = "abandoned"
                           /\ req.op = "commit" => req.rec # NoRecord
                           /\ req.inst = inst /\ req.op = "close" => sealed
                           /\ stream'[inst].nonce # d
      BY <1>0, <1>1 DEF RequestInv
    <3>1. conn[d].req.inst \in Instance
      BY DEF Stored, Typed, ConnType, RequestType
    <3> QED
      BY <2>3, <3>1, ConnAssumption DEF RequestInv
  <2>5. AnswerInv'
    <3>1. link # NoConn => link \in Conn /\ conn[link].phase \in {"open", "dead"}
      BY DEF LinkInv, WorkerInv
    <3>2. Terminal(inst)'
      BY <1>1, <2>3 DEF Terminal
    <3>3. link # NoConn => Answer.code # "bridge_clean_closed"
      BY <2>2 DEF AnswerInv
    <3>4. stream'[inst].status = "abandoned"
      BY <2>3
    <3>5. link # NoConn /\ Answer.code = "ok" => pc \notin {"closing", "recovering"}
      BY <2>2 DEF AnswerInv
    <3> QED
      BY <1>0, <1>1, <2>3, <3>2, <3>3, <3>4, <3>5 DEF AnswerInv, Answer
  <2>6. HistoryInv'
    <3>1. ~stopped
      BY <2>2 DEF HistoryInv
    <3> QED
      BY <1>0, <1>1, <2>3, <3>1 DEF HistoryInv, KindOf, NothingPending
  <2>7. LocalInv'
    BY <1>0, <1>1, <2>3 DEF LocalInv, KindOf, Placed, Observed
  <2> QED
    BY <1>2, <1>3, <2>4, <2>5, <2>6, <2>7
<1> QED
  BY <1>4, <1>5

-----------------------------------------------------------------------------
\* Nothing has been captured yet.
LEMMA DeliveryInit == Init => DeliveryInv
<1> SUFFICES ASSUME Init
             PROVE  DeliveryInv
  OBVIOUS
<1>1. /\ inst \in Instance /\ nextCap = 1 /\ queue = << >> /\ gaps = << >> /\ head = 0
      /\ retained = NoRecord /\ attempted = FALSE /\ sealed = FALSE /\ stopped = FALSE
      /\ captured = [i \in Instance |-> << >>] /\ pc = "select" /\ goal = "select"
      /\ link = NoConn
  BY DEF Init, BridgeInit
<1>2. \A i \in Instance : /\ stream[i].status = "absent" /\ stream[i].next = 1
                          /\ rows[i] = {} /\ captured[i] = << >>
  BY <1>1 DEF Init, StreamInit
<1>3. \A c \in Conn : conn[c].phase = "free" /\ conn[c].req = NoRequest
  BY DEF Init, FreeConn
<1>4. WorkerInv
  BY <1>1 DEF WorkerInv
<1>5. LinkInv
  BY <1>1, <1>3, ConnAssumption DEF LinkInv, Waiting
<1>6. RequestInv
  BY <1>3 DEF RequestInv
<1>7. AnswerInv
  BY <1>1 DEF AnswerInv
<1>8. HistoryInv
  BY <1>1, <1>2 DEF HistoryInv
<1>9. LocalInv
  BY <1>1 DEF LocalInv
<1> QED
  BY <1>4, <1>5, <1>6, <1>7, <1>8, <1>9 DEF DeliveryInv

\* Every step of plugin and daemon keeps all of it.
LEMMA DeliveryStep ==
  ASSUME Stored, DeliveryInv, [Next]_vars
  PROVE  DeliveryInv'
<1>1. CASE Next
  BY <1>1, CallbackKeeps, WorkerKeeps, ServeKeeps, EofKeeps, ReopenKeeps, CrashKeeps, MaintainKeeps
     DEF Next, ServerNext
<1>2. CASE UNCHANGED vars
  <2>1. UNCHANGED <<inst, nextCap, queue, gaps, captured, head, retained, attempted, closing, sealed,
                    finalCap, stopped, goal, pc, link, conn, up, stream, rows>>
    BY <1>2 DEF vars, bridgeVars, streamVars, captureVars, closeVars, workerVars
  <2>2. WorkerInv' /\ LinkInv' /\ RequestInv' /\ AnswerInv'
    BY <2>1, CallsFramed DEF DeliveryInv
  <2>3. HistoryInv'
    BY <2>1, HistoryFramed DEF DeliveryInv, HistoryInv, NothingPending
  <2>4. LocalInv'
    BY <2>1, LocalFramed DEF DeliveryInv
  <2> QED
    BY <2>2, <2>3, <2>4 DEF DeliveryInv
<1> QED
  BY <1>1, <1>2

\* Every capture is where the invariant says it is, for any number of connections,
\* instances, captures and crashes.
THEOREM DeliveryInvariant == Spec => [](Stored /\ DeliveryInv)
<1>1. Init => Typed /\ DeliveryInv
  BY TypedInit, DeliveryInit
<1>2. Spec => []Typed
  <2>1. Typed /\ [Next]_vars => Typed'
    BY TypedStep
  <2> QED
    BY TypedInit, <2>1, PTL DEF Spec
<1>3. Spec => []Stored
  BY <1>2, DeliveredRecordsTile, StoreImplemented, ReceiptsExact, PTL DEF Stored, StoreSpec
<1>4. Stored /\ DeliveryInv /\ [Next]_vars => DeliveryInv'
  BY DeliveryStep
<1> QED
  BY <1>1, <1>3, <1>4, PTL DEF Spec

-----------------------------------------------------------------------------
(* What follows from it *)

\* A queue in order holds no capture twice.
LEMMA QueueCounts ==
  ASSUME Stored, LocalInv
  PROVE  Len(queue) = Cardinality(InQueue) /\ IsFiniteSet(InQueue)
<1> DEFINE f == [k \in 1 .. Len(queue) |-> queue[k]]
<1>1. /\ Len(queue) \in Nat /\ DOMAIN queue = 1 .. Len(queue)
      /\ \A k \in DOMAIN queue : queue[k] \in Nat
  BY LocalTypes DEF Stored
<1>2. \A j, k \in DOMAIN queue : j < k => queue[j] < queue[k]
  BY DEF LocalInv
<1>3. ASSUME NEW j \in 1 .. Len(queue), NEW k \in 1 .. Len(queue), queue[j] = queue[k]
      PROVE  j = k
  <2>1. ~(queue[j] < queue[k]) /\ ~(queue[k] < queue[j])
    BY <1>1, <1>3
  <2>2. ~(j < k) /\ ~(k < j)
    BY <1>1, <1>2, <2>1
  <2>3. j \in Nat /\ k \in Nat
    BY <1>1
  <2> QED
    BY <2>2, <2>3
<1>4. f \in Bijection(1 .. Len(queue), InQueue)
  <2>1. f \in [1 .. Len(queue) -> InQueue]
    BY <1>1 DEF InQueue
  <2>2. \A n \in InQueue : \E k \in 1 .. Len(queue) : f[k] = n
    BY <1>1 DEF InQueue
  <2>3. \A j, k \in 1 .. Len(queue) : f[j] = f[k] => j = k
    BY <1>3
  <2> HIDE DEF f
  <2> QED
    BY <2>1, <2>2, <2>3 DEF Bijection, Injection, Surjection, IsInjective
<1>5. IsFiniteSet(1 .. Len(queue)) /\ Cardinality(1 .. Len(queue)) = Len(queue)
  <2> DEFINE q == Len(queue)
  <2>1. q \in Nat
    BY <1>1
  <2> HIDE DEF q
  <2>2. IsFiniteSet(1 .. q) /\ Cardinality(1 .. q) = IF 1 > q THEN 0 ELSE q - 1 + 1
    BY <2>1, FS_Interval
  <2>3. Cardinality(1 .. q) = q
    BY <2>1, <2>2
  <2> QED
    BY <2>2, <2>3 DEF q
<1> HIDE DEF f
<1> QED
  BY <1>4, <1>5, FS_Bijection DEF ExistsBijection

\* Every capture of the current stream is in exactly one place of the bridge or in
\* the ledger; only a record whose answer is missing may be in both.
LEMMA Accounted == Stored /\ DeliveryInv => CapturesAccounted
<1> SUFFICES ASSUME Stored, DeliveryInv
             PROVE  CapturesAccounted
  OBVIOUS
<1> USE DEF DeliveryInv
<1> DEFINE next == stream[inst].next
<1>1. /\ inst \in Instance /\ nextCap \in Nat /\ head \in Nat /\ next \in Nat /\ next > 0
      /\ \A k \in DOMAIN queue : queue[k] \in Nat /\ queue[k] > 0
      /\ \A k \in DOMAIN gaps :
            /\ gaps[k].kind = "gap" /\ gaps[k].first \in Nat /\ gaps[k].last \in Nat
            /\ 0 < gaps[k].first /\ gaps[k].first <= gaps[k].last
      /\ retained # NoRecord =>
            /\ retained \in Record /\ retained.kind \in {"observation", "gap"}
            /\ retained.first \in Nat /\ retained.last \in Nat
            /\ 0 < retained.first /\ retained.first <= retained.last
            /\ retained.kind = "observation" => retained.first = retained.last
  BY LocalTypes, ObservationSingle DEF Stored
<1>2. next <= nextCap /\ Len(captured[inst]) = nextCap - 1
  <2>1. nextCap = Len(captured[inst]) + 1 /\ Len(captured[inst]) \in Nat
    BY <1>1 DEF HistoryInv
  <2> QED
    BY <1>1, <2>1, CursorBehind DEF Stored
\* Where a capture can be found, and what it is.
<1>3. ASSUME NEW n \in InQueue
      PROVE  n \in Nat /\ 0 < n /\ Observed(n)
  BY <1>1, <1>3 DEF InQueue, LocalInv
<1>4. ASSUME NEW n \in InHead
      PROVE  n = head /\ head # 0 /\ n \in Nat /\ 0 < n /\ Observed(n)
  BY <1>1, <1>4 DEF InHead, LocalInv
<1>5. ASSUME NEW n \in InGaps
      PROVE  /\ n \in Nat /\ 0 < n /\ n < nextCap /\ next <= n
             /\ captured[inst][n] = "gap"
             /\ \E k \in DOMAIN gaps : gaps[k].first <= n /\ n <= gaps[k].last
  <2>1. PICK k \in DOMAIN gaps : n \in Covers(gaps[k])
    BY <1>5 DEF InGaps
  <2>2. KindOf(inst, gaps[k]) /\ next <= gaps[k].first
    BY DEF LocalInv
  <2> QED
    BY <1>1, <1>2, <2>1, <2>2 DEF KindOf, Covers
<1>6. ASSUME NEW n \in InHand
      PROVE  /\ n \in Nat /\ 0 < n /\ n < nextCap /\ retained # NoRecord
             /\ retained.first <= n /\ n <= retained.last
             /\ captured[inst][n] = retained.kind
  <2>1. retained # NoRecord /\ n \in Covers(retained)
    BY <1>6 DEF InHand
  <2>2. KindOf(inst, retained)
    BY <2>1 DEF LocalInv
  <2> QED
    BY <1>1, <1>2, <2>1, <2>2 DEF KindOf, Covers
<1>7. InQueue \cup InHead \cup InGaps \cup InHand \cup Committed(inst) = 1 .. (nextCap - 1)
  <2>1. ASSUME NEW n \in InQueue \cup InHead \cup InGaps \cup InHand \cup Committed(inst)
        PROVE  n \in 1 .. (nextCap - 1)
    <3>1. CASE n \in Committed(inst)
      BY <1>1, <1>2, <3>1 DEF Committed
    <3>2. CASE n \in InQueue \cup InHead
      BY <1>1, <1>3, <1>4, <3>2 DEF Observed
    <3>3. CASE n \in InGaps \cup InHand
      BY <1>1, <1>5, <1>6, <3>3
    <3> QED
      BY <2>1, <3>1, <3>2, <3>3
  <2>2. ASSUME NEW n \in 1 .. (nextCap - 1)
        PROVE  n \in InQueue \cup InHead \cup InGaps \cup InHand \cup Committed(inst)
    <3>1. Placed(n) /\ n \in Nat /\ n > 0
      BY <1>1 DEF LocalInv
    <3>2. CASE \E k \in DOMAIN queue : queue[k] = n
      BY <3>2 DEF InQueue
    <3>3. CASE head = n
      BY <3>1, <3>3 DEF InHead
    <3>4. CASE \E k \in DOMAIN gaps : gaps[k].first <= n /\ n <= gaps[k].last
      <4>1. PICK k \in DOMAIN gaps : gaps[k].first <= n /\ n <= gaps[k].last
        BY <3>4
      <4>2. n \in Covers(gaps[k])
        BY <1>1, <3>1, <4>1 DEF Covers
      <4> QED
        BY <4>2 DEF InGaps
    <3>5. CASE retained # NoRecord /\ retained.first <= n /\ n <= retained.last
      BY <1>1, <3>1, <3>5 DEF InHand, Covers
    <3>6. CASE n < next
      BY <1>1, <3>1, <3>6 DEF Committed
    <3> QED
      BY <3>1, <3>2, <3>3, <3>4, <3>5, <3>6 DEF Placed
  <2> QED
    BY <2>1, <2>2
<1>8. Len(queue) = Cardinality(InQueue)
  BY QueueCounts
<1>9. InQueue \cap (InHead \cup InGaps \cup InHand) = {}
  <2>1. ASSUME NEW n \in InQueue
        PROVE  n \notin InHead /\ n \notin InGaps /\ n \notin InHand
    <3>1. PICK k \in DOMAIN queue : n = queue[k]
      BY DEF InQueue
    <3>2. n \notin InHead
      BY <1>1, <1>4, <3>1 DEF LocalInv
    <3>3. captured[inst][n] = "observation"
      BY <1>3 DEF Observed
    <3>4. n \notin InGaps
      BY <1>5, <3>3
    <3>5. ASSUME n \in InHand
          PROVE  FALSE
      <4>1. retained # NoRecord /\ retained.kind = "observation" /\ retained.first <= n
            /\ n <= retained.last
        BY <1>6, <3>3, <3>5
      <4>2. retained.first < queue[k]
        BY <4>1 DEF LocalInv
      <4> QED
        BY <1>1, <3>1, <4>1, <4>2
    <3> QED
      BY <3>2, <3>4, <3>5
  <2> QED
    BY <2>1
<1>10. InHead \cap (InGaps \cup InHand) = {}
  <2>1. ASSUME NEW n \in InHead
        PROVE  n \notin InGaps /\ n \notin InHand
    <3>1. n = head /\ head # 0 /\ captured[inst][n] = "observation"
      BY <1>4 DEF Observed
    <3>2. n \notin InGaps
      BY <1>5, <3>1
    <3>3. ASSUME n \in InHand
          PROVE  FALSE
      <4>1. retained # NoRecord /\ retained.kind = "observation" /\ retained.first <= n
            /\ n <= retained.last
        BY <1>6, <3>1, <3>3
      <4>2. retained.first < head
        BY <3>1, <4>1 DEF LocalInv
      <4> QED
        BY <1>1, <3>1, <4>1, <4>2
    <3> QED
      BY <3>2, <3>3
  <2> QED
    BY <2>1
<1>11. InGaps \cap InHand = {}
  <2>1. ASSUME NEW n \in InGaps, n \in InHand
        PROVE  FALSE
    <3>1. retained # NoRecord /\ retained.kind = "gap" /\ n <= retained.last
      BY <1>5, <1>6, <2>1
    <3>2. PICK k \in DOMAIN gaps : gaps[k].first <= n
      BY <1>5
    <3>3. retained.last < gaps[k].first
      BY <3>1 DEF LocalInv
    <3> QED
      BY <1>1, <1>5, <3>1, <3>2, <3>3
  <2> QED
    BY <2>1
<1>12. (InQueue \cup InHead \cup InGaps) \cap Committed(inst) = {}
  BY <1>1, <1>3, <1>4, <1>5 DEF Committed, Observed
<1>13. InHand \cap Committed(inst) # {} => attempted /\ retained \in rows[inst]
  <2> SUFFICES ASSUME NEW n \in InHand, n \in Committed(inst)
               PROVE  attempted /\ retained \in rows[inst]
    OBVIOUS
  <2>1. ~(next <= retained.first) /\ retained # NoRecord
    BY <1>1, <1>6 DEF Committed
  <2> QED
    BY <2>1 DEF LocalInv
<1> QED
  BY <1>7, <1>8, <1>9, <1>10, <1>11, <1>12, <1>13 DEF CapturesAccounted

\* No capture is lost between the callback and the ledger, and none is delivered
\* twice: every capture of the current stream is in exactly one place, through lost
\* answers, retries, crashes and rotations.
THEOREM EveryCaptureAccounted == Spec => []CapturesAccounted
BY DeliveryInvariant, Accounted, PTL

\* A clean close covers every capture the stream accepted.
LEMMA Complete == Stored /\ DeliveryInv => CloseIsComplete
<1> SUFFICES ASSUME Stored, DeliveryInv
             PROVE  CloseIsComplete
  OBVIOUS
<1> USE DEF DeliveryInv
<1>1. ASSUME NEW i \in Instance, stream[i].status = "clean_closed"
      PROVE  stream[i].final = Len(captured[i])
  <2>1. i = inst /\ sealed /\ NothingPending
    BY <1>1 DEF HistoryInv
  <2>2. /\ nextCap \in Nat /\ stream[inst].next \in Nat /\ stream[inst].next > 0
        /\ Len(captured[inst]) \in Nat /\ nextCap = Len(captured[inst]) + 1
    BY <2>1, LocalTypes DEF Stored, HistoryInv
  <2>3. stream[inst].next <= nextCap
    BY <2>1, <2>2, CursorBehind DEF Stored
  <2>4. nextCap <= stream[inst].next
    <3>1. CASE nextCap = 1
      BY <2>2, <3>1
    <3>2. CASE nextCap # 1
      <4>1. nextCap - 1 \in 1 .. nextCap - 1
        BY <2>2, <3>2
      <4>2. Placed(nextCap - 1)
        BY <4>1 DEF LocalInv
      <4>3. nextCap - 1 < stream[inst].next
        BY <2>1, <2>2, <3>2, <4>2 DEF Placed, NothingPending
      <4> QED
        BY <2>2, <4>3
    <3> QED
      BY <3>1, <3>2
  <2>5. stream[inst].final = stream[inst].next - 1
    BY <1>1, <2>1 DEF Stored, TerminalReceipt
  <2> QED
    BY <2>1, <2>2, <2>3, <2>4, <2>5
<1> QED
  BY <1>1 DEF CloseIsComplete, HistoryInv

\* A clean close certifies every capture the stream accepted, and the worker stops
\* only behind such a close.
THEOREM CleanCloseComplete == Spec => []CloseIsComplete
BY DeliveryInvariant, Complete, PTL

-----------------------------------------------------------------------------
(* The bridge implements its abstract log *)

\* The ledger of every stream, as the refinement mapping reads it.
LogLedger == [i \in Instance |-> [n \in Committed(i) |-> KindAt(i, n)]]
LogFate == [i \in Instance |-> IF Terminal(i) THEN stream[i].status ELSE "live"]

\* It is the prefix of the captures that the cursor marks.
LEMMA LedgerIsPrefix ==
  ASSUME Stored, DeliveryInv, NEW i \in Instance
  PROVE  /\ LogLedger[i] = [n \in 1 .. (stream[i].next - 1) |-> captured[i][n]]
         /\ captured[i] \in Seq({"observation", "gap"}) /\ Len(captured[i]) \in Nat
         /\ stream[i].next \in Nat /\ stream[i].next > 0
         /\ stream[i].next <= Len(captured[i]) + 1
<1>1. ASSUME NEW n \in Committed(i)
      PROVE  KindAt(i, n) = captured[i][n]
  <2>1. \E r \in rows[i] : n \in Covers(r)
    BY <1>1 DEF Committed, Stored, RowsTileCursor, Tiles
  <2> DEFINE r == CHOOSE r \in rows[i] : n \in Covers(r)
  <2>2. r \in rows[i] /\ n \in Covers(r)
    BY <2>1
  <2>3. KindOf(i, r)
    BY <2>2 DEF DeliveryInv, HistoryInv
  <2>4. KindAt(i, n) = r.kind
    BY DEF KindAt
  <2> HIDE DEF r
  <2> QED
    BY <2>2, <2>3, <2>4 DEF KindOf
<1>2. LogLedger[i] = [n \in Committed(i) |-> captured[i][n]]
  BY <1>1 DEF LogLedger
<1> QED
  BY <1>2, LocalTypes, CursorBehind DEF Committed, Stored, DeliveryInv, HistoryInv

\* Delivering up to m makes the ledger the first m captures.
LEMMA PrefixIsSubSeq ==
  ASSUME NEW s \in Seq({"observation", "gap"}), NEW m \in Nat, m <= Len(s)
  PROVE  [n \in 1 .. m |-> s[n]] = SubSeq(s, 1, m)
         /\ Len([n \in 1 .. m |-> s[n]]) = m
         /\ m = Len(s) => [n \in 1 .. m |-> s[n]] = s
<1> DEFINE p == [n \in 1 .. m |-> s[n]]
<1>1. p \in Seq({"observation", "gap"}) /\ Len(p) = m
  <2>1. \A n \in 1 .. m : s[n] \in {"observation", "gap"}
    OBVIOUS
  <2> QED
    BY <2>1
<1>2. SubSeq(s, 1, m) \in Seq({"observation", "gap"}) /\ Len(SubSeq(s, 1, m)) = m
      /\ \A n \in 1 .. m : SubSeq(s, 1, m)[n] = s[n]
  BY SubSeqProperties
<1>3. \A n \in 1 .. m : p[n] = s[n]
  OBVIOUS
<1> HIDE DEF p
<1>4. p = SubSeq(s, 1, m)
  BY <1>1, <1>2, <1>3, SeqEqual
<1>5. m = Len(s) => p = s
  BY <1>1, <1>3, SeqEqual
<1> QED
  BY <1>1, <1>4, <1>5 DEF p

\* The abstract log starts empty.
LEMMA LogInit == Init => Log!Init
<1> SUFFICES ASSUME Init
             PROVE  Log!Init
  OBVIOUS
<1>1. captured = [i \in Instance |-> << >>]
  BY DEF Init, BridgeInit
<1>2. ASSUME NEW i \in Instance
      PROVE  [n \in Committed(i) |-> KindAt(i, n)] = << >> /\ ~Terminal(i)
  <2>1. stream[i].next = 1 /\ stream[i].status = "absent"
    BY DEF Init, StreamInit
  <2>2. Committed(i) = {}
    BY <2>1 DEF Committed
  <2> QED
    BY <2>1, <2>2 DEF Terminal
<1> QED
  BY <1>1, <1>2 DEF Log!Init

\* The variables of the log are those of the refinement mapping.
LEMMA LogVariables ==
  /\ Log!vars = <<captured, LogLedger, LogFate>>
BY DEF Log!vars, LogLedger, LogFate

\* A callback that reserves a capture is an acceptance.
LEMMA CaptureAccepts ==
  ASSUME Stored, DeliveryInv, CallbackNext, UNCHANGED streamVars
  PROVE  [Log!Next]_Log!vars
<1>0. inst \in Instance
  BY DEF Stored, Typed, BridgeTyped
<1>1. UNCHANGED <<LogLedger, LogFate>>
  BY DEF LogLedger, LogFate, Committed, KindAt, Terminal, streamVars
<1>2. ASSUME NEW kind \in {"observation", "gap"}, Reserve(kind)
      PROVE  Log!Next
  <2>1. LogFate[inst] # "clean_closed"
    BY <1>0, <1>2 DEF LogFate, Reserve, DeliveryInv, HistoryInv
  <2>2. captured' = [captured EXCEPT ![inst] = Append(@, kind)]
    BY <1>2 DEF Reserve
  <2> QED
    BY <1>0, <1>1, <2>1, <2>2 DEF Log!Next, Log!Accept, LogLedger, LogFate
<1>3. CASE CaptureLate \/ RequestClose
  <2>1. captured' = captured
    BY <1>3 DEF CaptureLate, RequestClose, captureVars
  <2> QED
    BY <1>1, <2>1, LogVariables DEF Log!vars, LogLedger, LogFate
<1> QED
  BY <1>2, <1>3 DEF CallbackNext, Capture, CaptureInvalid, PublishGap, PublishObservation

\* A step that moves no capture, cursor, record or fate is none of the log.
LEMMA LogStutters ==
  ASSUME captured' = captured, rows' = rows, stream \in [Instance -> StreamType],
         \A i \in Instance : /\ stream'[i].next = stream[i].next
                             /\ Terminal(i)' <=> Terminal(i)
                             /\ Terminal(i) => stream'[i].status = stream[i].status
  PROVE  [Log!Next]_Log!vars
<1>1. \A i \in Instance : /\ Committed(i)' = Committed(i)
                          /\ \A n : KindAt(i, n)' = KindAt(i, n)
  BY DEF Committed, KindAt
<1>2. LogLedger' = LogLedger
  BY <1>1 DEF LogLedger
<1>3. LogFate' = LogFate
  BY DEF LogFate
<1> QED
  BY <1>2, <1>3 DEF Log!vars, LogLedger, LogFate

\* A commit is a delivery.
LEMMA CommitDelivers ==
  ASSUME Stored, DeliveryInv, Stored', DeliveryInv', captured' = captured,
         NEW i \in Instance, NEW c \in Conn, NEW r \in Record, Commit(i, c, r)
  PROVE  Log!Next
<1>0. stream \in [Instance -> StreamType] /\ rows \in [Instance -> SUBSET Record]
  BY DEF Stored, Typed, TypeOK
<1>1. /\ stream'[i].next = r.last + 1 /\ stream'[i].status = stream[i].status
      /\ stream[i].status = "open" /\ r.first = stream[i].next
      /\ \A j \in Instance : j # i => stream'[j] = stream[j] /\ rows'[j] = rows[j]
  <2>1. stream[i] \in StreamType
    BY <1>0
  <2> QED
    BY <1>0, <2>1 DEF Commit, CommitCode, StreamType
<1>2. r.first \in Nat /\ r.last \in Nat /\ r.first <= r.last
  BY RecordFields, MaxCaptureAssumption DEF CaptureSeq
<1>3. /\ LogLedger[i] = [n \in 1 .. (stream[i].next - 1) |-> captured[i][n]]
      /\ captured[i] \in Seq({"observation", "gap"}) /\ Len(captured[i]) \in Nat
      /\ stream[i].next \in Nat /\ stream[i].next > 0
      /\ stream[i].next <= Len(captured[i]) + 1
  BY LedgerIsPrefix
<1>4. /\ LogLedger'[i] = [n \in 1 .. (stream'[i].next - 1) |-> captured'[i][n]]
      /\ stream'[i].next <= Len(captured'[i]) + 1
  <2>1. /\ (LogLedger[i] = [n \in 1 .. (stream[i].next - 1) |-> captured[i][n]])'
        /\ (stream[i].next <= Len(captured[i]) + 1)'
    BY LedgerIsPrefix, PTL
  <2> QED
    BY <2>1
<1>5. r.last <= Len(captured[i]) /\ stream'[i].next - 1 = r.last
  BY <1>1, <1>2, <1>3, <1>4
<1>6. /\ LogLedger'[i] = SubSeq(captured[i], 1, r.last)
      /\ Len(LogLedger[i]) = stream[i].next - 1
  BY <1>2, <1>3, <1>4, <1>5, PrefixIsSubSeq
<1>7. LogLedger' = [LogLedger EXCEPT ![i] = SubSeq(captured[i], 1, r.last)]
  <2>1. \A j \in Instance : j # i => LogLedger'[j] = LogLedger[j]
    <3> SUFFICES ASSUME NEW j \in Instance, j # i
                 PROVE  LogLedger'[j] = LogLedger[j]
      OBVIOUS
    <3>1. Committed(j)' = Committed(j) /\ \A n : KindAt(j, n)' = KindAt(j, n)
      BY <1>1 DEF Committed, KindAt
    <3> QED
      BY <3>1 DEF LogLedger
  <2>2. LogLedger' \in [Instance -> {LogLedger'[j] : j \in Instance}]
        /\ LogLedger \in [Instance -> {LogLedger[j] : j \in Instance}]
    BY DEF LogLedger
  <2> QED
    BY <1>6, <2>1, <2>2
<1>8. LogFate' = LogFate
  BY <1>1 DEF LogFate, Terminal
<1>9. LogFate[i] = "live" /\ r.last \in 1 .. Len(captured[i]) /\ r.last > Len(LogLedger[i])
  BY <1>1, <1>2, <1>3, <1>5, <1>6 DEF LogFate, Terminal
<1> QED
  BY <1>7, <1>8, <1>9 DEF Log!Next, Log!Deliver, LogLedger, LogFate

\* A clean close finds everything delivered.
LEMMA CloseCloses ==
  ASSUME Stored, DeliveryInv, Stored', DeliveryInv', captured' = captured,
         NEW i \in Instance, NEW c \in Conn, NEW final \in 0 .. MaxCaptureSeq,
         CloseStream(i, c, final)
  PROVE  Log!Next
<1>0. stream \in [Instance -> StreamType]
  BY DEF Stored, Typed, TypeOK
<1>1. /\ stream'[i].next = stream[i].next /\ stream'[i].final = stream[i].next - 1
      /\ stream'[i].status = "clean_closed" /\ stream[i].status = "open" /\ rows' = rows
      /\ \A j \in Instance : j # i => stream'[j] = stream[j]
  <2>1. stream[i] \in StreamType
    BY <1>0
  <2> QED
    BY <1>0, <2>1 DEF CloseStream, CloseCode, StreamType
<1>2. CloseIsComplete'
  BY Complete, PTL
<1>3. stream[i].next - 1 = Len(captured[i])
  BY <1>1, <1>2 DEF CloseIsComplete
<1>4. LogLedger[i] = captured[i]
  <2>1. /\ LogLedger[i] = [n \in 1 .. Len(captured[i]) |-> captured[i][n]]
        /\ captured[i] \in Seq({"observation", "gap"}) /\ Len(captured[i]) \in Nat
    BY <1>3, LedgerIsPrefix
  <2> QED
    BY <2>1, PrefixIsSubSeq
<1>5. LogLedger' = LogLedger
  BY <1>1 DEF LogLedger, Committed, KindAt
<1>6. LogFate' = [LogFate EXCEPT ![i] = "clean_closed"] /\ LogFate[i] = "live"
  BY <1>1 DEF LogFate, Terminal
<1> QED
  BY <1>4, <1>5, <1>6 DEF Log!Next, Log!Close, LogLedger, LogFate

\* An abandonment ends the stream where it is.
LEMMA AbandonAbandons ==
  ASSUME Stored, captured' = captured, NEW i \in Instance, AbandonCandidate(i)
  PROVE  [Log!Next]_Log!vars
<1>0. stream \in [Instance -> StreamType]
  BY DEF Stored, Typed, TypeOK
<1>1. CASE Detached(i) /\ i \in lapsed
  <2>1. /\ stream'[i].next = stream[i].next /\ rows' = rows
        /\ stream'[i].status = "abandoned" /\ stream[i].status = "open"
        /\ \A j \in Instance : j # i => stream'[j] = stream[j]
    <3>1. stream[i] \in StreamType
      BY <1>0
    <3> QED
      BY <1>0, <1>1, <3>1 DEF AbandonCandidate, Detached, StreamType
  <2>2. LogLedger' = LogLedger
    BY <2>1 DEF LogLedger, Committed, KindAt
  <2>3. LogFate' = [LogFate EXCEPT ![i] = "abandoned"] /\ LogFate[i] = "live"
    BY <2>1 DEF LogFate, Terminal
  <2> QED
    BY <2>2, <2>3 DEF Log!Next, Log!Abandon, LogLedger, LogFate
<1>2. CASE ~(Detached(i) /\ i \in lapsed)
  <2>1. stream' = stream /\ rows' = rows
    BY <1>2 DEF AbandonCandidate
  <2> QED
    BY <1>0, <2>1, LogStutters DEF Terminal
<1> QED
  BY <1>1, <1>2

\* Only callbacks touch the history; everything else is a step of the store.
LEMMA LogStep ==
  ASSUME Stored, DeliveryInv, Stored', DeliveryInv', [Next]_vars
  PROVE  [Log!Next]_Log!vars
<1>1. CASE CallbackNext /\ UNCHANGED <<streamVars, conn, up, faults>>
  BY <1>1, CaptureAccepts
<1>2. CASE captured' = captured
  <2>0. stream \in [Instance -> StreamType]
    BY DEF Stored, Typed, TypeOK
  <2>1. [StreamNext]_streamVars
    BY TypedStep DEF Stored
  <2>2. ASSUME NEW i \in Instance, NEW c \in Conn, Attach(i, c) \/ Disconnect(i, c)
        PROVE  [Log!Next]_Log!vars
    <3>1. /\ rows' = rows
          /\ \A j \in Instance :
                /\ stream'[j].next = stream[j].next
                /\ \/ stream'[j].status = stream[j].status
                   \/ ~Terminal(j) /\ stream'[j].status = "open"
      <4>1. stream[i] \in StreamType
        BY <2>0
      <4>2. CASE Attach(i, c)
        BY <2>0, <4>1, <4>2 DEF Attach, AttachCode, StreamType, Terminal
      <4>3. CASE Disconnect(i, c)
        BY <2>0, <4>1, <4>3 DEF Disconnect, StreamType
      <4> QED
        BY <2>2, <4>2, <4>3
    <3> QED
      BY <1>2, <2>0, <3>1, LogStutters DEF Terminal
  <2>3. CASE Restart
    <3>1. /\ rows' = rows
          /\ \A j \in Instance : stream'[j].next = stream[j].next
                                 /\ stream'[j].status = stream[j].status
      <4>1. \A j \in Instance : stream[j] \in StreamType
        BY <2>0
      <4> QED
        BY <2>3, <4>1 DEF Restart, StreamType
    <3> QED
      BY <1>2, <2>0, <3>1, LogStutters DEF Terminal
  <2>4. CASE (\E elapsed \in SUBSET Instance : StartPass(elapsed)) \/ UNCHANGED streamVars
    <3>1. stream' = stream /\ rows' = rows
      BY <2>4 DEF StartPass, streamVars
    <3> QED
      BY <1>2, <2>0, <3>1, LogStutters DEF Terminal
  <2> QED
    BY <1>2, <2>1, <2>2, <2>3, <2>4, CommitDelivers, CloseCloses, AbandonAbandons DEF StreamNext
<1>3. CASE WorkerNext \/ TransportFails \/ ServerNext \/ Crash \/ Maintain \/ UNCHANGED vars
  <2>1. captured' = captured
    <3>1. CASE WorkerNext \/ TransportFails
      <4>1. CASE LocalNext
        BY <4>1 DEF LocalNext, SelectHead, ReadFirstGap, ClaimFirstGap, Deliver, SealAndClose, Idle,
                    captureVars
      <4>2. CASE Connect \/ CallNext \/ Finish \/ ConnectRefused \/ PeerGone \/ TransportFails
        BY <4>2 DEF Connect, CallNext, Call, Finish, Stop, ConnectRefused, PeerGone, TransportFails,
                    CallFailed, captureVars
      <4>3. CASE ReadAnswer
        BY <4>3 DEF ReadAnswer, RpcFailed, Rotate, AttachAccepted, FrameAccepted, CommitAccepted,
                    CloseAccepted, CallFailed, captureVars
      <4> QED
        BY <3>1, <4>1, <4>2, <4>3 DEF WorkerNext
    <3>2. CASE ServerNext \/ Crash \/ Maintain \/ UNCHANGED vars
      <4>1. UNCHANGED bridgeVars
        BY <3>2 DEF ServerNext, Serve, ServeEof, Reopen, Crash, Maintain, vars
      <4> QED
        BY <4>1, PluginUntouched
    <3> QED
      BY <1>3, <3>1, <3>2
  <2> QED
    BY <1>2, <2>1
<1> QED
  BY <1>1, <1>3 DEF Next

\* Plugin and daemon together implement the abstract log: each stream is delivered
\* in order, exactly once and unaltered, whatever the sockets and the crashes do.
THEOREM LogImplemented == Spec => LogSpec
<1>1. Stored /\ DeliveryInv /\ Stored' /\ DeliveryInv' /\ [Next]_vars => [Log!Next]_Log!vars
  BY LogStep
<1>2. Spec => [](Stored /\ DeliveryInv)
  BY DeliveryInvariant
<1>3. Spec => Log!Spec
  BY LogInit, <1>1, <1>2, PTL DEF Spec, Log!Spec
<1> QED
  BY <1>3 DEF LogSpec

-----------------------------------------------------------------------------
(* What a rotation gives up: the fold that counts the published gaps *)

\* What is covered by the gaps numbered s.
GapsAt(s) == UNION {Covers(gaps[k]) : k \in s}

\* One round of the fold of GapCount over the gaps numbered s.
GapRound(sum) ==
    [s \in SUBSET DOMAIN gaps |->
       IF s = {} THEN 0
       ELSE Size(gaps[CHOOSE x \in s : TRUE]) + sum[s \ {CHOOSE x \in s : TRUE}]]

\* GapCount is the fixed point of that round, at all gaps.
LEMMA GapCountFolds == GapCount = (CHOOSE sum : sum = GapRound(sum))[DOMAIN gaps]
BY DEF GapCount, MapThenSumSet, MapThenFoldSet, GapRound

\* The captures of one gap, and those of the others, are counted apart.
LEMMA GapsAtSplit ==
  ASSUME Typed, LocalInv, NEW s \in SUBSET DOMAIN gaps
  PROVE  /\ IsFiniteSet(GapsAt(s)) /\ Cardinality(GapsAt(s)) \in Nat
         /\ \A x \in s :
              Cardinality(GapsAt(s)) = Size(gaps[x]) + Cardinality(GapsAt(s \ {x}))
<1>1. \A k \in DOMAIN gaps :
        /\ gaps[k].kind = "gap" /\ gaps[k].first \in Nat /\ gaps[k].last \in Nat
        /\ 0 < gaps[k].first /\ gaps[k].first <= gaps[k].last
        /\ gaps[k].last <= MaxCaptureSeq
  <2>1. \A k \in DOMAIN gaps : gaps[k] \in GapRecord
    BY DEF Typed, BridgeTyped
  <2> QED
    BY <2>1, LocalTypes, MaxCaptureAssumption DEF GapRecord, CaptureSeq
<1>2. ASSUME NEW t \in SUBSET DOMAIN gaps
      PROVE  IsFiniteSet(GapsAt(t))
  <2>1. GapsAt(t) \subseteq 1 .. MaxCaptureSeq
    BY <1>1, MaxCaptureAssumption DEF GapsAt, Covers
  <2>2. IsFiniteSet(1 .. MaxCaptureSeq)
    BY FS_Interval, MaxCaptureAssumption
  <2> QED
    BY <2>1, <2>2, FS_Subset
<1>3. ASSUME NEW x \in s
      PROVE  Cardinality(GapsAt(s)) = Size(gaps[x]) + Cardinality(GapsAt(s \ {x}))
  <2>1. GapsAt(s) = Covers(gaps[x]) \cup GapsAt(s \ {x})
    BY DEF GapsAt
  <2>2. Covers(gaps[x]) \cap GapsAt(s \ {x}) = {}
    <3> SUFFICES ASSUME NEW y \in s \ {x}, NEW n \in Covers(gaps[x]), n \in Covers(gaps[y])
                 PROVE  FALSE
      BY DEF GapsAt
    <3>1. /\ gaps[x].first <= n /\ n <= gaps[x].last
          /\ gaps[y].first <= n /\ n <= gaps[y].last /\ n \in Nat
      BY <1>1 DEF Covers
    <3>2. x \in DOMAIN gaps /\ y \in DOMAIN gaps /\ (x < y \/ y < x)
      BY LocalTypes
    <3> QED
      BY <1>1, <3>1, <3>2 DEF LocalInv
  <2>3. /\ IsFiniteSet(Covers(gaps[x]))
        /\ Cardinality(Covers(gaps[x])) = Size(gaps[x])
    <3>1. gaps[x] # NoRecord
      BY <1>1 DEF NoRecord
    <3> QED
      BY <1>1, <3>1, FS_Interval DEF Covers, Size
  <2>4. IsFiniteSet(GapsAt(s \ {x}))
    BY <1>2
  <2>5. /\ Cardinality(Covers(gaps[x])) \in Nat /\ Cardinality(GapsAt(s \ {x})) \in Nat
    BY <2>3, <2>4, FS_CardinalityType
  <2>6. Cardinality(Covers(gaps[x]) \cap GapsAt(s \ {x})) = 0
    BY <2>2, FS_EmptySet
  <2>7. Cardinality(GapsAt(s)) = Cardinality(Covers(gaps[x])) + Cardinality(GapsAt(s \ {x})) - 0
    BY <2>1, <2>3, <2>4, <2>6, FS_Union
  <2> QED
    BY <2>3, <2>5, <2>7
<1> QED
  BY <1>2, <1>3, FS_CardinalityType

\* Of two fixed points of the round each agrees with the other.
LEMMA GapRoundFixed ==
  ASSUME NEW f, NEW g, f = GapRound(f), g = GapRound(g),
         IsFiniteSet(DOMAIN gaps)
  PROVE  f[DOMAIN gaps] = g[DOMAIN gaps]
<1> DEFINE R == OpToRel(<, Nat)
           Wrong == {s \in SUBSET DOMAIN gaps : f[s] # g[s]}
           D == {Cardinality(s) : s \in Wrong}
<1> SUFFICES ASSUME Wrong # {}
             PROVE  FALSE
  OBVIOUS
<1>1. \A s \in SUBSET DOMAIN gaps : IsFiniteSet(s) /\ Cardinality(s) \in Nat
  BY FS_Subset, FS_CardinalityType
<1>2. D \subseteq Nat /\ D # {}
  BY <1>1
<1>3. \A a, b \in Nat : a < b => <<a, b>> \in R
  BY DEF OpToRel
<1>4. IsWellFoundedOn(R, Nat)
  BY NatLessThanWellFounded
<1> HIDE DEF R, D
<1>5. PICK m \in D : \A n \in D : ~(<<n, m>> \in R)
  BY <1>2, <1>4, WFMin
<1>6. PICK s \in Wrong : m = Cardinality(s)
  BY <1>5 DEF D
<1> DEFINE x == CHOOSE x \in s : TRUE
<1>7. f[s] = (IF s = {} THEN 0 ELSE Size(gaps[x]) + f[s \ {x}])
  BY <1>6 DEF GapRound
<1>8. g[s] = (IF s = {} THEN 0 ELSE Size(gaps[x]) + g[s \ {x}])
  BY <1>6 DEF GapRound
<1>9. s # {}
  BY <1>6, <1>7, <1>8
<1>10. x \in s
  BY <1>9
<1> HIDE DEF x
<1>11. Cardinality(s \ {x}) = Cardinality(s) - 1 /\ Cardinality(s \ {x}) \in Nat
  BY <1>1, <1>10, FS_RemoveElement
<1>12. s \ {x} \notin Wrong
  <2>1. <<Cardinality(s \ {x}), m>> \in R
    <3>1. m \in Nat /\ Cardinality(s \ {x}) < m
      BY <1>1, <1>6, <1>11
    <3> QED
      BY <1>3, <1>11, <3>1
  <2> QED
    BY <1>5, <2>1 DEF D
<1>13. f[s \ {x}] = g[s \ {x}]
  BY <1>12
<1> QED
  BY <1>6, <1>7, <1>8, <1>13

\* GapCount is the number of captures in the published gaps.
LEMMA GapCountExact ==
  ASSUME Typed, LocalInv
  PROVE  GapCount = Cardinality(InGaps) /\ IsFiniteSet(InGaps) /\ GapCount \in Nat
<1> DEFINE g == [s \in SUBSET DOMAIN gaps |-> Cardinality(GapsAt(s))]
           f == CHOOSE sum : sum = GapRound(sum)
<1>1. g = GapRound(g)
  <2>1. ASSUME NEW s \in SUBSET DOMAIN gaps
        PROVE  g[s] = IF s = {} THEN 0
                      ELSE Size(gaps[CHOOSE x \in s : TRUE]) + g[s \ {CHOOSE x \in s : TRUE}]
    <3>1. CASE s = {}
      <4>1. GapsAt(s) = {}
        BY <3>1 DEF GapsAt
      <4> QED
        BY <3>1, <4>1, FS_EmptySet
    <3>2. CASE s # {}
      <4>1. (CHOOSE x \in s : TRUE) \in s
        BY <3>2
      <4>2. s \ {CHOOSE x \in s : TRUE} \in SUBSET DOMAIN gaps
        OBVIOUS
      <4> QED
        BY <3>2, <4>1, <4>2, GapsAtSplit
    <3> QED
      BY <3>1, <3>2
  <2> QED
    BY <2>1 DEF GapRound
<1> HIDE DEF g
<1>2. f = GapRound(f)
  BY <1>1
<1>3. IsFiniteSet(DOMAIN gaps)
  BY LocalTypes, FS_Interval
<1> HIDE DEF f
<1>4. f[DOMAIN gaps] = g[DOMAIN gaps]
  BY <1>1, <1>2, <1>3, GapRoundFixed
<1>5. GapCount = g[DOMAIN gaps]
  BY <1>4, GapCountFolds DEF f
<1>6. GapsAt(DOMAIN gaps) = InGaps
  BY DEF GapsAt, InGaps
<1> QED
  BY <1>5, <1>6, GapsAtSplit DEF g

-----------------------------------------------------------------------------
(* The counters of the bridge *)

\* The captures of streams given up that are not in the ledger, and those of them
\* that were observations.
Unsent == {p \in Reserved : p[1] # inst /\ ~IsCommitted(p)}
UnsentObservations == {p \in Unsent : captured[p[1]][p[2]] = "observation"}

\* What dropped_events counts: payloads given up by rotations, payloads that became
\* gaps, and captures that came late.
DropsCounted ==
    LET lost == Cardinality(UnsentObservations) + Cardinality(GapCaptures) + health.late
    IN lost <= health.dropped /\ health.dropped <= lost + health.ambiguous

CountInv ==
    /\ health \in HealthType
    /\ IsFiniteSet(Reserved)
    /\ DropsCounted
    /\ AbandonmentAudit

\* A set of captures of one stream has as many members as it has sequences.
LEMMA PairCount ==
  ASSUME NEW i, NEW M, IsFiniteSet(M)
  PROVE  /\ IsFiniteSet({<<i, n>> : n \in M})
         /\ Cardinality({<<i, n>> : n \in M}) = Cardinality(M)
<1> DEFINE f == [n \in M |-> <<i, n>>]
<1>1. f \in Bijection(M, {<<i, n>> : n \in M})
  BY DEF Bijection, Injection, Surjection, IsInjective
<1> HIDE DEF f
<1> QED
  BY <1>1, FS_Bijection DEF ExistsBijection

\* Finitely many captures reserved: everything counted is finite.
LEMMA CountsFinite ==
  ASSUME IsFiniteSet(Reserved)
  PROVE  /\ IsFiniteSet(Unsent) /\ Cardinality(Unsent) \in Nat
         /\ IsFiniteSet(UnsentObservations) /\ Cardinality(UnsentObservations) \in Nat
         /\ IsFiniteSet(GapCaptures) /\ Cardinality(GapCaptures) \in Nat
<1>1. Unsent \subseteq Reserved /\ UnsentObservations \subseteq Reserved
      /\ GapCaptures \subseteq Reserved
  BY DEF Unsent, UnsentObservations, GapCaptures
<1>2. IsFiniteSet(Unsent) /\ IsFiniteSet(UnsentObservations) /\ IsFiniteSet(GapCaptures)
  BY <1>1, FS_Subset
<1> QED
  BY <1>2, FS_CardinalityType

\* The counters of the health, one by one.
LEMMA HealthFields ==
  ASSUME health \in HealthType
  PROVE  /\ health.dropped \in Nat /\ health.late \in Nat /\ health.abandoned \in Nat
         /\ health.ambiguous \in Nat /\ health.last \in 0 .. MaxCaptureSeq
BY DEF HealthType

\* Only an open stream's cursor moves.
LEMMA ClosedCursor ==
  ASSUME TypeOK, [StreamNext]_streamVars, NEW j \in Instance, stream[j].status # "open"
  PROVE  stream'[j].next = stream[j].next
<1>1. ASSUME NEW i \in Instance, NEW c \in Conn, Attach(i, c)
      PROVE  stream'[j].next = stream[j].next
  BY <1>1 DEF TypeOK, StreamType, Attach
<1>2. ASSUME NEW i \in Instance, NEW c \in Conn, Disconnect(i, c)
      PROVE  stream'[j].next = stream[j].next
  BY <1>2 DEF TypeOK, StreamType, Disconnect
<1>3. ASSUME NEW i \in Instance, NEW c \in Conn, NEW r \in Record, Commit(i, c, r)
      PROVE  stream'[j].next = stream[j].next
  <2>1. stream[i].status = "open" /\ stream' = [stream EXCEPT ![i].next = r.last + 1]
    BY <1>3 DEF Commit, CommitCode
  <2> QED
    BY <2>1 DEF TypeOK
<1>4. ASSUME NEW i \in Instance, NEW c \in Conn, NEW final \in 0 .. MaxCaptureSeq,
             CloseStream(i, c, final)
      PROVE  stream'[j].next = stream[j].next
  BY <1>4 DEF TypeOK, StreamType, CloseStream
<1>5. ASSUME NEW elapsed \in SUBSET Instance, StartPass(elapsed)
      PROVE  stream'[j].next = stream[j].next
  BY <1>5 DEF StartPass
<1>6. ASSUME NEW i \in Instance, AbandonCandidate(i)
      PROVE  stream'[j].next = stream[j].next
  <2>1. \/ stream' = stream
        \/ stream[i].status = "open" /\ stream' = [stream EXCEPT ![i].status = "abandoned"]
    BY <1>6 DEF AbandonCandidate, Detached
  <2> QED
    BY <2>1 DEF TypeOK
<1>7. CASE Restart
  BY <1>7 DEF Restart
<1>8. CASE UNCHANGED streamVars
  BY <1>8 DEF streamVars
<1> QED
  BY <1>1, <1>2, <1>3, <1>4, <1>5, <1>6, <1>7, <1>8 DEF StreamNext

-----------------------------------------------------------------------------
(* Steps that reserve nothing and give nothing up *)

\* Reserved captures and their fate depend only on the history and on the cursors
\* of the streams given up.
LEMMA CountsFramed ==
  ASSUME CountInv, UNCHANGED <<inst, captured, health>>,
         \A i \in Instance : i # inst => stream'[i].next = stream[i].next
  PROVE  CountInv'
<1>1. Reserved' = Reserved /\ GapCaptures' = GapCaptures
  BY DEF Reserved, GapCaptures
<1>2. \A p \in Reserved : p[1] # inst => IsCommitted(p)' = IsCommitted(p)
  BY DEF Reserved, IsCommitted, Committed
<1>3. Unsent' = Unsent
  BY <1>1, <1>2 DEF Unsent
<1>4. UnsentObservations' = UnsentObservations
  BY <1>3 DEF UnsentObservations
<1>5. DropsCounted'
  BY <1>1, <1>4 DEF CountInv, DropsCounted
<1>6. AbandonmentAudit'
  BY <1>3 DEF CountInv, AbandonmentAudit, Unsent
<1> QED
  BY <1>1, <1>5, <1>6 DEF CountInv

\* A step that leaves the plugin's history and identity alone.
LEMMA QuietCounts ==
  ASSUME Stored, DeliveryInv, CountInv, [Next]_vars, UNCHANGED <<inst, captured, health>>
  PROVE  CountInv'
<1>1. [StreamNext]_streamVars
  BY TypedStep DEF Stored
<1>2. ASSUME NEW i \in Instance, i # inst
      PROVE  stream'[i].next = stream[i].next
  <2>1. stream[i].status # "open"
    BY <1>2 DEF DeliveryInv, HistoryInv
  <2> QED
    BY <1>1, <2>1, ClosedCursor DEF Stored, Typed
<1> QED
  BY <1>2, CountsFramed

-----------------------------------------------------------------------------
(* Captures *)

\* A capture reserved is new, and of the stream that is not given up.
LEMMA ReserveCounts ==
  ASSUME Stored, HistoryInv, IsFiniteSet(Reserved), NEW kind \in {"observation", "gap"},
         Reserve(kind), inst' = inst, stream' = stream
  PROVE  /\ IsFiniteSet(Reserved')
         /\ Unsent' = Unsent /\ UnsentObservations' = UnsentObservations
         /\ kind = "observation" => GapCaptures' = GapCaptures
         /\ kind = "gap" => Cardinality(GapCaptures') = Cardinality(GapCaptures) + 1
<1> DEFINE new == <<inst, nextCap>>
<1>1. inst \in Instance /\ nextCap \in CaptureSeq
  BY MaxCaptureAssumption DEF Stored, Typed, BridgeTyped, Reserve, CaptureSeq
<1>2. /\ Len(captured[inst]) \in Nat /\ nextCap = Len(captured[inst]) + 1
      /\ Len(captured'[inst]) = Len(captured[inst]) + 1
      /\ captured'[inst][nextCap] = kind
      /\ \A n \in 1 .. Len(captured[inst]) : captured'[inst][n] = captured[inst][n]
      /\ \A i \in Instance : i # inst => captured'[i] = captured[i]
  BY <1>1, ReserveFacts
<1>3. \A n \in CaptureSeq : n \in Nat /\ n > 0
  BY MaxCaptureAssumption DEF CaptureSeq
<1>4. new \notin Reserved
  BY <1>2 DEF Reserved
<1>5. Reserved' = Reserved \cup {new}
  <2>1. ASSUME NEW p \in Instance \X CaptureSeq
        PROVE  p[2] <= Len(captured'[p[1]]) <=> p[2] <= Len(captured[p[1]]) \/ p = new
    <3>1. CASE p[1] = inst
      <4>1. p[2] <= Len(captured[inst]) + 1 <=> p[2] <= Len(captured[inst]) \/ p[2] = nextCap
        BY <1>2, <1>3
      <4> QED
        BY <1>2, <3>1, <4>1
    <3>2. CASE p[1] # inst
      BY <1>2, <3>2
    <3> QED
      BY <3>1, <3>2
  <2>2. new \in Instance \X CaptureSeq
    BY <1>1
  <2> QED
    BY <2>1, <2>2 DEF Reserved
<1>6. \A p \in Reserved : captured'[p[1]][p[2]] = captured[p[1]][p[2]]
  <2> SUFFICES ASSUME NEW p \in Reserved
               PROVE  captured'[p[1]][p[2]] = captured[p[1]][p[2]]
    OBVIOUS
  <2>1. p[1] \in Instance /\ p[2] \in CaptureSeq /\ p[2] <= Len(captured[p[1]])
    BY DEF Reserved
  <2>2. CASE p[1] = inst
    <3>1. p[2] \in 1 .. Len(captured[inst])
      BY <1>2, <1>3, <2>1, <2>2
    <3> QED
      BY <1>2, <2>2, <3>1
  <2>3. CASE p[1] # inst
    BY <1>2, <2>1, <2>3
  <2> QED
    BY <2>2, <2>3
<1>7. captured'[new[1]][new[2]] = kind
  BY <1>2
<1>8. IsFiniteSet(Reserved')
  BY <1>5, FS_AddElement
<1>9. Unsent' = Unsent
  BY <1>5 DEF Unsent, IsCommitted, Committed
<1>10. UnsentObservations' = UnsentObservations
  BY <1>6, <1>9 DEF UnsentObservations, Unsent
<1>11. kind = "observation" => GapCaptures' = GapCaptures
  BY <1>5, <1>6, <1>7 DEF GapCaptures
<1>12. ASSUME kind = "gap"
       PROVE  Cardinality(GapCaptures') = Cardinality(GapCaptures) + 1
  <2>1. GapCaptures' = GapCaptures \cup {new}
    BY <1>5, <1>6, <1>7, <1>12 DEF GapCaptures
  <2>2. IsFiniteSet(GapCaptures) /\ new \notin GapCaptures
    BY <1>4, CountsFinite DEF GapCaptures
  <2> QED
    BY <2>1, <2>2, FS_AddElement
<1> QED
  BY <1>8, <1>9, <1>10, <1>11, <1>12

\* A capture that becomes a gap is counted as dropped, any other is not.
LEMMA PublishCounts ==
  ASSUME Stored, DeliveryInv, CountInv, inst' = inst, stream' = stream,
         PublishGap \/ PublishObservation
  PROVE  CountInv'
<1>1. /\ health.dropped \in Nat /\ health.late \in Nat /\ health.abandoned \in Nat
      /\ health.ambiguous \in Nat /\ health \in HealthType
  BY HealthFields DEF CountInv
<1>2. /\ IsFiniteSet(Reserved) /\ Cardinality(UnsentObservations) \in Nat
      /\ Cardinality(GapCaptures) \in Nat
  BY CountsFinite DEF CountInv
<1>3. CASE PublishGap
  <2>1. Reserve("gap") /\ health' = [health EXCEPT !.last = nextCap, !.dropped = @ + 1]
    BY <1>3 DEF PublishGap
  <2>2. nextCap \in 0 .. MaxCaptureSeq
    BY <2>1, MaxCaptureAssumption DEF Reserve, Stored, Typed, BridgeTyped
  <2>3. /\ health' \in HealthType /\ health'.dropped = health.dropped + 1
        /\ health'.late = health.late /\ health'.abandoned = health.abandoned
        /\ health'.ambiguous = health.ambiguous
    <3> DEFINE d == health.dropped + 1
    <3>1. d \in Nat /\ health' = [health EXCEPT !.last = nextCap, !.dropped = d]
      BY <1>1, <2>1
    <3> HIDE DEF d
    <3>2. /\ health' \in HealthType /\ health'.dropped = d
          /\ health'.late = health.late /\ health'.abandoned = health.abandoned
          /\ health'.ambiguous = health.ambiguous
      BY <1>1, <2>2, <3>1 DEF HealthType
    <3> QED
      BY <3>2 DEF d
  <2>4. /\ IsFiniteSet(Reserved') /\ Unsent' = Unsent
        /\ UnsentObservations' = UnsentObservations
        /\ Cardinality(GapCaptures') = Cardinality(GapCaptures) + 1
    BY <1>2, <2>1, ReserveCounts DEF DeliveryInv
  <2>5. DropsCounted'
    BY <1>1, <1>2, <2>3, <2>4 DEF CountInv, DropsCounted
  <2>6. AbandonmentAudit'
    BY <2>3, <2>4 DEF CountInv, AbandonmentAudit, Unsent
  <2> QED
    BY <2>3, <2>4, <2>5, <2>6 DEF CountInv
<1>4. CASE PublishObservation
  <2>1. Reserve("observation") /\ health' = [health EXCEPT !.last = nextCap]
    BY <1>4 DEF PublishObservation
  <2>2. nextCap \in 0 .. MaxCaptureSeq
    BY <2>1, MaxCaptureAssumption DEF Reserve, Stored, Typed, BridgeTyped
  <2>3. /\ health' \in HealthType /\ health'.dropped = health.dropped
        /\ health'.late = health.late /\ health'.abandoned = health.abandoned
        /\ health'.ambiguous = health.ambiguous
    BY <1>1, <2>1, <2>2 DEF HealthType
  <2>4. /\ IsFiniteSet(Reserved') /\ Unsent' = Unsent
        /\ UnsentObservations' = UnsentObservations /\ GapCaptures' = GapCaptures
    BY <1>2, <2>1, ReserveCounts DEF DeliveryInv
  <2>5. DropsCounted'
    BY <2>3, <2>4 DEF CountInv, DropsCounted
  <2>6. AbandonmentAudit'
    BY <2>3, <2>4 DEF CountInv, AbandonmentAudit, Unsent
  <2> QED
    BY <2>3, <2>4, <2>5, <2>6 DEF CountInv
<1> QED
  BY <1>3, <1>4

\* A late capture is dropped and counted as late.
LEMMA LateCounts ==
  ASSUME Stored, DeliveryInv, CountInv, CaptureLate, stream' = stream
  PROVE  CountInv'
<1>1. /\ health.dropped \in Nat /\ health.late \in Nat /\ health \in HealthType
      /\ health.ambiguous \in Nat
  BY HealthFields DEF CountInv
<1>2. /\ inst' = inst /\ captured' = captured
      /\ health' = [health EXCEPT !.dropped = @ + 1, !.late = @ + 1]
  BY DEF CaptureLate, captureVars
<1>3. /\ health' \in HealthType /\ health'.dropped = health.dropped + 1
      /\ health'.late = health.late + 1 /\ health'.abandoned = health.abandoned
      /\ health'.ambiguous = health.ambiguous
  <2> DEFINE d == health.dropped + 1
             t == health.late + 1
  <2>1. d \in Nat /\ t \in Nat /\ health' = [health EXCEPT !.dropped = d, !.late = t]
    BY <1>1, <1>2
  <2> HIDE DEF d, t
  <2>2. /\ health' \in HealthType /\ health'.dropped = d /\ health'.late = t
        /\ health'.abandoned = health.abandoned /\ health'.ambiguous = health.ambiguous
    BY <1>1, <2>1 DEF HealthType
  <2> QED
    BY <2>2 DEF d, t
<1>4. /\ Reserved' = Reserved /\ Unsent' = Unsent /\ GapCaptures' = GapCaptures
      /\ UnsentObservations' = UnsentObservations
  BY <1>2 DEF Reserved, Unsent, GapCaptures, UnsentObservations, IsCommitted, Committed
<1>5. DropsCounted'
  <2>1. Cardinality(UnsentObservations) \in Nat /\ Cardinality(GapCaptures) \in Nat
    BY CountsFinite DEF CountInv
  <2> QED
    BY <1>1, <1>3, <1>4, <2>1 DEF CountInv, DropsCounted
<1>6. AbandonmentAudit'
  BY <1>3, <1>4 DEF CountInv, AbandonmentAudit, Unsent
<1> QED
  BY <1>3, <1>4, <1>5, <1>6 DEF CountInv

-----------------------------------------------------------------------------
(* Rotations *)

\* Sets with nothing in common are counted apart.
LEMMA CountedApart ==
  ASSUME NEW S, NEW T, IsFiniteSet(S), IsFiniteSet(T), S \cap T = {}
  PROVE  /\ IsFiniteSet(S \cup T) /\ Cardinality(S) \in Nat /\ Cardinality(T) \in Nat
         /\ Cardinality(S \cup T) = Cardinality(S) + Cardinality(T)
<1>1. Cardinality(S) \in Nat /\ Cardinality(T) \in Nat
  BY FS_CardinalityType
<1>2. Cardinality(S \cap T) = 0
  BY FS_EmptySet
<1>3. /\ IsFiniteSet(S \cup T)
      /\ Cardinality(S \cup T) = Cardinality(S) + Cardinality(T) - Cardinality(S \cap T)
  BY FS_Union
<1> QED
  BY <1>1, <1>2, <1>3

\* The captures of the current stream that the ledger does not have.
Undelivered == stream[inst].next .. (nextCap - 1)
UndeliveredObservations == {n \in Undelivered : captured[inst][n] = "observation"}

\* What of the record in hand the ledger does not have: all of it, or nothing if an
\* attempt may have been applied.
HandLeft == InHand \ Committed(inst)

\* It is finite, and as many as the record covers, or none after an attempt.
LEMMA HandLeftCounted ==
  ASSUME Stored, DeliveryInv
  PROVE  /\ IsFiniteSet(HandLeft) /\ Cardinality(HandLeft) \in Nat /\ Size(retained) \in Nat
         /\ \/ Cardinality(HandLeft) = Size(retained)
            \/ Cardinality(HandLeft) = 0 /\ attempted
         /\ retained = NoRecord => Size(retained) = 0
         /\ retained.kind = "observation" => Size(retained) = 1
<1>1. /\ retained # NoRecord =>
            /\ retained \in Record /\ retained.kind \in {"observation", "gap"}
            /\ retained.first \in Nat /\ retained.last \in Nat
            /\ 0 < retained.first /\ retained.first <= retained.last
            /\ retained.kind = "observation" => retained.first = retained.last
      /\ inst \in Instance /\ stream[inst].next \in Nat /\ stream[inst].next > 0
  BY LocalTypes, ObservationSingle DEF Stored
<1>2. CASE retained = NoRecord
  <2>1. HandLeft = {}
    BY <1>2 DEF HandLeft, InHand
  <2> QED
    BY <1>2, <2>1, FS_EmptySet DEF Size, NoRecord
<1>3. CASE retained # NoRecord
  <2>1. /\ IsFiniteSet(Covers(retained)) /\ Cardinality(Covers(retained)) = Size(retained)
        /\ InHand = Covers(retained) /\ Size(retained) \in Nat
        /\ retained.kind = "observation" => Size(retained) = 1
    <3>1. /\ IsFiniteSet(retained.first .. retained.last)
          /\ Cardinality(retained.first .. retained.last)
               = retained.last - retained.first + 1
      BY <1>1, <1>3, FS_Interval
    <3>2. /\ Size(retained) = retained.last - retained.first + 1
          /\ InHand = Covers(retained) /\ Covers(retained) = retained.first .. retained.last
      BY <1>3 DEF Covers, Size, InHand
    <3> QED
      BY <1>1, <1>3, <3>1, <3>2
  <2>2. CASE stream[inst].next <= retained.first
    <3>1. HandLeft = Covers(retained)
      BY <1>1, <1>3, <2>1, <2>2 DEF HandLeft, Committed, Covers
    <3> QED
      BY <1>3, <2>1, <3>1
  <2>3. CASE attempted /\ retained \in rows[inst]
    <3>1. retained.last < stream[inst].next
      BY <1>1, <2>3 DEF Stored, RowsTileCursor, Tiles
    <3>2. HandLeft = {}
      BY <1>1, <1>3, <2>1, <3>1 DEF HandLeft, Committed, Covers
    <3> QED
      BY <1>3, <2>1, <2>3, <3>2, FS_EmptySet
  <2> QED
    BY <1>3, <2>2, <2>3 DEF DeliveryInv, LocalInv
<1> QED
  BY <1>2, <1>3

\* Where the undelivered captures are.
LEMMA UndeliveredPlaces ==
  ASSUME Stored, DeliveryInv
  PROVE  /\ Undelivered = ((InQueue \cup InHead) \cup HandLeft) \cup InGaps
         /\ UndeliveredObservations =
              (InQueue \cup InHead)
                \cup (IF retained.kind = "observation" THEN HandLeft ELSE {})
<1>1. CapturesAccounted
  BY Accounted
<1>2. /\ inst \in Instance /\ nextCap \in Nat /\ stream[inst].next \in Nat
      /\ stream[inst].next > 0
  BY LocalTypes DEF Stored
<1>3. Undelivered = (1 .. (nextCap - 1)) \ Committed(inst)
  BY <1>2 DEF Undelivered, Committed
<1>4. Undelivered = ((InQueue \cup InHead) \cup HandLeft) \cup InGaps
  BY <1>1, <1>3 DEF CapturesAccounted, HandLeft
<1>5. \A n \in InQueue : captured[inst][n] = "observation"
  BY DEF InQueue, DeliveryInv, LocalInv, Observed
<1>6. \A n \in InHead : captured[inst][n] = "observation"
  BY DEF InHead, DeliveryInv, LocalInv, Observed
<1>7. \A n \in InGaps : captured[inst][n] = "gap"
  <2>1. \A k \in DOMAIN gaps : gaps[k].kind = "gap" /\ KindOf(inst, gaps[k])
    BY LocalTypes DEF Stored, DeliveryInv, LocalInv
  <2> QED
    BY <2>1 DEF InGaps, KindOf
<1>8. \A n \in HandLeft : captured[inst][n] = retained.kind
  BY DEF HandLeft, InHand, KindOf, DeliveryInv, LocalInv
<1> QED
  BY <1>4, <1>5, <1>6, <1>7, <1>8 DEF UndeliveredObservations

\* The counters of a rotation bracket what is given up: they exceed it by the record
\* in hand at most, and only if that record may have been applied.
LEMMA SurrenderExact ==
  ASSUME Stored, DeliveryInv
  PROVE  LET extra == IF attempted THEN Size(retained) ELSE 0
             lost == Cardinality(Undelivered)
             unseen == Cardinality(UndeliveredObservations)
         IN  /\ IsFiniteSet(Undelivered) /\ lost \in Nat /\ unseen \in Nat /\ extra \in Nat
             /\ SurrenderedCaptures \in Nat /\ PendingObservations \in Nat
             /\ lost <= SurrenderedCaptures /\ SurrenderedCaptures <= lost + extra
             /\ unseen <= PendingObservations /\ PendingObservations <= unseen + extra
<1> DEFINE q == Len(queue)
           h == Cardinality(InHead)
           u == Cardinality(HandLeft)
           g == Cardinality(InGaps)
           size == Size(retained)
           seen == IF retained.kind = "observation" THEN HandLeft ELSE {}
<1>1. CapturesAccounted
  BY Accounted
<1>2. IsFiniteSet(InQueue) /\ Cardinality(InQueue) = q
  BY QueueCounts DEF DeliveryInv
<1>3. IsFiniteSet(InHead) /\ h = IF head # 0 THEN 1 ELSE 0
  <2>1. CASE head = 0
    <3>1. InHead = {}
      BY <2>1 DEF InHead
    <3> QED
      BY <2>1, <3>1, FS_EmptySet
  <2>2. CASE head # 0
    <3>1. InHead = {head}
      BY <2>2 DEF InHead
    <3> QED
      BY <2>2, <3>1, FS_Singleton
  <2> QED
    BY <2>1, <2>2
<1>4. GapCount = g /\ IsFiniteSet(InGaps) /\ g \in Nat
  BY GapCountExact DEF Stored, DeliveryInv
<1>5. /\ IsFiniteSet(HandLeft) /\ u \in Nat /\ size \in Nat
      /\ u = size \/ (u = 0 /\ attempted)
      /\ retained = NoRecord => size = 0
      /\ retained.kind = "observation" => size = 1
  BY HandLeftCounted
<1>6. /\ retained.kind \in {"observation", "gap", "none"}
      /\ retained.kind = "none" => retained = NoRecord
  BY LocalTypes DEF Stored, NoRecord
<1>7. /\ InQueue \cap InHead = {}
      /\ (InQueue \cup InHead) \cap HandLeft = {}
      /\ ((InQueue \cup InHead) \cup HandLeft) \cap InGaps = {}
  BY <1>1 DEF CapturesAccounted, HandLeft
<1>8. /\ IsFiniteSet(InQueue \cup InHead) /\ Cardinality(InQueue \cup InHead) = q + h
      /\ q \in Nat /\ h \in Nat
  BY <1>2, <1>3, <1>7, CountedApart
<1>9. /\ IsFiniteSet((InQueue \cup InHead) \cup HandLeft)
      /\ Cardinality((InQueue \cup InHead) \cup HandLeft) = (q + h) + u
  BY <1>5, <1>7, <1>8, CountedApart
<1>10. IsFiniteSet(Undelivered) /\ Cardinality(Undelivered) = ((q + h) + u) + g
  <2>1. /\ IsFiniteSet(((InQueue \cup InHead) \cup HandLeft) \cup InGaps)
        /\ Cardinality(((InQueue \cup InHead) \cup HandLeft) \cup InGaps) = ((q + h) + u) + g
    BY <1>4, <1>7, <1>9, CountedApart
  <2> QED
    BY <2>1, UndeliveredPlaces
<1>11. IsFiniteSet(seen)
       /\ Cardinality(seen) = (IF retained.kind = "observation" THEN u ELSE 0)
  BY <1>5, FS_EmptySet
<1>12. Cardinality(UndeliveredObservations)
         = (q + h) + (IF retained.kind = "observation" THEN u ELSE 0)
  <2>1. (InQueue \cup InHead) \cap seen = {}
    BY <1>7
  <2>2. Cardinality((InQueue \cup InHead) \cup seen) = (q + h) + Cardinality(seen)
    BY <1>8, <1>11, <2>1, CountedApart
  <2> QED
    BY <1>11, <2>2, UndeliveredPlaces
<1>13. PendingObservations = (h + q) + (IF retained.kind = "observation" THEN 1 ELSE 0)
  BY <1>3 DEF PendingObservations
<1>14. SurrenderedCaptures
         = (PendingObservations + (IF retained.kind = "gap" THEN size ELSE 0)) + g
  BY <1>4 DEF SurrenderedCaptures
<1> HIDE DEF q, h, u, g, size, seen
<1> SUFFICES LET extra == IF attempted THEN size ELSE 0
                 lost == Cardinality(Undelivered)
                 unseen == Cardinality(UndeliveredObservations)
             IN  /\ lost \in Nat /\ unseen \in Nat /\ extra \in Nat
                 /\ SurrenderedCaptures \in Nat /\ PendingObservations \in Nat
                 /\ lost <= SurrenderedCaptures /\ SurrenderedCaptures <= lost + extra
                 /\ unseen <= PendingObservations /\ PendingObservations <= unseen + extra
  BY <1>10 DEF size
<1>15. CASE retained.kind = "observation"
  BY <1>4, <1>5, <1>8, <1>10, <1>12, <1>13, <1>14, <1>15
<1>16. CASE retained.kind = "gap"
  BY <1>4, <1>5, <1>8, <1>10, <1>12, <1>13, <1>14, <1>16
<1>17. CASE retained.kind = "none"
  BY <1>4, <1>5, <1>6, <1>8, <1>10, <1>12, <1>13, <1>14, <1>17
<1> QED
  BY <1>6, <1>15, <1>16, <1>17

\* What a rotation adds to the captures given up is what was undelivered.
LEMMA RotateGivesUp ==
  ASSUME Stored, DeliveryInv, IsFiniteSet(Reserved),
         NEW fresh \in Instance, Unused(fresh), Rotate(fresh), stream' = stream
  PROVE  /\ Reserved' = Reserved /\ GapCaptures' = GapCaptures
         /\ Cardinality(Unsent') = Cardinality(Unsent) + Cardinality(Undelivered)
         /\ Cardinality(UnsentObservations')
              = Cardinality(UnsentObservations) + Cardinality(UndeliveredObservations)
<1> DEFINE N == {<<inst, n>> : n \in Undelivered}
           O == {<<inst, n>> : n \in UndeliveredObservations}
<1>1. inst' = fresh /\ captured' = captured /\ fresh # inst
  BY DEF Rotate, Unused
<1>2. captured[fresh] = << >>
  BY <1>1 DEF Unused, DeliveryInv, HistoryInv
<1>3. Reserved' = Reserved /\ GapCaptures' = GapCaptures
  BY <1>1 DEF Reserved, GapCaptures
<1>4. /\ inst \in Instance /\ stream[inst].next \in Nat /\ stream[inst].next > 0
      /\ nextCap \in Nat /\ Len(captured[inst]) \in Nat /\ nextCap = Len(captured[inst]) + 1
      /\ nextCap - 1 <= MaxCaptureSeq
  BY LocalTypes, MaxCaptureAssumption
     DEF Stored, Typed, BridgeTyped, DeliveryInv, HistoryInv
<1>5. \A p \in Reserved : p[1] # fresh
  BY <1>2, MaxCaptureAssumption DEF Reserved, CaptureSeq
<1>6. \A p \in Reserved : p[1] = inst => (~IsCommitted(p) <=> p \in N)
  <2> SUFFICES ASSUME NEW p \in Reserved, p[1] = inst
               PROVE  ~IsCommitted(p) <=> p \in N
    OBVIOUS
  <2>1. /\ p[2] \in Nat /\ p[2] > 0 /\ p[2] <= nextCap - 1 /\ p = <<inst, p[2]>>
    BY <1>4, MaxCaptureAssumption DEF Reserved, CaptureSeq
  <2>2. ~IsCommitted(p) <=> stream[inst].next <= p[2]
    BY <1>4, <2>1 DEF IsCommitted, Committed
  <2>3. p[2] \in Undelivered <=> stream[inst].next <= p[2]
    BY <1>4, <2>1 DEF Undelivered
  <2>4. p \in N <=> p[2] \in Undelivered
    BY <2>1
  <2> QED
    BY <2>2, <2>3, <2>4
<1>7. N \subseteq Reserved /\ \A p \in N : p[1] = inst
  BY <1>4, MaxCaptureAssumption DEF Reserved, Undelivered, CaptureSeq
<1>8. Unsent' = Unsent \cup N
  <2>1. Unsent' = {p \in Reserved : ~IsCommitted(p)}
    BY <1>1, <1>3, <1>5 DEF Unsent, IsCommitted, Committed
  <2> HIDE DEF N
  <2> QED
    BY <2>1, <1>6, <1>7 DEF Unsent
<1>9. O = {p \in N : captured[p[1]][p[2]] = "observation"}
  BY DEF UndeliveredObservations
<1>10. UnsentObservations' = UnsentObservations \cup O
  <2> HIDE DEF N, O
  <2> QED
    BY <1>1, <1>8, <1>9 DEF UnsentObservations
<1>11. Unsent \cap N = {} /\ UnsentObservations \cap O = {}
  <2> HIDE DEF N, O
  <2> QED
    BY <1>7, <1>9 DEF Unsent, UnsentObservations
<1>12. IsFiniteSet(Undelivered) /\ IsFiniteSet(UndeliveredObservations)
  <2>1. IsFiniteSet(Undelivered)
    BY SurrenderExact
  <2>2. UndeliveredObservations \subseteq Undelivered
    BY DEF UndeliveredObservations
  <2> QED
    BY <2>1, <2>2, FS_Subset
<1>13. IsFiniteSet(N) /\ Cardinality(N) = Cardinality(Undelivered)
  BY <1>12, PairCount
<1>14. IsFiniteSet(O) /\ Cardinality(O) = Cardinality(UndeliveredObservations)
  BY <1>12, PairCount
<1>15. IsFiniteSet(Unsent) /\ IsFiniteSet(UnsentObservations)
  BY CountsFinite
<1> HIDE DEF N, O
<1>16. Cardinality(Unsent') = Cardinality(Unsent) + Cardinality(Undelivered)
  BY <1>8, <1>11, <1>13, <1>15, CountedApart
<1>17. Cardinality(UnsentObservations')
         = Cardinality(UnsentObservations) + Cardinality(UndeliveredObservations)
  BY <1>10, <1>11, <1>14, <1>15, CountedApart
<1> QED
  BY <1>3, <1>16, <1>17

\* A rotation counts what it gives up.
LEMMA RotateCounts ==
  ASSUME Stored, DeliveryInv, CountInv,
         NEW fresh \in Instance, Unused(fresh), Rotate(fresh), stream' = stream
  PROVE  CountInv'
<1> DEFINE extra == IF attempted THEN Size(retained) ELSE 0
           d == health.dropped + PendingObservations
           a == health.abandoned + SurrenderedCaptures
           m == health.ambiguous + extra
<1>1. /\ health.dropped \in Nat /\ health.late \in Nat /\ health.abandoned \in Nat
      /\ health.ambiguous \in Nat /\ health \in HealthType
  BY HealthFields DEF CountInv
<1>2. /\ extra \in Nat /\ Cardinality(Undelivered) \in Nat
      /\ Cardinality(UndeliveredObservations) \in Nat
      /\ SurrenderedCaptures \in Nat /\ PendingObservations \in Nat
      /\ Cardinality(Undelivered) <= SurrenderedCaptures
      /\ SurrenderedCaptures <= Cardinality(Undelivered) + extra
      /\ Cardinality(UndeliveredObservations) <= PendingObservations
      /\ PendingObservations <= Cardinality(UndeliveredObservations) + extra
  BY SurrenderExact
<1>3. /\ Cardinality(Unsent) \in Nat /\ Cardinality(UnsentObservations) \in Nat
      /\ Cardinality(GapCaptures) \in Nat
  BY CountsFinite DEF CountInv
<1>4. /\ Reserved' = Reserved /\ GapCaptures' = GapCaptures
      /\ Cardinality(Unsent') = Cardinality(Unsent) + Cardinality(Undelivered)
      /\ Cardinality(UnsentObservations')
           = Cardinality(UnsentObservations) + Cardinality(UndeliveredObservations)
  BY RotateGivesUp DEF CountInv
<1>5. health' = [health EXCEPT !.last = 0, !.dropped = d, !.abandoned = a, !.ambiguous = m]
  BY DEF Rotate
<1>6. d \in Nat /\ a \in Nat /\ m \in Nat
  BY <1>1, <1>2
<1>7. /\ health' \in HealthType /\ health'.dropped = d /\ health'.late = health.late
      /\ health'.abandoned = a /\ health'.ambiguous = m
  <2> HIDE DEF d, a, m
  <2>1. 0 \in 0 .. MaxCaptureSeq
    BY MaxCaptureAssumption
  <2> QED
    BY <1>1, <1>5, <1>6, <2>1 DEF HealthType
<1> HIDE DEF extra
<1>8. DropsCounted'
  <2>1. LET lost == Cardinality(UnsentObservations) + Cardinality(GapCaptures) + health.late
        IN lost <= health.dropped /\ health.dropped <= lost + health.ambiguous
    BY DEF CountInv, DropsCounted
  <2> QED
    BY <1>1, <1>2, <1>3, <1>4, <1>7, <2>1 DEF DropsCounted
<1>9. AbandonmentAudit'
  <2>1. Cardinality(Unsent) <= health.abandoned
        /\ health.abandoned <= Cardinality(Unsent) + health.ambiguous
    BY DEF CountInv, AbandonmentAudit, Unsent
  <2>2. Cardinality(Unsent') <= health'.abandoned
        /\ health'.abandoned <= Cardinality(Unsent') + health'.ambiguous
    BY <1>1, <1>2, <1>3, <1>4, <1>7, <2>1
  <2> QED
    BY <2>2 DEF AbandonmentAudit, Unsent
<1> QED
  BY <1>4, <1>7, <1>8, <1>9 DEF CountInv

-----------------------------------------------------------------------------
(* Every step counts what it loses *)

\* Callbacks reserve or drop captures, a rotation gives a stream up, and no other step
\* touches history, identity or counters.
LEMMA StepsThatCount ==
  ASSUME [Next]_vars
  PROVE  \/ UNCHANGED <<inst, captured, health>>
         \/ (PublishGap \/ PublishObservation) /\ UNCHANGED <<inst, stream>>
         \/ CaptureLate /\ stream' = stream
         \/ \E fresh \in Instance : Unused(fresh) /\ Rotate(fresh) /\ stream' = stream
<1> DEFINE Quiet == UNCHANGED <<inst, captured, health>>
<1>1. CASE CallbackNext /\ UNCHANGED <<streamVars, conn, up, faults>>
  BY <1>1 DEF CallbackNext, Capture, CaptureInvalid, CaptureLate, RequestClose, captureVars,
              streamVars
<1>2. CASE LocalNext
  BY <1>2 DEF LocalNext, SelectHead, ReadFirstGap, ClaimFirstGap, Deliver, SealAndClose, Idle,
              captureVars
<1>3. CASE Connect \/ ConnectRefused \/ CallNext \/ PeerGone \/ Finish \/ TransportFails
  BY <1>3 DEF Connect, ConnectRefused, CallNext, Call, PeerGone, Finish, Stop, TransportFails,
              CallFailed, captureVars
<1>4. CASE ReadAnswer
  <2>1. CASE Answer.code # "ok"
    <3>1. RpcFailed /\ stream' = stream
      BY <1>4, <2>1 DEF ReadAnswer, streamVars
    <3> QED
      BY <3>1 DEF RpcFailed, CallFailed, captureVars
  <2>2. CASE Answer.code = "ok"
    BY <1>4, <2>2 DEF ReadAnswer, AttachAccepted, CallFailed, FrameAccepted, CommitAccepted,
                      CloseAccepted, captureVars
  <2> QED
    BY <2>1, <2>2
<1>5. CASE ServerNext \/ Crash \/ Maintain
  BY <1>5 DEF ServerNext, Serve, ServeEof, Reopen, Crash, Maintain, bridgeVars, captureVars
<1>6. CASE UNCHANGED vars
  BY <1>6 DEF vars, bridgeVars, captureVars
<1> QED
  BY <1>1, <1>2, <1>3, <1>4, <1>5, <1>6 DEF Next, WorkerNext

\* Hence every step keeps counters and history together.
LEMMA CountStep ==
  ASSUME Stored, DeliveryInv, CountInv, [Next]_vars
  PROVE  CountInv'
<1>1. CASE UNCHANGED <<inst, captured, health>>
  BY <1>1, QuietCounts
<1>2. CASE (PublishGap \/ PublishObservation) /\ UNCHANGED <<inst, stream>>
  BY <1>2, PublishCounts
<1>3. CASE CaptureLate /\ stream' = stream
  BY <1>3, LateCounts
<1>4. CASE \E fresh \in Instance : Unused(fresh) /\ Rotate(fresh) /\ stream' = stream
  BY <1>4, RotateCounts
<1> QED
  BY <1>1, <1>2, <1>3, <1>4, StepsThatCount

\* At the start nothing is reserved and nothing is counted.
LEMMA CountInit == Init => CountInv
<1> SUFFICES ASSUME Init
             PROVE  CountInv
  OBVIOUS
<1>1. /\ health = [last |-> 0, dropped |-> 0, late |-> 0, abandoned |-> 0, ambiguous |-> 0]
      /\ captured = [i \in Instance |-> << >>]
  BY DEF Init, BridgeInit
<1>2. Reserved = {}
  <2>1. \A p \in Instance \X CaptureSeq : ~(p[2] <= Len(captured[p[1]]))
    BY <1>1, MaxCaptureAssumption DEF CaptureSeq
  <2> QED
    BY <2>1 DEF Reserved
<1>3. Unsent = {} /\ UnsentObservations = {} /\ GapCaptures = {}
  BY <1>2 DEF Unsent, UnsentObservations, GapCaptures
<1>4. health \in HealthType
  BY <1>1, MaxCaptureAssumption DEF HealthType
<1>5. Cardinality({}) = 0 /\ IsFiniteSet({})
  BY FS_EmptySet
<1>6. DropsCounted
  BY <1>1, <1>3, <1>5 DEF DropsCounted
<1>7. AbandonmentAudit
  <2>1. Cardinality(Unsent) = 0
    BY <1>3, <1>5
  <2> QED
    BY <1>1, <2>1 DEF AbandonmentAudit, Unsent
<1> QED
  BY <1>2, <1>4, <1>5, <1>6, <1>7 DEF CountInv

\* An observation of the current stream is in the ledger or still local, so what is
\* lost are the observations of streams given up.
LEMMA LossesAreUnsent ==
  ASSUME Stored, DeliveryInv
  PROVE  LostObservations = UnsentObservations
<1>1. ASSUME NEW p \in Reserved, captured[p[1]][p[2]] = "observation", ~IsCommitted(p)
      PROVE  IsLocal(p) <=> p[1] = inst
  <2> SUFFICES ASSUME p[1] = inst
               PROVE  p[2] \in InQueue \cup InHead \cup InHand
    BY DEF IsLocal
  <2>1. p[2] \in Undelivered
    <3>1. /\ inst \in Instance /\ stream[inst].next \in Nat /\ stream[inst].next > 0
          /\ nextCap = Len(captured[inst]) + 1 /\ Len(captured[inst]) \in Nat
      BY LocalTypes DEF Stored, DeliveryInv, HistoryInv
    <3>2. p[2] \in Nat /\ p[2] > 0 /\ p[2] <= Len(captured[inst])
      BY MaxCaptureAssumption DEF Reserved, CaptureSeq
    <3> QED
      BY <1>1, <3>1, <3>2 DEF Undelivered, IsCommitted, Committed
  <2>2. p[2] \in UndeliveredObservations
    BY <1>1, <2>1 DEF UndeliveredObservations
  <2> QED
    BY <2>2, UndeliveredPlaces DEF HandLeft
<1> QED
  BY <1>1 DEF LostObservations, UnsentObservations, Unsent

\* Counters and history belong together, whatever is lost, late or given up.
LEMMA CountInvariant == Spec => [](Stored /\ DeliveryInv /\ CountInv)
<1>1. Stored /\ DeliveryInv /\ CountInv /\ [Next]_vars => CountInv'
  BY CountStep
<1> QED
  BY CountInit, DeliveryInvariant, <1>1, PTL DEF Spec

\* dropped_events hides no loss: it counts every payload that is gone, over any number
\* of rotations, restarts and lost answers, and exceeds them by ambiguous_records at most.
THEOREM LossIsCounted == Spec => []NoSilentLoss
<1>1. Stored /\ DeliveryInv /\ CountInv => NoSilentLoss
  BY LossesAreUnsent DEF CountInv, DropsCounted, NoSilentLoss
<1> QED
  BY CountInvariant, <1>1, PTL

\* The audit of a rotation brackets the captures it gives up.
THEOREM AbandonmentCounted == Spec => []AbandonmentAudit
<1>1. CountInv => AbandonmentAudit
  BY DEF CountInv
<1> QED
  BY CountInvariant, <1>1, PTL

-----------------------------------------------------------------------------
(* The whole type invariant *)

\* What no request depends on: the bounds, the flags and the worker's place.
ControlTyped ==
    /\ Len(queue) <= QueueCapacity
    /\ attempted \in BOOLEAN /\ closing \in BOOLEAN /\ sealed \in BOOLEAN
    /\ stopped \in BOOLEAN /\ everCaptured \in BOOLEAN
    /\ pc \in WorkerStep
    /\ up \in BOOLEAN
    /\ faults \in 0 .. MaxFaults

\* A callback adds to the queue only while it has room.
LEMMA CallbackControlTyped ==
  ASSUME Typed, ControlTyped, CallbackNext, UNCHANGED <<up, faults>>
  PROVE  ControlTyped'
<1>1. queue \in Seq(CaptureSeq)
  BY DEF Typed, BridgeTyped
<1>2. CASE Capture
  <2>1. /\ UNCHANGED <<attempted, closing, sealed, stopped, pc>> /\ everCaptured' = TRUE
    BY <1>2 DEF Capture, PublishObservation, PublishGap, Reserve, closeVars, workerVars
  <2>2. Len(queue') <= QueueCapacity
    <3>1. CASE Len(queue) < QueueCapacity
      <4>1. queue' = Append(queue, nextCap) /\ nextCap \in CaptureSeq
        BY <1>2, <3>1, MaxCaptureAssumption
           DEF Capture, PublishObservation, Reserve, Typed, BridgeTyped, CaptureSeq
      <4>2. Len(queue') = Len(queue) + 1 /\ Len(queue) \in Nat
        BY <1>1, <4>1
      <4> QED
        BY <3>1, <4>2, QueueAssumption
    <3>2. CASE ~(Len(queue) < QueueCapacity)
      BY <1>2, <3>2 DEF Capture, PublishGap, ControlTyped
    <3> QED
      BY <3>1, <3>2
  <2> QED
    BY <2>1, <2>2 DEF ControlTyped
<1>3. CASE CaptureInvalid
  BY <1>3 DEF CaptureInvalid, PublishGap, Reserve, closeVars, workerVars, ControlTyped
<1>4. CASE CaptureLate
  BY <1>4 DEF CaptureLate, captureVars, closeVars, workerVars, ControlTyped
<1>5. CASE RequestClose
  BY <1>5 DEF RequestClose, captureVars, workerVars, ControlTyped
<1> QED
  BY <1>2, <1>3, <1>4, <1>5 DEF CallbackNext

\* The worker's own steps lead from one place of its loop to another.
LEMMA LocalControlTyped ==
  ASSUME Typed, ControlTyped, LocalNext, UNCHANGED <<up, faults>>
  PROVE  ControlTyped'
<1>1. queue \in Seq(CaptureSeq) /\ goal \in {"select", "commit", "close"}
  BY DEF Typed, BridgeTyped
<1>2. CASE SelectHead
  <2>1. /\ pc' \in {"deliver", "gaps"}
        /\ UNCHANGED <<attempted, closing, sealed, stopped, everCaptured>>
    BY <1>2 DEF SelectHead, Go, closeVars
  <2>2. queue' = queue \/ (queue # << >> /\ queue' = Tail(queue))
    BY <1>2 DEF SelectHead
  <2>3. Len(queue') <= QueueCapacity
    BY <1>1, <2>2, QueueAssumption DEF ControlTyped
  <2> QED
    BY <2>1, <2>3 DEF ControlTyped, WorkerStep
<1>3. CASE ReadFirstGap
  BY <1>3 DEF ReadFirstGap, Go, captureVars, closeVars, ControlTyped, WorkerStep
<1>4. CASE ClaimFirstGap
  BY <1>4 DEF ClaimFirstGap, Go, closeVars, ControlTyped, WorkerStep
<1>5. CASE Deliver
  BY <1>5 DEF Deliver, Go, captureVars, closeVars, ControlTyped, WorkerStep
<1>6. CASE SealAndClose
  BY <1>6 DEF SealAndClose, Go, captureVars, ControlTyped, WorkerStep
<1>7. CASE Idle
  BY <1>7 DEF Idle, Go, captureVars, closeVars, ControlTyped, WorkerStep
<1> QED
  BY <1>2, <1>3, <1>4, <1>5, <1>6, <1>7 DEF LocalNext

\* So do its calls and their answers, and a rotation empties the queue.
LEMMA CallControlTyped ==
  ASSUME Typed, ControlTyped,
         \/ Connect \/ ConnectRefused \/ CallNext \/ ReadAnswer \/ PeerGone \/ Finish
         \/ TransportFails
  PROVE  ControlTyped'
<1>1. goal \in {"select", "commit", "close"}
  BY DEF Typed, BridgeTyped
<1>2. CASE Connect \/ ConnectRefused \/ PeerGone \/ Finish
  <2>1. /\ pc' \in {"attaching", "select", "done"}
        /\ UNCHANGED <<queue, attempted, closing, sealed, stopped, everCaptured, up, faults>>
    BY <1>2 DEF Connect, ConnectRefused, PeerGone, Finish, Stop, CallFailed, captureVars,
                closeVars
  <2> QED
    BY <2>1 DEF ControlTyped, WorkerStep, Waiting
<1>3. CASE TransportFails
  BY <1>3, FaultAssumption DEF TransportFails, CallFailed, captureVars, closeVars, ControlTyped,
                               WorkerStep
<1>4. CASE CallNext
  BY <1>4 DEF CallNext, Call, Go, captureVars, closeVars, ControlTyped, WorkerStep, Waiting
<1>5. CASE ReadAnswer
  <2>1. UNCHANGED <<up, faults>>
    BY <1>5 DEF ReadAnswer
  <2>2. CASE Answer.code # "ok"
    <3>1. RpcFailed
      BY <1>5, <2>2 DEF ReadAnswer
    <3>2. ASSUME NEW fresh \in Instance, Rotate(fresh)
          PROVE  ControlTyped'
      <4>1. Len(queue') = 0
        BY <3>2 DEF Rotate, EmptyBuffers
      <4>2. /\ attempted' = FALSE /\ sealed' = FALSE /\ pc' = "select"
            /\ UNCHANGED <<everCaptured, closing, stopped>>
        BY <3>2 DEF Rotate, BreakSeal
      <4>3. Len(queue') <= QueueCapacity
        BY <4>1, QueueAssumption
      <4> QED
        BY <2>1, <4>2, <4>3 DEF ControlTyped, WorkerStep
    <3>3. CASE CallFailed
      BY <2>1, <3>3 DEF CallFailed, captureVars, closeVars, ControlTyped, WorkerStep
    <3>4. CASE /\ Go("recovering")
               /\ UNCHANGED <<inst, captureVars, head, retained, attempted, closeVars, health>>
      BY <2>1, <3>4 DEF Go, captureVars, closeVars, ControlTyped, WorkerStep, Waiting
    <3> QED
      BY <3>1, <3>2, <3>3, <3>4 DEF RpcFailed
  <2>3. CASE Answer.code = "ok"
    <3>1. \/ \E n : AttachAccepted(n)
          \/ FrameAccepted \/ CommitAccepted \/ CloseAccepted \/ CallFailed
      BY <1>5, <2>3 DEF ReadAnswer
    <3>2. CASE \E n : AttachAccepted(n)
      BY <2>1, <3>2 DEF AttachAccepted, Go, captureVars, closeVars, ControlTyped, WorkerStep
    <3>3. CASE FrameAccepted
      BY <1>1, <2>1, <3>3 DEF FrameAccepted, captureVars, closeVars, ControlTyped, WorkerStep
    <3>4. CASE CommitAccepted
      BY <2>1, <3>4 DEF CommitAccepted, Go, captureVars, closeVars, ControlTyped, WorkerStep
    <3>5. CASE CloseAccepted
      BY <2>1, <3>5 DEF CloseAccepted, captureVars, ControlTyped, WorkerStep
    <3>6. CASE CallFailed
      BY <2>1, <3>6 DEF CallFailed, captureVars, closeVars, ControlTyped, WorkerStep
    <3> QED
      BY <3>1, <3>2, <3>3, <3>4, <3>5, <3>6
  <2> QED
    BY <2>2, <2>3
<1> QED
  BY <1>2, <1>3, <1>4, <1>5

\* Every step keeps flags, bounds and places.
LEMMA ControlTypedStep ==
  ASSUME Typed, ControlTyped, [Next]_vars
  PROVE  ControlTyped'
<1>1. CASE CallbackNext /\ UNCHANGED <<streamVars, conn, up, faults>>
  BY <1>1, CallbackControlTyped
<1>2. CASE LocalNext /\ UNCHANGED <<streamVars, conn, up, faults>>
  BY <1>2, LocalControlTyped
<1>3. CASE \/ Connect \/ ConnectRefused \/ CallNext \/ ReadAnswer \/ PeerGone \/ Finish
           \/ TransportFails
  BY <1>3, CallControlTyped
<1>4. CASE ServerNext \/ Crash \/ Maintain
  <2>1. UNCHANGED bridgeVars /\ up' \in BOOLEAN /\ faults' \in 0 .. MaxFaults
    <3>1. CASE (\E c \in Conn : Serve(c) \/ ServeEof(c)) \/ Maintain
      BY <3>1 DEF Serve, ServeEof, Maintain, ControlTyped
    <3>2. CASE Reopen
      BY <3>2 DEF Reopen, ControlTyped
    <3>3. CASE Crash
      <4>1. UNCHANGED bridgeVars /\ up' = FALSE
            /\ faults < MaxFaults /\ faults' = faults + 1
        BY <3>3 DEF Crash
      <4>2. faults' \in 0 .. MaxFaults
        <5>1. faults \in 0 .. MaxFaults
          BY DEF ControlTyped
        <5> QED
          BY <4>1, <5>1, FaultAssumption
      <4> QED
        BY <4>1, <4>2
    <3> QED
      BY <1>4, <3>1, <3>2, <3>3 DEF ServerNext
  <2> QED
    BY <2>1 DEF bridgeVars, captureVars, closeVars, workerVars, ControlTyped
<1>5. CASE UNCHANGED vars
  BY <1>5 DEF vars, bridgeVars, captureVars, closeVars, workerVars, ControlTyped
<1> QED
  BY <1>1, <1>2, <1>3, <1>4, <1>5 DEF Next, WorkerNext

\* Plugin, sockets and store keep their types, the queue its bound, and every counter
\* is a natural number.
THEOREM DeliveryTyped == Spec => []TypeInvariant
<1>1. Init => ControlTyped
  <2> SUFFICES ASSUME Init
               PROVE  ControlTyped
    OBVIOUS
  <2>1. Len(queue) = 0
    BY DEF Init, BridgeInit
  <2>2. Len(queue) <= QueueCapacity
    BY <2>1, QueueAssumption
  <2>3. faults \in 0 .. MaxFaults
    BY FaultAssumption DEF Init
  <2> QED
    BY <2>2, <2>3 DEF Init, BridgeInit, ControlTyped, WorkerStep
<1>2. (Stored /\ DeliveryInv /\ CountInv) /\ ControlTyped /\ [Next]_vars => ControlTyped'
  BY ControlTypedStep DEF Stored
<1>3. (Stored /\ DeliveryInv /\ CountInv) /\ ControlTyped => TypeInvariant
  <2> SUFFICES ASSUME Stored, DeliveryInv, CountInv, ControlTyped
               PROVE  TypeInvariant
    OBVIOUS
  <2>1. BridgeTypeOK
    BY DEF BridgeTypeOK, Stored, Typed, BridgeTyped, DeliveryInv, WorkerInv, HistoryInv,
           CountInv, ControlTyped
  <2> QED
    BY <2>1 DEF TypeInvariant, Stored, Typed, ControlTyped
<1> QED
  BY <1>1, <1>2, <1>3, CountInvariant, PTL DEF Spec
=============================================================================
