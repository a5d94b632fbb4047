------------------------- MODULE EventStreamProofs -------------------------
(***************************************************************************)
(* The stream invariant of EventStream, for any number of clients, any log *)
(* length and any number of lost connections.  TypeOK is proved first; the *)
(* order properties follow from the cursor invariant, which says that what *)
(* a client has and what its wire carries end exactly at after_sequence.   *)
(***************************************************************************)
EXTENDS EventStream, SequenceTheorems, TLAPS

\* What a typed connection gives.
LEMMA ConnTyped ==
    ASSUME TypeOK, NEW i \in Clients
    PROVE  /\ conn[i].pc \in {"closed", "resolving", "polling", "ended"}
           /\ conn[i].header \in 0..UnknownId
           /\ conn[i].after \in 0..MaxEvents
           /\ conn[i].upto \in 0..MaxEvents
           /\ conn[i].wire \in Seq(1..MaxEvents)
           /\ conn[i] = [pc |-> conn[i].pc, header |-> conn[i].header,
                         after |-> conn[i].after, upto |-> conn[i].upto,
                         wire |-> conn[i].wire]
           /\ got[i] \in Seq(1..MaxEvents)
           /\ Len(got[i]) \in Nat /\ Len(conn[i].wire) \in Nat
  BY DEF TypeOK, Conn

LEMMA ClosedTyped == Closed \in Conn
  BY StreamConstantsOK DEF Closed, Conn, UnknownId

LEMMA OpenedTyped == \A id \in 0..UnknownId : Opened(id) \in Conn
  BY StreamConstantsOK DEF Opened, Conn, UnknownId

\* The client's last id is an event id or none.
LEMMA LastIdTyped ==
    ASSUME TypeOK, NEW i \in Clients
    PROVE  LastId(i) \in 0..MaxEvents
  <1>1. got[i] \in Seq(1..MaxEvents)
    BY DEF TypeOK
  <1> QED
    BY <1>1, StreamConstantsOK DEF LastId

LEMMA InitStream == Init => StreamInv
  <1> SUFFICES ASSUME Init PROVE StreamInv
    OBVIOUS
  <1>1. TypeOK
    BY ClosedTyped, StreamConstantsOK DEF Init, TypeOK
  <1>2. LogInv /\ NoGapNoDuplicate
    BY DEF Init, LogInv, NoGapNoDuplicate
  <1>3. \A i \in Clients : CursorInv(i)
    <2>1. ASSUME NEW i \in Clients PROVE CursorInv(i)
      <3>1. conn[i] = Closed /\ got[i] = <<>>
        BY DEF Init
      <3>2. conn[i].wire = <<>> /\ conn[i].pc = "closed"
        BY <3>1 DEF Closed
      <3> QED
        BY <3>2 DEF CursorInv
    <2> QED
      BY <2>1
  <1> QED
    BY <1>1, <1>2, <1>3 DEF StreamInv

-----------------------------------------------------------------------------
\* Every action changes at most one connection: it is enough to look at that one.

\* The typed part of a step of client i, given its new connection and inbox.
LEMMA TypeStep ==
    ASSUME TypeOK, NEW i \in Clients, NEW w \in Conn, NEW q \in Seq(1..MaxEvents),
           conn' = [conn EXCEPT ![i] = w], got' = [got EXCEPT ![i] = q],
           log' = log, drops' \in 0..MaxDrops
    PROVE  TypeOK'
  BY DEF TypeOK

\* The remaining parts, given that the new connection and inbox satisfy them.
LEMMA CursorStep ==
    ASSUME StreamInv, NEW i \in Clients, NEW w \in Conn, NEW q \in Seq(1..MaxEvents),
           conn' = [conn EXCEPT ![i] = w], got' = [got EXCEPT ![i] = q],
           log' = log, drops' \in 0..MaxDrops,
           CursorInv(i)',
           Len(q) <= Len(log), \A k \in DOMAIN q : q[k] = k
    PROVE  StreamInv'
  <1>1. TypeOK'
    BY TypeStep DEF StreamInv
  <1>2. LogInv'
    BY DEF StreamInv, LogInv
  <1>3. ASSUME NEW j \in Clients PROVE conn'[j] = (IF j = i THEN w ELSE conn[j])
                                    /\ got'[j] = (IF j = i THEN q ELSE got[j])
    BY DEF StreamInv, TypeOK
  <1>4. NoGapNoDuplicate'
    BY <1>3 DEF StreamInv, NoGapNoDuplicate
  <1>5. ASSUME NEW j \in Clients PROVE CursorInv(j)'
    <2>1. CASE j = i
      BY <2>1
    <2>2. CASE j # i
      <3>1. conn'[j] = conn[j] /\ got'[j] = got[j] /\ CursorInv(j)
        BY <1>3, <2>2 DEF StreamInv
      <3> QED
        BY <3>1 DEF CursorInv, LastId, Over
    <2> QED
      BY <2>1, <2>2
  <1> QED
    BY <1>1, <1>2, <1>4, <1>5 DEF StreamInv

\* The cursor invariant of a connection that is being resolved, or is open.
LEMMA CursorResolving ==
    ASSUME NEW i \in Clients, conn'[i].pc = "resolving", conn'[i].wire = <<>>,
           conn'[i].header = LastId(i)' \/ (conn'[i].header = UnknownId /\ got'[i] = <<>>)
    PROVE  CursorInv(i)'
  BY DEF CursorInv

LEMMA CursorPolling ==
    ASSUME NEW i \in Clients, conn'[i].pc = "polling",
           Len(got'[i]) + Len(conn'[i].wire) = conn'[i].after,
           conn'[i].after <= conn'[i].upto, conn'[i].upto <= Len(log'),
           \A k \in DOMAIN conn'[i].wire : conn'[i].wire[k] = Len(got'[i]) + k
    PROVE  CursorInv(i)'
  BY DEF CursorInv

LEMMA AppendKeeps ==
    ASSUME StreamInv, NEW stage \in OpenStages \cup TerminalStages, AppendEvent(stage)
    PROVE  StreamInv'
  <1>1. log' = Append(log, stage) /\ ~Over /\ Len(log) < MaxEvents
        /\ conn' = conn /\ got' = got /\ drops' = drops
    BY DEF AppendEvent
  <1>2. log \in Seq(OpenStages \cup TerminalStages)
    BY DEF StreamInv, TypeOK
  <1>3. /\ log' \in Seq(OpenStages \cup TerminalStages)
        /\ Len(log') = Len(log) + 1 /\ Len(log) \in Nat
        /\ \A k \in DOMAIN log : log'[k] = log[k]
        /\ DOMAIN log = 1..Len(log) /\ DOMAIN log' = 1..Len(log')
    BY <1>1, <1>2
  <1>4. TypeOK'
    BY <1>1, <1>3, StreamConstantsOK DEF StreamInv, TypeOK
  <1>5. \A k \in DOMAIN log : log[k] \notin TerminalStages
    BY <1>1, <1>2 DEF StreamInv, LogInv, Over
  <1>6. LogInv'
    BY <1>1, <1>3, <1>5 DEF LogInv
  <1>7. NoGapNoDuplicate'
    <2>1. ASSUME NEW i \in Clients
          PROVE  Len(got[i]) <= Len(log) /\ Len(got[i]) \in Nat
                 /\ \A k \in DOMAIN got[i] : got[i][k] = k
      BY DEF StreamInv, NoGapNoDuplicate, TypeOK
    <2>2. ASSUME NEW i \in Clients PROVE Len(got[i]) <= Len(log')
      BY <2>1, <1>3
    <2> QED
      BY <2>1, <2>2, <1>1 DEF NoGapNoDuplicate
  <1>8. ASSUME NEW i \in Clients PROVE CursorInv(i)'
    <2>1. CursorInv(i) /\ conn'[i] = conn[i] /\ got'[i] = got[i] /\ TypeOK
      BY <1>1 DEF StreamInv
    <2>2. conn[i].pc # "ended"
      BY <2>1, <1>1 DEF CursorInv
    <2>3. conn[i].upto \in Nat
      <3>1. conn[i].upto \in 0..MaxEvents
        BY <2>1, ConnTyped
      <3> QED
        BY <3>1, StreamConstantsOK
    <2>4. conn[i].upto <= Len(log) => conn[i].upto <= Len(log')
      BY <2>3, <1>3
    <2> QED
      BY <2>1, <2>2, <2>4 DEF CursorInv, LastId
  <1> QED
    BY <1>4, <1>6, <1>7, <1>8 DEF StreamInv

-----------------------------------------------------------------------------
\* The steps of one client's connection.

LEMMA ResumeKeeps ==
    ASSUME StreamInv, NEW i \in Clients, Resume(i)
    PROVE  StreamInv'
  <1> DEFINE w == Opened(LastId(i))
  <1>1. TypeOK /\ got[i] \in Seq(1..MaxEvents)
    BY DEF StreamInv, TypeOK
  <1>2. LastId(i) \in 0..UnknownId
    BY <1>1, LastIdTyped, StreamConstantsOK DEF UnknownId
  <1>3. w.pc = "resolving" /\ w.header = LastId(i) /\ w.wire = <<>>
    BY DEF Opened
  <1>4. w \in Conn
    BY <1>2, OpenedTyped
  <1>5. conn' = [conn EXCEPT ![i] = w] /\ got' = [got EXCEPT ![i] = got[i]]
        /\ log' = log /\ drops' = drops
    BY <1>1 DEF Resume, TypeOK
  <1>6. conn'[i] = w /\ got'[i] = got[i] /\ LastId(i)' = LastId(i)
    BY <1>1, <1>5 DEF TypeOK, LastId
  <1>7. CursorInv(i)'
    <2> HIDE DEF w
    <2> QED
      BY <1>3, <1>6, CursorResolving
  <1>8. Len(got[i]) <= Len(log) /\ \A k \in DOMAIN got[i] : got[i][k] = k
    BY DEF StreamInv, NoGapNoDuplicate
  <1>9. drops' \in 0..MaxDrops
    BY <1>1, <1>5 DEF TypeOK
  <1> HIDE DEF w
  <1> QED
    BY <1>1, <1>4, <1>5, <1>7, <1>8, <1>9, CursorStep

LEMMA StartOverKeeps ==
    ASSUME StreamInv, NEW i \in Clients, StartOver(i)
    PROVE  StreamInv'
  <1>1. TypeOK
    BY DEF StreamInv
  <1>2. PICK id \in {0, UnknownId} :
          conn' = [conn EXCEPT ![i] = Opened(id)]
    BY DEF StartOver
  <1> DEFINE w == Opened(id)
  <1>3. w.pc = "resolving" /\ w.header = id /\ w.wire = <<>>
    BY DEF Opened
  <1>4. w \in Conn
    BY OpenedTyped, StreamConstantsOK DEF UnknownId
  <1>5. conn' = [conn EXCEPT ![i] = w] /\ got' = [got EXCEPT ![i] = <<>>]
        /\ log' = log /\ drops' = drops
    BY <1>2 DEF StartOver
  <1>6. conn'[i] = w /\ got'[i] = <<>>
    BY <1>1, <1>5 DEF TypeOK
  <1>7. CursorInv(i)'
    <2>1. LastId(i)' = 0
      BY <1>6 DEF LastId
    <2> HIDE DEF w
    <2> QED
      BY <1>3, <1>6, <2>1, CursorResolving
  <1>8. log \in Seq(OpenStages \cup TerminalStages)
    BY <1>1 DEF TypeOK
  <1>9. Len(<<>>) <= Len(log) /\ (\A k \in DOMAIN <<>> : <<>>[k] = k)
        /\ <<>> \in Seq(1..MaxEvents)
    BY <1>8
  <1>10. drops' \in 0..MaxDrops
    BY <1>1, <1>5 DEF TypeOK
  <1> HIDE DEF w
  <1> QED
    BY <1>4, <1>5, <1>7, <1>9, <1>10, CursorStep

\* A client that resumes sends the number of events it has.
LEMMA LastIdIsLen ==
    ASSUME StreamInv, NEW i \in Clients
    PROVE  LastId(i) = Len(got[i])
  <1>1. got[i] \in Seq(1..MaxEvents) /\ \A k \in DOMAIN got[i] : got[i][k] = k
    BY DEF StreamInv, TypeOK, NoGapNoDuplicate
  <1> QED
    BY <1>1 DEF LastId

LEMMA ResolveKeeps ==
    ASSUME StreamInv, NEW i \in Clients, Resolve(i)
    PROVE  StreamInv'
  <1> DEFINE id == conn[i].header
             start == IF id \in DOMAIN log THEN id ELSE 0
             w == [conn[i] EXCEPT !.pc = "polling", !.after = start, !.upto = start]
  <1>1. /\ TypeOK /\ got[i] \in Seq(1..MaxEvents)
        /\ log \in Seq(OpenStages \cup TerminalStages) /\ Len(log) <= MaxEvents
        /\ Len(got[i]) <= Len(log) /\ \A k \in DOMAIN got[i] : got[i][k] = k
        /\ conn \in [Clients -> Conn] /\ conn[i] \in Conn
    BY DEF StreamInv, TypeOK, NoGapNoDuplicate
  <1>2. id = LastId(i) \/ (id = UnknownId /\ got[i] = <<>>)
    BY DEF Resolve, StreamInv, CursorInv
  <1>3. start = Len(got[i])
    <2>1. CASE id = LastId(i)
      <3>1. id = Len(got[i])
        BY <2>1, LastIdIsLen
      <3> QED
        BY <3>1, <1>1
    <2>2. CASE id = UnknownId /\ got[i] = <<>>
      BY <2>2, <1>1, StreamConstantsOK DEF UnknownId
    <2> QED
      BY <1>2, <2>1, <2>2
  <1>4. start \in 0..MaxEvents /\ start <= Len(log)
    <2> HIDE DEF start
    <2>1. Len(got[i]) \in Nat /\ Len(log) \in Nat
      BY <1>1
    <2> QED
      BY <1>1, <1>3, <2>1, StreamConstantsOK
  <1>5. conn' = [conn EXCEPT ![i] = w] /\ got' = [got EXCEPT ![i] = got[i]]
        /\ log' = log /\ drops' = drops
    BY <1>1 DEF Resolve, TypeOK
  <1>6. w \in Conn /\ w.pc = "polling" /\ w.after = start /\ w.upto = start
        /\ w.wire = conn[i].wire
    BY <1>1, <1>4 DEF Conn
  <1>7. conn'[i] = w /\ got'[i] = got[i]
    BY <1>1, <1>5 DEF TypeOK
  <1>8. conn[i].wire = <<>>
    BY DEF Resolve, StreamInv, CursorInv
  <1> HIDE DEF w, start
  <1>9. CursorInv(i)'
    <2>1. /\ conn'[i].pc = "polling" /\ conn'[i].wire = <<>>
          /\ conn'[i].after = start /\ conn'[i].upto = start /\ log' = log
          /\ Len(got'[i]) = start
      BY <1>3, <1>5, <1>6, <1>7, <1>8
    <2>2. Len(got'[i]) + Len(conn'[i].wire) = conn'[i].after
      BY <2>1, <1>4, StreamConstantsOK
    <2>3. \A k \in DOMAIN conn'[i].wire : conn'[i].wire[k] = Len(got'[i]) + k
      BY <2>1
    <2>4. conn'[i].after <= conn'[i].upto /\ conn'[i].upto <= Len(log')
      BY <2>1, <1>4, StreamConstantsOK
    <2> QED
      BY <2>1, <2>2, <2>3, <2>4, CursorPolling
  <1>10. drops' \in 0..MaxDrops
    BY <1>1, <1>5 DEF TypeOK
  <1> QED
    BY <1>1, <1>5, <1>6, <1>9, <1>10, CursorStep

LEMMA PollKeeps ==
    ASSUME StreamInv, NEW i \in Clients, Poll(i)
    PROVE  StreamInv'
  <1> DEFINE w == [conn[i] EXCEPT !.upto = Len(log)]
  <1>1. /\ TypeOK /\ got[i] \in Seq(1..MaxEvents)
        /\ log \in Seq(OpenStages \cup TerminalStages) /\ Len(log) <= MaxEvents
        /\ Len(log) \in Nat
        /\ Len(got[i]) <= Len(log) /\ \A k \in DOMAIN got[i] : got[i][k] = k
        /\ conn \in [Clients -> Conn] /\ conn[i] \in Conn
    BY DEF StreamInv, TypeOK, NoGapNoDuplicate
  <1>2. conn' = [conn EXCEPT ![i] = w] /\ got' = [got EXCEPT ![i] = got[i]]
        /\ log' = log /\ drops' = drops
    BY <1>1 DEF Poll, TypeOK
  <1>3. w \in Conn /\ w.pc = "polling" /\ w.after = conn[i].after /\ w.upto = Len(log)
        /\ w.wire = conn[i].wire
    <2>1. Len(log) \in 0..MaxEvents
      BY <1>1, StreamConstantsOK
    <2>2. conn[i].pc = "polling"
      BY DEF Poll
    <2> HIDE DEF Poll
    <2> QED
      BY <1>1, <2>1, <2>2 DEF Conn
  <1>4. conn'[i] = w /\ got'[i] = got[i]
    BY <1>1, <1>2 DEF TypeOK
  <1>5. CursorInv(i) /\ conn[i].pc = "polling" /\ conn[i].after < Len(log)
    BY DEF Poll, StreamInv
  <1>6. conn[i].after \in Nat
    BY <1>1, StreamConstantsOK DEF Conn
  <1> HIDE DEF w
  <1>7. CursorInv(i)'
    <2>1. /\ conn'[i].pc = "polling" /\ conn'[i].wire = conn[i].wire
          /\ conn'[i].after = conn[i].after /\ conn'[i].upto = Len(log)
          /\ got'[i] = got[i] /\ log' = log
      BY <1>2, <1>3, <1>4
    <2>2. /\ Len(got[i]) + Len(conn[i].wire) = conn[i].after
          /\ \A k \in DOMAIN conn[i].wire : conn[i].wire[k] = Len(got[i]) + k
      BY <1>5 DEF CursorInv
    <2>3. Len(log) <= Len(log) /\ conn[i].after <= Len(log)
      BY <1>1, <1>5, <1>6
    <2> QED
      BY <2>1, <2>2, <2>3, CursorPolling
  <1>8. drops' \in 0..MaxDrops
    BY <1>1, <1>2 DEF TypeOK
  <1> QED
    BY <1>1, <1>2, <1>3, <1>7, <1>8, CursorStep

LEMMA CursorEnded ==
    ASSUME NEW i \in Clients, conn'[i].pc = "ended", Over',
           Len(got'[i]) + Len(conn'[i].wire) = conn'[i].after,
           conn'[i].after <= conn'[i].upto, conn'[i].upto <= Len(log'),
           conn'[i].after = Len(log'),
           \A k \in DOMAIN conn'[i].wire : conn'[i].wire[k] = Len(got'[i]) + k
    PROVE  CursorInv(i)'
  BY DEF CursorInv

LEMMA CursorClosed ==
    ASSUME NEW i \in Clients, conn'[i] = Closed
    PROVE  CursorInv(i)'
  <1>1. conn'[i].pc = "closed" /\ conn'[i].wire = <<>>
    BY DEF Closed
  <1> QED
    BY <1>1 DEF CursorInv

LEMMA YieldKeeps ==
    ASSUME StreamInv, NEW i \in Clients, Yield(i)
    PROVE  StreamInv'
  <1> DEFINE next == conn[i].after + 1
             pc == IF log[next] \in TerminalStages THEN "ended" ELSE "polling"
             w == [conn[i] EXCEPT !.after = next, !.wire = Append(conn[i].wire, next),
                                  !.pc = pc]
  <1>1. /\ TypeOK /\ got[i] \in Seq(1..MaxEvents)
        /\ log \in Seq(OpenStages \cup TerminalStages) /\ Len(log) <= MaxEvents
        /\ Len(log) \in Nat /\ Len(got[i]) \in Nat
        /\ Len(got[i]) <= Len(log) /\ \A k \in DOMAIN got[i] : got[i][k] = k
        /\ conn \in [Clients -> Conn] /\ conn[i] \in Conn
    BY DEF StreamInv, TypeOK, NoGapNoDuplicate
  <1>2. conn' = [conn EXCEPT ![i] = w] /\ got' = [got EXCEPT ![i] = got[i]]
        /\ log' = log /\ drops' = drops
    BY <1>1 DEF Yield, TypeOK
  <1>3. conn[i].pc = "polling" /\ conn[i].after < conn[i].upto
    BY DEF Yield
  <1>4. /\ Len(got[i]) + Len(conn[i].wire) = conn[i].after
        /\ conn[i].upto <= Len(log)
        /\ \A k \in DOMAIN conn[i].wire : conn[i].wire[k] = Len(got[i]) + k
    BY <1>3 DEF StreamInv, CursorInv
  <1>5. conn[i].after \in 0..MaxEvents /\ conn[i].upto \in 0..MaxEvents
        /\ conn[i].wire \in Seq(1..MaxEvents)
    BY <1>1 DEF Conn
  <1>6. next \in 1..MaxEvents /\ next <= conn[i].upto /\ next \in 1..Len(log)
    BY <1>1, <1>3, <1>4, <1>5, StreamConstantsOK
  <1> HIDE DEF next
  <1>7. /\ Append(conn[i].wire, next) \in Seq(1..MaxEvents)
        /\ Len(Append(conn[i].wire, next)) = Len(conn[i].wire) + 1
        /\ Len(conn[i].wire) \in Nat
        /\ \A k \in DOMAIN Append(conn[i].wire, next) :
             Append(conn[i].wire, next)[k] =
               IF k = Len(conn[i].wire) + 1 THEN next ELSE conn[i].wire[k]
        /\ DOMAIN Append(conn[i].wire, next) = 1..(Len(conn[i].wire) + 1)
        /\ DOMAIN conn[i].wire = 1..Len(conn[i].wire)
    BY <1>5, <1>6
  <1>8. pc \in {"ended", "polling"}
    OBVIOUS
  <1> HIDE DEF pc
  <1>9. next \in 0..MaxEvents
    BY <1>6
  <1>10. /\ w \in Conn
         /\ w.pc = pc /\ w.after = next /\ w.upto = conn[i].upto
         /\ w.wire = Append(conn[i].wire, next)
    BY <1>1, <1>7, <1>8, <1>9 DEF Conn
  <1>11. conn'[i] = w /\ got'[i] = got[i]
    BY <1>1, <1>2 DEF TypeOK
  <1> HIDE DEF w
  <1>12. next = Len(got[i]) + Len(conn[i].wire) + 1
    BY <1>4, <1>1, <1>7 DEF next
  <1>13. Len(got[i]) + Len(conn[i].wire) + 1 = Len(got[i]) + (Len(conn[i].wire) + 1)
    <2>1. \A a, b \in Nat : a + b + 1 = a + (b + 1)
      OBVIOUS
    <2> QED
      BY <2>1, <1>1, <1>7
  <1>14. /\ Len(got'[i]) + Len(conn'[i].wire) = conn'[i].after
         /\ conn'[i].after <= conn'[i].upto /\ conn'[i].upto <= Len(log')
         /\ conn'[i].after = next /\ conn'[i].pc = pc
    BY <1>2, <1>4, <1>6, <1>7, <1>10, <1>11, <1>12, <1>13
  <1>15. \A k \in DOMAIN conn'[i].wire : conn'[i].wire[k] = Len(got'[i]) + k
    <2> SUFFICES ASSUME NEW k \in DOMAIN Append(conn[i].wire, next)
                 PROVE  Append(conn[i].wire, next)[k] = Len(got[i]) + k
      BY <1>10, <1>11
    <2>1. CASE k = Len(conn[i].wire) + 1
      BY <2>1, <1>7, <1>12, <1>13
    <2>2. CASE k # Len(conn[i].wire) + 1
      <3>1. \A a \in Nat : \A b \in 1..(a + 1) : b # a + 1 => b \in 1..a
        OBVIOUS
      <3>2. k \in DOMAIN conn[i].wire
        BY <2>2, <3>1, <1>7
      <3> QED
        BY <2>2, <3>2, <1>7, <1>4
    <2> QED
      BY <2>1, <2>2
  <1>16. CursorInv(i)'
    <2>1. CASE log[next] \in TerminalStages
      <3>1. pc = "ended"
        BY <2>1 DEF pc
      <3>2. next = Len(log)
        BY <2>1, <1>1, <1>6 DEF StreamInv, LogInv
      <3>3. Over'
        BY <2>1, <3>2, <1>1, <1>2, <1>6 DEF Over
      <3> QED
        BY <3>1, <3>2, <3>3, <1>2, <1>14, <1>15, CursorEnded
    <2>2. CASE log[next] \notin TerminalStages
      <3>1. pc = "polling"
        BY <2>2 DEF pc
      <3> QED
        BY <3>1, <1>14, <1>15, CursorPolling
    <2> QED
      BY <2>1, <2>2
  <1>17. drops' \in 0..MaxDrops
    BY <1>1, <1>2 DEF TypeOK
  <1> QED
    BY <1>1, <1>2, <1>10, <1>16, <1>17, CursorStep

LEMMA DeliverKeeps ==
    ASSUME StreamInv, NEW i \in Clients, Deliver(i)
    PROVE  StreamInv'
  <1> DEFINE n == Len(got[i])
             head == Head(conn[i].wire)
             w == [conn[i] EXCEPT !.wire = Tail(conn[i].wire)]
             q == Append(got[i], head)
  <1>1. /\ TypeOK /\ got[i] \in Seq(1..MaxEvents)
        /\ log \in Seq(OpenStages \cup TerminalStages) /\ Len(log) \in Nat /\ n \in Nat
        /\ n <= Len(log) /\ \A k \in DOMAIN got[i] : got[i][k] = k
        /\ conn \in [Clients -> Conn] /\ conn[i] \in Conn
    BY DEF StreamInv, TypeOK, NoGapNoDuplicate
  <1>2. conn' = [conn EXCEPT ![i] = w] /\ got' = [got EXCEPT ![i] = q]
        /\ log' = log /\ drops' = drops /\ conn[i].wire # <<>>
    BY <1>1 DEF Deliver, TypeOK
  <1>3. CursorInv(i) /\ conn[i].wire \in Seq(1..MaxEvents) /\ conn[i].after \in 0..MaxEvents
        /\ conn[i].upto \in 0..MaxEvents
        /\ conn[i].pc \in {"closed", "resolving", "polling", "ended"}
    BY <1>1 DEF StreamInv, Conn
  <1>4. conn[i].pc \in {"polling", "ended"}
    BY <1>2, <1>3 DEF CursorInv
  <1>5. /\ n + Len(conn[i].wire) = conn[i].after
        /\ conn[i].after <= conn[i].upto /\ conn[i].upto <= Len(log)
        /\ \A k \in DOMAIN conn[i].wire : conn[i].wire[k] = n + k
    BY <1>3, <1>4 DEF CursorInv
  <1>6. PICK l \in Nat :
          /\ Len(conn[i].wire) = l /\ l # 0
          /\ head = conn[i].wire[1] /\ head \in 1..MaxEvents
          /\ Tail(conn[i].wire) \in Seq(1..MaxEvents)
          /\ Len(Tail(conn[i].wire)) = l - 1
          /\ DOMAIN Tail(conn[i].wire) = 1..(l - 1)
          /\ DOMAIN conn[i].wire = 1..l
          /\ \A k \in 1..(l - 1) : Tail(conn[i].wire)[k] = conn[i].wire[k + 1]
    <2>1. ASSUME NEW s \in Seq(1..MaxEvents), s # <<>>
          PROVE  /\ Len(s) \in Nat /\ Len(s) # 0 /\ Head(s) = s[1] /\ Head(s) \in 1..MaxEvents
                 /\ Tail(s) \in Seq(1..MaxEvents) /\ Len(Tail(s)) = Len(s) - 1
                 /\ DOMAIN Tail(s) = 1..(Len(s) - 1) /\ DOMAIN s = 1..Len(s)
                 /\ \A k \in 1..(Len(s) - 1) : Tail(s)[k] = s[k + 1]
      <3>1. /\ Head(s) \in 1..MaxEvents /\ Tail(s) \in Seq(1..MaxEvents)
            /\ Len(Tail(s)) = Len(s) - 1
            /\ \A k \in 1..Len(Tail(s)) : Tail(s)[k] = s[k + 1]
        BY <2>1, HeadTailProperties
      <3>2. Len(s) \in Nat /\ Len(s) # 0 /\ Head(s) = s[1] /\ DOMAIN s = 1..Len(s)
        BY <2>1
      <3>3. DOMAIN Tail(s) = 1..Len(Tail(s))
        BY <3>1
      <3> QED
        BY <3>1, <3>2, <3>3
    <2> QED
      BY <2>1, <1>2, <1>3
  <1> HIDE DEF n
  <1>7. head = n + 1
    <2>1. 1 \in DOMAIN conn[i].wire
      BY <1>6
    <2> QED
      BY <2>1, <1>5, <1>6
  <1> HIDE DEF head
  <1>8. /\ q \in Seq(1..MaxEvents) /\ Len(q) = n + 1 /\ DOMAIN q = 1..(n + 1)
        /\ DOMAIN got[i] = 1..n
        /\ \A k \in DOMAIN q : q[k] = IF k = n + 1 THEN head ELSE got[i][k]
    BY <1>1, <1>6 DEF n
  <1> HIDE DEF q
  <1>9. \A k \in DOMAIN q : q[k] = k
    BY <1>1, <1>7, <1>8
  <1>10. Len(q) <= Len(log)
    BY <1>1, <1>3, <1>5, <1>6, <1>8
  <1>11. /\ w \in Conn /\ w.pc = conn[i].pc /\ w.after = conn[i].after
         /\ w.upto = conn[i].upto /\ w.wire = Tail(conn[i].wire)
    BY <1>1, <1>6 DEF Conn
  <1>12. conn'[i] = w /\ got'[i] = q
    BY <1>1, <1>2 DEF TypeOK
  <1> HIDE DEF w
  <1>13. Len(q) + Len(Tail(conn[i].wire)) = conn[i].after
    <2>1. \A a, b \in Nat : (a + 1) + (b - 1) = a + b
      OBVIOUS
    <2>2. Len(q) = n + 1 /\ Len(Tail(conn[i].wire)) = l - 1 /\ n + l = conn[i].after
      BY <1>5, <1>6, <1>8
    <2>3. n \in Nat
      BY <1>1
    <2> QED
      BY <2>1, <2>2, <2>3
  <1>14. \A k \in DOMAIN Tail(conn[i].wire) : Tail(conn[i].wire)[k] = Len(q) + k
    <2> SUFFICES ASSUME NEW k \in 1..(l - 1)
                 PROVE  Tail(conn[i].wire)[k] = Len(q) + k
      BY <1>6
    <2>1. k + 1 \in DOMAIN conn[i].wire /\ Tail(conn[i].wire)[k] = conn[i].wire[k + 1]
      BY <1>6
    <2>2. conn[i].wire[k + 1] = n + (k + 1)
      BY <2>1, <1>5
    <2> QED
      <3>1. \A a \in Nat, b \in Int : a + (b + 1) = (a + 1) + b
        OBVIOUS
      <3>2. n \in Nat /\ k \in Int /\ Len(q) = n + 1
        BY <1>1, <1>8, <1>6
      <3>3. n + (k + 1) = (n + 1) + k
        BY <3>1, <3>2
      <3> QED
        BY <2>1, <2>2, <3>2, <3>3
  <1>15. /\ Len(got'[i]) + Len(conn'[i].wire) = conn'[i].after
         /\ conn'[i].after <= conn'[i].upto /\ conn'[i].upto <= Len(log')
         /\ \A k \in DOMAIN conn'[i].wire : conn'[i].wire[k] = Len(got'[i]) + k
         /\ conn'[i].pc = conn[i].pc /\ conn'[i].after = conn[i].after
    BY <1>2, <1>5, <1>11, <1>12, <1>13, <1>14
  <1>16. CursorInv(i)'
    <2>1. CASE conn[i].pc = "ended"
      <3>1. Over' /\ conn[i].after = Len(log')
        BY <2>1, <1>2, <1>3 DEF CursorInv, Over
      <3> QED
        BY <2>1, <3>1, <1>15, CursorEnded
    <2>2. CASE conn[i].pc = "polling"
      BY <2>2, <1>15, CursorPolling
    <2> QED
      BY <1>4, <2>1, <2>2
  <1>17. drops' \in 0..MaxDrops
    BY <1>1, <1>2 DEF TypeOK
  <1> QED
    BY <1>1, <1>2, <1>8, <1>9, <1>10, <1>11, <1>16, <1>17, CursorStep

LEMMA DisconnectKeeps ==
    ASSUME StreamInv, NEW i \in Clients, Close(i) \/ Drop(i)
    PROVE  StreamInv'
  <1>1. TypeOK /\ got[i] \in Seq(1..MaxEvents) /\ drops \in 0..MaxDrops
        /\ Len(got[i]) <= Len(log) /\ \A k \in DOMAIN got[i] : got[i][k] = k
    BY DEF StreamInv, TypeOK, NoGapNoDuplicate
  <1>2. conn' = [conn EXCEPT ![i] = Closed] /\ got' = [got EXCEPT ![i] = got[i]]
        /\ log' = log
    BY <1>1 DEF Close, Drop, TypeOK
  <1>3. drops' \in 0..MaxDrops
    BY <1>1, StreamConstantsOK DEF Close, Drop
  <1>4. CursorInv(i)'
    BY <1>1, <1>2, CursorClosed DEF TypeOK
  <1> QED
    BY <1>1, <1>2, <1>3, <1>4, ClosedTyped, CursorStep

LEMMA NextStream == StreamInv /\ [Next]_streamVars => StreamInv'
  <1> SUFFICES ASSUME StreamInv, [Next]_streamVars PROVE StreamInv'
    OBVIOUS
  <1>1. ASSUME NEW stage \in OpenStages \cup TerminalStages, AppendEvent(stage)
        PROVE  StreamInv'
    BY <1>1, AppendKeeps
  <1>2. ASSUME NEW i \in Clients, Resume(i) PROVE StreamInv'
    BY <1>2, ResumeKeeps
  <1>3. ASSUME NEW i \in Clients, StartOver(i) PROVE StreamInv'
    BY <1>3, StartOverKeeps
  <1>4. ASSUME NEW i \in Clients, Drop(i) \/ Close(i) PROVE StreamInv'
    BY <1>4, DisconnectKeeps
  <1>5. ASSUME NEW i \in Clients, Serve(i) PROVE StreamInv'
    BY <1>5, ResolveKeeps, PollKeeps, YieldKeeps DEF Serve
  <1>6. ASSUME NEW i \in Clients, Deliver(i) PROVE StreamInv'
    BY <1>6, DeliverKeeps
  <1>7. CASE UNCHANGED streamVars
    BY <1>7 DEF streamVars, StreamInv, TypeOK, LogInv, NoGapNoDuplicate, CursorInv, LastId, Over
  <1> QED
    BY <1>1, <1>2, <1>3, <1>4, <1>5, <1>6, <1>7 DEF Next

\* The cursor of every connection stays exactly behind what the client has and
\* the wire carries, over any interleaving of appends, polls, sends, losses and
\* reconnections (api.py stream_events).
THEOREM StreamInvariance == Spec => []StreamInv
  BY InitStream, NextStream, PTL DEF Spec

\* Clients that resume with Last-Event-ID see no gap, duplicate or reordering.
THEOREM InOrder == Spec => []NoGapNoDuplicate
  <1>1. StreamInv => NoGapNoDuplicate
    BY DEF StreamInv
  <1> QED
    BY <1>1, StreamInvariance, PTL

\* The server only ends a stream behind the last event of a run that is over.
THEOREM EndIsComplete == Spec => []EndsComplete
  <1>1. StreamInv => EndsComplete
    BY DEF StreamInv, EndsComplete, CursorInv
  <1> QED
    BY <1>1, StreamInvariance, PTL
=============================================================================
