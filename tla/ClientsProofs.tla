--------------------------- MODULE ClientsProofs ---------------------------
(***************************************************************************)
(* Proofs that both clients of the event log keep what they hold of it a   *)
(* gapless stretch: the legacy stream (part 1) and the polling page (part  *)
(* 2), put together in part 3.                                             *)
(***************************************************************************)
EXTENDS Clients, FiniteSetTheorems, SequenceTheorems, TLAPS

-----------------------------------------------------------------------------
(* 1. The stream.                                                          *)

\* s lists the legacy positions of log l that lie in a+1..b, in order.
LegacyStretch(l, s, a, b) ==
  /\ a <= b
  /\ \A n \in 1..Len(s) : s[n] \in (a + 1)..b /\ l[s[n]] \in LegacyTypes
  /\ \A m, n \in 1..Len(s) : m < n => s[m] < s[n]
  /\ \A i \in (a + 1)..b : l[i] \in LegacyTypes => \E n \in 1..Len(s) : s[n] = i

\* The position of the event handled last, 0 when there is none
Handled == IF received = <<>> THEN 0 ELSE received[Len(received)]

\* What the client has handled and what is on its way to it continue each
\* other: the log up to Handled, then the wire up to the cursor, then the page
\* that the server has listed.
StreamInv ==
  /\ TypeOK
  /\ closing <= drops + (IF client = "gone" THEN 1 ELSE 0)
  /\ LegacyStretch(log, received, 0, Handled)
  /\ client \in {"connecting", "reading"} => last = Handled
  /\ client = "reading" => stream # "none" /\ LegacyStretch(log, wire, Handled, cursor)
  /\ stream = "write" => /\ pending # <<>>
                         /\ \A n \in 1..Len(pending) : pending[n] = cursor + n

\* Nothing lies between a position and itself.
LEMMA NothingBetween ==
  ASSUME NEW l, NEW a \in Nat
  PROVE  LegacyStretch(l, <<>>, a, a)
  BY DEF LegacyStretch

\* A log that grows keeps its stretches.
LEMMA StretchOfGrownLog ==
  ASSUME NEW l \in Seq(EventTypes), NEW evs \in Seq(EventTypes), NEW s \in Seq(Nat),
         NEW a \in Nat, NEW b \in 0..Len(l), LegacyStretch(l, s, a, b)
  PROVE  LegacyStretch(l \o evs, s, a, b)
  <1>1. \A i \in 1..b : (l \o evs)[i] = l[i]
    OBVIOUS
  <1>2. (a + 1)..b \subseteq 1..b
    OBVIOUS
  <1> QED  BY <1>1, <1>2 DEF LegacyStretch

\* The next position extends a stretch when it is legacy, ...
LEMMA StretchTakes ==
  ASSUME NEW l, NEW s \in Seq(Nat), NEW a \in Nat, NEW b \in Nat, NEW c \in Nat,
         LegacyStretch(l, s, a, b), b < c, l[c] \in LegacyTypes,
         \A i \in (b + 1)..c : l[i] \in LegacyTypes => i = c
  PROVE  LegacyStretch(l, Append(s, c), a, c)
  <1>1. PICK k \in Nat : k = Len(s)
    OBVIOUS
  <1>2. PICK t : t = Append(s, c)
    OBVIOUS
  <1>3. /\ Len(t) = k + 1 /\ t[k + 1] = c
        /\ \A n \in 1..k : t[n] = s[n]
    BY <1>1, <1>2
  <1>4. /\ a <= b
        /\ \A n \in 1..k : s[n] \in (a + 1)..b /\ l[s[n]] \in LegacyTypes
        /\ \A m, n \in 1..k : m < n => s[m] < s[n]
        /\ \A i \in (a + 1)..b :
              l[i] \in LegacyTypes => \E n \in 1..k : s[n] = i
    BY <1>1 DEF LegacyStretch
  <1>5. \A n \in 1..(k + 1) : t[n] \in (a + 1)..c /\ l[t[n]] \in LegacyTypes
    <2>1. TAKE n \in 1..(k + 1)
    <2>2. CASE n = k + 1
      BY <1>3, <1>4, <2>2
    <2>3. CASE n # k + 1
      <3>1. n \in 1..k /\ t[n] = s[n] /\ s[n] \in (a + 1)..b
        BY <1>3, <1>4, <2>3
      <3> QED  BY <1>4, <3>1
    <2> QED  BY <2>2, <2>3
  <1>6. \A m, n \in 1..(k + 1) : m < n => t[m] < t[n]
    <2>1. TAKE m \in 1..(k + 1), n \in 1..(k + 1)
    <2>2. HAVE m < n
    <2>3. m \in 1..k /\ t[m] = s[m] /\ s[m] \in (a + 1)..b
      BY <1>3, <1>4, <2>2
    <2>4. CASE n = k + 1
      BY <1>3, <2>3, <2>4
    <2>5. CASE n # k + 1
      <3>1. n \in 1..k
        BY <2>5
      <3> QED  BY <1>3, <1>4, <2>2, <2>3, <3>1
    <2> QED  BY <2>4, <2>5
  <1>7. ASSUME NEW i \in (a + 1)..c, l[i] \in LegacyTypes
        PROVE  \E n \in 1..(k + 1) : t[n] = i
    <2>1. CASE i <= b
      <3>1. PICK n \in 1..k : s[n] = i
        BY <1>4, <1>7, <2>1
      <3> QED  BY <1>3, <3>1
    <2>2. CASE i > b
      <3>1. i = c
        BY <1>7, <2>2
      <3> QED  BY <1>3, <3>1
    <2> QED  BY <2>1, <2>2
  <1>8. a <= c
    BY <1>4
  <1> QED  BY <1>2, <1>3, <1>5, <1>6, <1>7, <1>8 DEF LegacyStretch

\* In particular the next one.
LEMMA StretchTakesNext ==
  ASSUME NEW l, NEW s \in Seq(Nat), NEW a \in Nat, NEW b \in Nat,
         LegacyStretch(l, s, a, b), l[b + 1] \in LegacyTypes
  PROVE  LegacyStretch(l, Append(s, b + 1), a, b + 1)
  <1>1. PICK c \in Nat : c = b + 1
    OBVIOUS
  <1>2. b < c /\ l[c] \in LegacyTypes /\ \A i \in (b + 1)..c : i = c
    BY <1>1
  <1>3. LegacyStretch(l, Append(s, c), a, c)
    BY <1>2, StretchTakes
  <1> QED BY <1>1, <1>3

\* ... and is passed over when it is not.
LEMMA StretchSkipsNext ==
  ASSUME NEW l, NEW s \in Seq(Nat), NEW a \in Nat, NEW b \in Nat,
         LegacyStretch(l, s, a, b), l[b + 1] \notin LegacyTypes
  PROVE  LegacyStretch(l, s, a, b + 1)
  BY DEF LegacyStretch

\* The first frame of a stretch that continues the handled one can be handled.
LEMMA StretchHandsOver ==
  ASSUME NEW l, NEW r \in Seq(Nat), NEW w \in Seq(Nat), NEW b \in Nat, NEW c \in Nat,
         LegacyStretch(l, r, 0, b), LegacyStretch(l, w, b, c), w # <<>>
  PROVE  /\ LegacyStretch(l, Append(r, Head(w)), 0, Head(w))
         /\ LegacyStretch(l, Tail(w), Head(w), c)
  <1>1. PICK t, h : t = Tail(w) /\ h = Head(w)
    OBVIOUS
  <1>2. PICK k : k = Len(t)
    OBVIOUS
  <1>3. /\ k \in Nat /\ Len(w) = k + 1 /\ w[1] = h /\ h \in Nat
        /\ \A n \in 1..k : t[n] = w[n + 1]
    BY <1>1, <1>2
  <1>4. /\ \A n \in 1..(k + 1) : w[n] \in (b + 1)..c /\ l[w[n]] \in LegacyTypes
        /\ \A m, n \in 1..(k + 1) : m < n => w[m] < w[n]
        /\ \A i \in (b + 1)..c :
              l[i] \in LegacyTypes => \E n \in 1..(k + 1) : w[n] = i
    BY <1>3 DEF LegacyStretch
  <1>5. h \in (b + 1)..c /\ l[h] \in LegacyTypes
    BY <1>3, <1>4
  <1>6. ASSUME NEW i \in (b + 1)..c, l[i] \in LegacyTypes
        PROVE  i = h \/ \E n \in 1..k : h < i /\ t[n] = i
    <2>1. PICK n \in 1..(k + 1) : w[n] = i
      BY <1>4, <1>6
    <2>2. CASE n = 1
      BY <1>3, <2>1, <2>2
    <2>3. CASE n # 1
      <3>1. n - 1 \in 1..k /\ t[n - 1] = i
        BY <1>3, <2>1, <2>3
      <3>2. h < i
        BY <1>3, <1>4, <2>1, <2>3
      <3> QED  BY <3>1, <3>2
    <2> QED  BY <2>2, <2>3
  <1>7. LegacyStretch(l, Append(r, h), 0, h)
    <2>1. \A i \in (b + 1)..h : l[i] \in LegacyTypes => i = h
      <3>1. TAKE i \in (b + 1)..h
      <3>2. i \in (b + 1)..c
        BY <1>5
      <3> QED  BY <1>5, <1>6, <3>2
    <2>2. b < h
      BY <1>5
    <2> QED  BY <1>5, <2>1, <2>2, StretchTakes
  <1>8. LegacyStretch(l, t, h, c)
    <2>1. ASSUME NEW n \in 1..k
          PROVE  t[n] \in (h + 1)..c /\ l[t[n]] \in LegacyTypes
      <3>1. n + 1 \in 1..(k + 1) /\ 1 \in 1..(k + 1)
        BY <1>3
      <3>2. w[1] < w[n + 1] /\ w[n + 1] \in (b + 1)..c /\ l[w[n + 1]] \in LegacyTypes
        BY <1>4, <3>1
      <3>3. t[n] = w[n + 1] /\ w[1] = h /\ h \in Nat
        BY <1>3
      <3>4. PICK x : x = t[n]
        OBVIOUS
      <3>5. h < x /\ x \in (b + 1)..c /\ l[x] \in LegacyTypes
        BY <3>2, <3>3, <3>4
      <3>6. x \in (h + 1)..c
        BY <3>3, <3>5
      <3> QED  BY <3>4, <3>5, <3>6
    <2>2. ASSUME NEW m \in 1..k, NEW n \in 1..k, m < n
          PROVE  t[m] < t[n]
      BY <1>3, <1>4, <2>2
    <2>3. \A i \in (h + 1)..c : l[i] \in LegacyTypes => \E n \in 1..k : t[n] = i
      <3>1. \A i \in (h + 1)..c : i # h /\ i \in (b + 1)..c
        BY <1>5
      <3> QED  BY <1>6, <3>1
    <2>4. h <= c
      BY <1>5
    <2> QED  BY <1>2, <2>1, <2>2, <2>3, <2>4 DEF LegacyStretch
  <1> QED  BY <1>1, <1>7, <1>8

\* The first request of the job starts with nothing.
LEMMA StreamInitially ==
  ASSUME Init
  PROVE  StreamInv
  <1> USE BoundsAssumption DEF Init
  <1>1. TypeOK
    BY DEF TypeOK, EventTypes, LegacyTypes, ClientOver, Terminal
  <1>2. Handled = 0
    BY DEF Handled
  <1>3. LegacyStretch(log, received, 0, Handled)
    BY <1>2, NothingBetween
  <1> QED  BY <1>1, <1>2, <1>3 DEF StreamInv

\* Positions are naturals, the one handled last among them.
LEMMA HandledIsPosition ==
  ASSUME TypeOK
  PROVE  /\ received \in Seq(Nat) /\ wire \in Seq(Nat) /\ pending \in Seq(Nat)
         /\ Handled \in 0..Len(log)
         /\ Len(log) \in Nat
  <1>1. PICK k \in Nat : k = Len(log)
    BY DEF TypeOK
  <1>2. /\ received \in Seq(1..k) /\ wire \in Seq(1..k) /\ pending \in Seq(1..k)
        /\ 1..k \subseteq Nat
    BY <1>1 DEF TypeOK
  <1>3. /\ received \in Seq(Nat) /\ wire \in Seq(Nat) /\ pending \in Seq(Nat)
    BY <1>2
  <1>4. Handled \in 0..k
    <2>1. CASE received = <<>>
      BY <2>1 DEF Handled
    <2>2. CASE received # <<>>
      <3>1. received[Len(received)] \in 1..k
        BY <1>2, <2>2
      <3> QED  BY <2>2, <3>1 DEF Handled
    <2> QED  BY <2>1, <2>2
  <1> QED  BY <1>1, <1>3, <1>4

\* What an appending transaction of the job leaves true of the stream
LEMMA LogOnlyGrows ==
  ASSUME StreamInv, NEW evs \in Seq(EventTypes), log' = log \o evs
  PROVE  /\ log' \in Seq(EventTypes)
         /\ 0..Len(log) \subseteq 0..Len(log')
         /\ received \in Seq(1..Len(log')) /\ wire \in Seq(1..Len(log'))
         /\ pending \in Seq(1..Len(log'))
         /\ LegacyStretch(log', received, 0, Handled)
         /\ client = "reading" => LegacyStretch(log', wire, Handled, cursor)
  <1> USE DEF StreamInv, TypeOK
  <1>1. /\ log' \in Seq(EventTypes) /\ Len(log) \in Nat /\ Len(log') \in Nat
        /\ Len(log) <= Len(log')
    OBVIOUS
  <1>2. 1..Len(log) \subseteq 1..Len(log') /\ 0..Len(log) \subseteq 0..Len(log')
    BY <1>1
  <1>3. received \in Seq(Nat) /\ wire \in Seq(Nat) /\ Handled \in 0..Len(log)
    BY HandledIsPosition
  <1>4. LegacyStretch(log', received, 0, Handled)
    BY <1>3, StretchOfGrownLog
  <1>5. client = "reading" => LegacyStretch(log', wire, Handled, cursor)
    BY <1>1, <1>3, StretchOfGrownLog
  <1> QED  BY <1>1, <1>2, <1>4, <1>5

\* The cancellation of the job appends at most one event.
LEMMA CancelAppends ==
  ASSUME StreamInv, CancelJob
  PROVE  /\ status' \in Terminal
         /\ \E evs \in Seq(EventTypes) : log' = log \o evs
  <1>1. CASE status \in Terminal
    <2>1. log' = log \o <<>> /\ <<>> \in Seq(EventTypes)
      BY <1>1 DEF CancelJob, jobVars, StreamInv, TypeOK
    <2> QED  BY <1>1, <2>1 DEF CancelJob, jobVars
  <1>2. CASE status \notin Terminal
    <2>1. status' = "STOPPED" /\ log' = Append(log, "workflow")
      BY <1>2 DEF CancelJob
    <2>2. log \in Seq(EventTypes) /\ "workflow" \in EventTypes
      BY DEF StreamInv, TypeOK, EventTypes
    <2>3. Append(log, "workflow") = log \o <<"workflow">>
      BY <2>2, AppendIsConcat
    <2>4. <<"workflow">> \in Seq(EventTypes)
      BY <2>2
    <2> QED  BY <2>1, <2>3, <2>4 DEF Terminal
  <1> QED  BY <1>1, <1>2

\* The job's own transactions
LEMMA JobStepKeepsStream ==
  ASSUME StreamInv, NEW st, NEW evs, JobStep(st, evs), evs \in Seq(EventTypes),
         st \in Terminal \cup {"RUNNING", "WAITING_MATERIAL"}
  PROVE  StreamInv'
  <1>1. /\ log' = log \o evs /\ status' = st
        /\ UNCHANGED <<serverVars, closing, wire, clientVars, drops>>
    BY DEF JobStep
  <1>2. /\ log' \in Seq(EventTypes)
        /\ 0..Len(log) \subseteq 0..Len(log')
        /\ received \in Seq(1..Len(log')) /\ wire \in Seq(1..Len(log'))
        /\ pending \in Seq(1..Len(log'))
        /\ LegacyStretch(log', received, 0, Handled)
        /\ client = "reading" => LegacyStretch(log', wire, Handled, cursor)
    BY <1>1, LogOnlyGrows
  <1> USE <1>1 DEF serverVars, clientVars
  <1>3. Handled' = Handled
    BY DEF Handled
  <1>4. TypeOK'
    BY <1>2 DEF StreamInv, TypeOK
  <1> QED  BY <1>2, <1>3, <1>4 DEF StreamInv

\* Every transaction of the job (persistProgress, complete, fail, pauseForGrounding,
\* resumeMaterial) is an appending one.
LEMMA JobKeepsStream ==
  ASSUME StreamInv, Progress \/ Finish \/ Pause \/ Resume
  PROVE  StreamInv'
  <1>1. /\ \A k \in EventTypes : <<k>> \in Seq(EventTypes)
        /\ \A k, n \in EventTypes : <<k, n>> \in Seq(EventTypes)
        /\ {"workflow", "token", "done", "error"} \subseteq EventTypes
        /\ {"SUCCEEDED", "FAILED"} \subseteq Terminal
    BY DEF EventTypes, LegacyTypes, Terminal
  <1>2. CASE Progress
    BY <1>1, <1>2, JobStepKeepsStream DEF Progress
  <1>3. CASE ReportDone
    BY <1>1, <1>3, JobStepKeepsStream DEF ReportDone
  <1>4. CASE Succeed
    BY <1>1, <1>4, JobStepKeepsStream DEF Succeed
  <1>5. CASE FailJob
    BY <1>1, <1>5, JobStepKeepsStream DEF FailJob
  <1>6. CASE Pause
    BY <1>1, <1>6, JobStepKeepsStream DEF Pause
  <1>7. CASE Resume
    BY <1>1, <1>7, JobStepKeepsStream DEF Resume
  <1> QED  BY <1>2, <1>3, <1>4, <1>5, <1>6, <1>7 DEF Finish

\* The server's stream: what it lists and writes continues the wire.
LEMMA ServerKeepsStream ==
  ASSUME StreamInv, ServerStep
  PROVE  StreamInv'
  <1> USE BoundsAssumption
  <1>0. TypeOK /\ Len(log) \in Nat /\ cursor \in Nat
    BY HandledIsPosition DEF StreamInv, TypeOK
  <1>1. CASE ListEvents
    <2>0. PICK upto : upto = IF cursor + MaxBatch < Len(log) THEN cursor + MaxBatch
                                                             ELSE Len(log)
      OBVIOUS
    <2>1. /\ upto \in cursor..Len(log)
          /\ pending' = [n \in 1..(upto - cursor) |-> cursor + n]
          /\ stream' = IF upto = cursor THEN "check" ELSE "write"
          /\ stream = "list"
          /\ UNCHANGED <<jobVars, cursor, closing, wire, clientVars, drops>>
      <3>1. upto \in cursor..Len(log)
        BY <1>0, <2>0 DEF TypeOK
      <3> QED  BY <1>1, <2>0, <3>1 DEF ListEvents
    <2> USE <2>1 DEF jobVars, clientVars
    <2>2. PICK k \in Nat : k = upto - cursor
      BY <1>0
    <2>3. pending' \in Seq(1..Len(log)) /\ Len(pending') = k
      BY <1>0, <2>2
    <2>4. stream' = "write" => pending' # <<>>
      BY <1>0, <2>2, <2>3
    <2>5. \A n \in 1..Len(pending') : pending'[n] = cursor' + n
      BY <2>2, <2>3
    <2>6. Handled' = Handled
      BY DEF Handled
    <2>7. TypeOK'
      BY <1>0, <2>3 DEF TypeOK
    <2> QED  BY <2>4, <2>5, <2>6, <2>7 DEF StreamInv
  <1>2. CASE WriteEvent
    <2> USE <1>2 DEF WriteEvent, jobVars, clientVars
    <2>1. /\ pending \in Seq(1..Len(log)) /\ pending # <<>>
          /\ pending \in Seq(Nat) /\ wire \in Seq(Nat) /\ received \in Seq(Nat)
          /\ Handled \in Nat
      BY HandledIsPosition DEF StreamInv, TypeOK
    <2>2. Head(pending) = cursor + 1 /\ Head(pending) \in 1..Len(log)
      BY <2>1 DEF StreamInv
    <2>3. /\ pending' \in Seq(1..Len(log)) /\ Len(pending) = Len(pending') + 1
          /\ \A n \in 1..Len(pending') : pending'[n] = pending[n + 1]
          /\ Len(pending') \in Nat
      BY <2>1
    <2>4. \A n \in 1..Len(pending') : pending'[n] = cursor' + n
      <3>1. TAKE n \in 1..Len(pending')
      <3>2. n + 1 \in 1..Len(pending) /\ n \in Nat
        BY <2>3
      <3>3. pending[n + 1] = cursor + (n + 1)
        BY <3>2 DEF StreamInv
      <3> QED  BY <1>0, <2>2, <2>3, <3>2, <3>3
    <2>5. wire' \in Seq(1..Len(log))
      BY <2>2, AppendProperties DEF StreamInv, TypeOK
    <2>6. client = "reading" => LegacyStretch(log, wire', Handled, cursor + 1)
      <3>1. HAVE client = "reading"
      <3>2. LegacyStretch(log, wire, Handled, cursor)
        BY <3>1 DEF StreamInv
      <3>3. CASE log[cursor + 1] \in LegacyTypes
        <4>1. wire' = Append(wire, cursor + 1)
          BY <2>2, <3>3
        <4>2. wire \in Seq(Nat) /\ Handled \in Nat /\ cursor \in Nat
          BY <1>0, <2>1
        <4>3. LegacyStretch(log, Append(wire, cursor + 1), Handled, cursor + 1)
          BY <3>2, <3>3, <4>2, StretchTakesNext
        <4> QED  BY <4>1, <4>3
      <3>4. CASE log[cursor + 1] \notin LegacyTypes
        BY <1>0, <2>1, <2>2, <3>2, <3>4, StretchSkipsNext
      <3> QED  BY <3>3, <3>4
    <2>7. Handled' = Handled
      BY DEF Handled
    <2>8. TypeOK'
      BY <1>0, <2>2, <2>3, <2>5 DEF TypeOK
    <2>9. stream' = "write" => pending' # <<>>
      OBVIOUS
    <2>10. stream' # "none"
      OBVIOUS
    <2> QED  BY <2>2, <2>4, <2>6, <2>7, <2>8, <2>9, <2>10 DEF StreamInv
  <1>3. CASE CheckStatus
    <2> USE <1>3 DEF CheckStatus, jobVars, clientVars
    <2>1. Handled' = Handled
      BY DEF Handled
    <2>2. TypeOK'
      BY <1>0 DEF TypeOK
    <2>3. stream' \in {"ended", "list"}
      OBVIOUS
    <2> QED  BY <2>1, <2>2, <2>3 DEF StreamInv
  <1> QED  BY <1>1, <1>2, <1>3 DEF ServerStep

\* A frame that is handled passes from the wire to what was received; only
\* a final event leaves Last-Event-ID behind, and then nothing reconnects.
LEMMA ReceiveKeepsStream ==
  ASSUME StreamInv, Receive
  PROVE  StreamInv'
  <1> USE DEF Receive, jobVars, serverVars
  <1>0. /\ TypeOK /\ received \in Seq(Nat) /\ wire \in Seq(Nat)
        /\ Handled \in Nat /\ cursor \in Nat /\ Len(log) \in Nat
    BY HandledIsPosition DEF StreamInv, TypeOK
  <1>1. /\ LegacyStretch(log, received, 0, Handled)
        /\ LegacyStretch(log, wire, Handled, cursor)
    BY DEF StreamInv
  <1>2. PICK h, t, q : h = Head(wire) /\ t = Tail(wire) /\ q = Append(received, h)
    OBVIOUS
  <1>3. LegacyStretch(log, q, 0, h) /\ LegacyStretch(log, t, h, cursor)
    BY <1>0, <1>1, <1>2, StretchHandsOver
  <1>4. h \in 1..Len(log) /\ t \in Seq(1..Len(log))
    BY <1>2, HeadTailProperties DEF StreamInv, TypeOK
  <1>5. q \in Seq(1..Len(log)) /\ q # <<>> /\ q[Len(q)] = h
    <2>1. received \in Seq(1..Len(log))
      BY <1>0 DEF TypeOK
    <2> QED  BY <1>2, <1>4, <2>1, AppendProperties
  <1>6. received' = q /\ wire' = t
    BY <1>2
  <1>7. Handled' = h
    BY <1>5, <1>6 DEF Handled
  <1>8. \/ client' = "done" /\ last' = last
        \/ last' = h /\ client' = client
    BY <1>2
  <1>9. TypeOK'
    <2>1. last' \in 0..Len(log)
      <3>1. last \in 0..Len(log) /\ h \in 0..Len(log)
        BY <1>0, <1>4 DEF TypeOK
      <3> QED  BY <1>8, <3>1
    <2>4. client' \in ClientOver \cup {"connecting", "reading"}
      BY <1>0, <1>8 DEF TypeOK, ClientOver
    <2>2. log' = log
      OBVIOUS
    <2>3. received' \in Seq(1..Len(log)) /\ wire' \in Seq(1..Len(log))
      BY <1>4, <1>5, <1>6
    <2> QED  BY <1>0, <2>1, <2>2, <2>3, <2>4 DEF TypeOK
  <1>10. /\ client' \in {"connecting", "reading"} => last' = Handled'
         /\ client' # "gone"
    BY <1>7, <1>8
  <1> QED  BY <1>3, <1>6, <1>7, <1>9, <1>10 DEF StreamInv

\* A reconnect asks for what follows the event handled last.
LEMMA ConnectKeepsStream ==
  ASSUME StreamInv, Connect
  PROVE  StreamInv'
  <1> USE BoundsAssumption DEF Connect, jobVars
  <1>1. Handled' = Handled /\ last = Handled /\ Handled \in Nat
    BY HandledIsPosition DEF Handled, StreamInv
  <1>2. LegacyStretch(log, <<>>, Handled, last)
    BY <1>1, NothingBetween
  <1>3. TypeOK'
    BY DEF StreamInv, TypeOK
  <1> QED  BY <1>1, <1>2, <1>3 DEF StreamInv

\* Each broken connection is closed once, the last one by the client.
LEMMA ClosesAreFew ==
  ASSUME NEW d \in 0..MaxDrops, NEW c \in Nat, NEW k \in {0, 1}, c <= d + k
  PROVE  c \in 0..(MaxDrops + 1)
  BY BoundsAssumption

\* Whatever ends a run or breaks its connection, with the job cancelled or not,
\* leaves nothing on the wire that would be handled.
LEMMA BreaksKeepStream ==
  ASSUME StreamInv, NEW evs \in Seq(EventTypes), log' = log \o evs,
         status' \in Terminal \cup {"RUNNING", "WAITING_MATERIAL"},
         UNCHANGED <<last, received>>,
         client' \in ClientOver \/ (client' = "connecting" /\ client # "gone"
                                  /\ client \in {"connecting", "reading"}),
         \/ LoseConnection
         \/ UNCHANGED <<cursor, pending, wire>> /\ stream' \in {stream, "none"},
         attempts' \in 0..MaxAttempts, drops' \in 0..MaxDrops, closing' \in Nat,
         closing' <= drops' + (IF client' = "gone" THEN 1 ELSE 0)
  PROVE  StreamInv'
  <1>1. /\ log' \in Seq(EventTypes)
        /\ 0..Len(log) \subseteq 0..Len(log')
        /\ received \in Seq(1..Len(log')) /\ wire \in Seq(1..Len(log'))
        /\ pending \in Seq(1..Len(log'))
        /\ LegacyStretch(log', received, 0, Handled)
    BY LogOnlyGrows
  <1>2. Len(log') \in Nat
    BY <1>1
  <1>3. /\ cursor' \in 0..Len(log') /\ pending' \in Seq(1..Len(log'))
        /\ wire' \in Seq(1..Len(log'))
        /\ stream' \in {"none", "list", "write", "check", "ended"}
    <2>1. CASE LoseConnection
      BY <1>1, <1>2, <2>1 DEF LoseConnection
    <2>2. CASE UNCHANGED <<cursor, pending, wire>> /\ stream' \in {stream, "none"}
      <3>1. cursor' \in 0..Len(log')
        BY <1>1, <2>2 DEF StreamInv, TypeOK
      <3>2. stream' \in {"none", "list", "write", "check", "ended"}
        BY <2>2 DEF StreamInv, TypeOK
      <3> QED  BY <1>1, <2>2, <3>1, <3>2
    <2> QED  BY <2>1, <2>2
  <1>4. closing' \in 0..(MaxDrops + 1)
    <2>1. (IF client' = "gone" THEN 1 ELSE 0) \in {0, 1}
      OBVIOUS
    <2> QED  BY <2>1, ClosesAreFew
  <1>5. /\ client' \in ClientOver \cup {"connecting", "reading"} /\ client' # "reading"
        /\ client' = "connecting" => client \in {"connecting", "reading"}
    BY DEF ClientOver
  <1>6. TypeOK'
    BY <1>1, <1>3, <1>4, <1>5 DEF StreamInv, TypeOK
  <1>7. Handled' = Handled
    BY DEF Handled
  <1>8. client' = "connecting" => last' = Handled'
    BY <1>5, <1>7 DEF StreamInv
  <1>9. stream' = "write" => /\ UNCHANGED <<pending, cursor>> /\ stream = "write"
    BY DEF LoseConnection
  <1>10. stream' = "write" => /\ pending' # <<>>
                              /\ \A n \in 1..Len(pending') : pending'[n] = cursor' + n
    BY <1>9 DEF StreamInv
  <1> QED  BY <1>1, <1>5, <1>6, <1>7, <1>8, <1>10 DEF StreamInv

\* The other steps of the client, none of which handles an event
LEMMA ClientKeepsStream ==
  ASSUME StreamInv,
         \/ ConnectRefused \/ ConnectFails \/ Drop \/ StreamEnds \/ Leave \/ Stop
  PROVE  StreamInv'
  <1> USE BoundsAssumption
  <1>0. /\ <<>> \in Seq(EventTypes) /\ log \o <<>> = log
        /\ status \in Terminal \cup {"RUNNING", "WAITING_MATERIAL"}
        /\ attempts \in 0..MaxAttempts /\ drops \in 0..MaxDrops /\ closing \in Nat
        /\ closing <= drops + (IF client = "gone" THEN 1 ELSE 0)
        /\ client = "gone" => client \in ClientOver
    BY DEF StreamInv, TypeOK, ClientOver
  <1>1. CASE ConnectRefused
    <2>1. /\ client' \in ClientOver /\ client # "gone" /\ client' # "gone"
          /\ UNCHANGED <<log, status, last, received, cursor, pending, wire, stream,
                         attempts, drops, closing>>
      BY <1>1 DEF ConnectRefused, jobVars, serverVars, ClientOver
    <2> QED  BY <1>0, <2>1, BreaksKeepStream
  <1>2. ASSUME AttemptReconnect
        PROVE  /\ client' \in {"connecting", "failed"} /\ "failed" \in ClientOver
               /\ attempts' \in 0..MaxAttempts
    BY <1>0, <1>2 DEF AttemptReconnect, ClientOver
  <1>3. CASE ConnectFails
    <2>1. /\ client' \in {"connecting", "failed"} /\ client = "connecting"
          /\ attempts' \in 0..MaxAttempts /\ "failed" \in ClientOver
          /\ UNCHANGED <<log, status, last, received, cursor, pending, wire, stream>>
          /\ drops < MaxDrops /\ drops' = drops + 1
          /\ closing' \in {closing, closing + 1}
      BY <1>2, <1>3 DEF ConnectFails, jobVars, serverVars
    <2>2. closing' \in Nat /\ closing' <= drops' + 0 /\ drops' \in 0..MaxDrops
      BY <1>0, <2>1
    <2> QED  BY <1>0, <2>1, <2>2, BreaksKeepStream
  <1>4. CASE Drop
    <2>1. /\ client' \in {"connecting", "failed"} /\ client = "reading"
          /\ attempts' \in 0..MaxAttempts /\ "failed" \in ClientOver
          /\ UNCHANGED <<log, status, last, received>>
          /\ LoseConnection
          /\ drops < MaxDrops /\ drops' = drops + 1
          /\ closing' \in {closing, closing + 1}
      BY <1>2, <1>4 DEF Drop, jobVars
    <2>2. closing' \in Nat /\ closing' <= drops' + 0 /\ drops' \in 0..MaxDrops
      BY <1>0, <2>1
    <2> QED  BY <1>0, <2>1, <2>2, BreaksKeepStream
  <1>5. CASE StreamEnds
    <2>1. /\ client' \in {"connecting", "failed"} /\ client = "reading"
          /\ attempts' \in 0..MaxAttempts /\ "failed" \in ClientOver
          /\ UNCHANGED <<log, status, last, received, cursor, pending, wire, closing,
                         drops>>
          /\ stream' = "none"
      BY <1>2, <1>5 DEF StreamEnds, jobVars
    <2>2. closing <= drops + 0
      BY <1>0, <2>1
    <2> QED  BY <1>0, <2>1, <2>2, BreaksKeepStream
  <1>6. ASSUME AbortTransport, client # "gone"
        PROVE  /\ client' = "gone" /\ "gone" \in ClientOver
               /\ UNCHANGED <<last, received, attempts, drops>>
               /\ LoseConnection
               /\ closing' \in Nat /\ closing' <= drops' + 1
    BY <1>0, <1>6 DEF AbortTransport, ClientOver
  <1>7. CASE Leave
    <2>1. UNCHANGED <<log, status>>
      BY <1>7 DEF Leave, jobVars
    <2> QED  BY <1>0, <1>6, <1>7, <2>1, BreaksKeepStream DEF Leave
  <1>8. CASE Stop
    <2>1. PICK evs \in Seq(EventTypes) : log' = log \o evs
      BY <1>8, CancelAppends DEF Stop
    <2>2. status' \in Terminal \cup {"RUNNING", "WAITING_MATERIAL"}
      BY <1>8, CancelAppends DEF Stop
    <2>3. AbortTransport /\ client # "gone"
      BY <1>8 DEF Stop
    <2> QED  BY <1>0, <1>6, <2>1, <2>2, <2>3, BreaksKeepStream
  <1> QED  BY <1>1, <1>3, <1>4, <1>5, <1>7, <1>8

\* The server notices a closed connection: the job is cancelled, whatever is
\* being read over the next one.
LEMMA NoticeKeepsStream ==
  ASSUME StreamInv, NoticeClose
  PROVE  StreamInv'
  <1>1. PICK evs \in Seq(EventTypes) : log' = log \o evs
    BY CancelAppends DEF NoticeClose
  <1>2. /\ log' \in Seq(EventTypes)
        /\ 0..Len(log) \subseteq 0..Len(log')
        /\ received \in Seq(1..Len(log')) /\ wire \in Seq(1..Len(log'))
        /\ pending \in Seq(1..Len(log'))
        /\ LegacyStretch(log', received, 0, Handled)
        /\ client = "reading" => LegacyStretch(log', wire, Handled, cursor)
    BY <1>1, LogOnlyGrows
  <1>3. status' \in Terminal \cup {"RUNNING", "WAITING_MATERIAL"}
    BY CancelAppends DEF NoticeClose
  <1>4. /\ UNCHANGED <<stream, cursor, pending, wire, client, last, received, attempts,
                       drops>>
        /\ closing' = closing - 1 /\ closing > 0
    BY DEF NoticeClose, serverVars, clientVars
  <1>5. /\ closing' \in 0..(MaxDrops + 1)
        /\ closing' <= drops + (IF client = "gone" THEN 1 ELSE 0)
    BY <1>4, BoundsAssumption DEF StreamInv, TypeOK
  <1>6. Handled' = Handled
    BY <1>4 DEF Handled
  <1>7. TypeOK'
    BY <1>2, <1>3, <1>4, <1>5 DEF StreamInv, TypeOK
  <1> QED  BY <1>2, <1>4, <1>5, <1>6, <1>7 DEF StreamInv

\* The stream's invariant is inductive.
LEMMA StreamInvariance ==
  StreamInv /\ [Next]_vars => StreamInv'
  <1> SUFFICES ASSUME StreamInv, [Next]_vars  PROVE StreamInv'
    OBVIOUS
  <1>1. CASE Progress \/ Finish \/ Pause \/ Resume
    BY <1>1, JobKeepsStream
  <1>2. CASE ServerStep
    BY <1>2, ServerKeepsStream
  <1>3. CASE NoticeClose
    BY <1>3, NoticeKeepsStream
  <1>4. CASE Connect
    BY <1>4, ConnectKeepsStream
  <1>5. CASE Receive
    BY <1>5, ReceiveKeepsStream
  <1>6. CASE \/ ConnectRefused \/ ConnectFails \/ Drop \/ StreamEnds \/ Leave \/ Stop
    BY <1>6, ClientKeepsStream
  <1>7. CASE UNCHANGED vars
    BY <1>7 DEF vars, jobVars, serverVars, clientVars, StreamInv, TypeOK, Handled
  <1> QED
    BY <1>1, <1>2, <1>3, <1>4, <1>5, <1>6, <1>7 DEF Next, UndisturbedNext, ClientStep

\* What the client has handled is gapless.
LEMMA StreamIsGapless ==
  ASSUME StreamInv
  PROVE  ReceivedGapless
  <1>1. /\ LegacyStretch(log, received, 0, Handled) /\ received \in Seq(Nat)
        /\ Handled \in Nat
    BY HandledIsPosition DEF StreamInv
  <1>2. ASSUME NEW n \in 1..Len(received), NEW i \in 1..received[n],
               log[i] \in LegacyTypes
        PROVE  \E m \in 1..n : received[m] = i
    <2>1. received[n] \in 1..Handled
      BY <1>1 DEF LegacyStretch
    <2>2. PICK m \in 1..Len(received) : received[m] = i
      <3>1. i \in (0 + 1)..Handled
        BY <1>1, <2>1
      <3> QED  BY <1>1, <1>2, <3>1 DEF LegacyStretch
    <2>3. ~ n < m
      BY <1>1, <2>2, <2>1 DEF LegacyStretch
    <2> QED  BY <1>1, <2>2, <2>3
  <1> QED  BY <1>1, <1>2 DEF ReceivedGapless, LegacyStretch

-----------------------------------------------------------------------------
(* 2. The polling page.                                                    *)

Runtimes == [job : 0..MaxJobs, st : JobStatus, from : Cursors, cur : Cursors,
             events : Seq(Cursors), res : 0..MaxJobs,
             pending : Actions \cup {"none"}]

Refs == [job : 0..MaxJobs, cur : Cursors, res : 0..MaxJobs]

\* Nothing is read before a cursor there is no job for.
CursorOK(c) == c.job = 0 => c.at = 0

\* evs are the events of job n behind position a.
StretchOf(n, a, evs) == \A i \in 1..Len(evs) : evs[i] = [job |-> n, at |-> a + i]

RuntimeOK(rt) ==
  /\ rt \in Runtimes
  /\ CursorOK(rt.cur)
  /\ StretchOf(rt.cur.job, rt.from.at, rt.events)
  /\ rt.cur.at = rt.from.at + Len(rt.events)

JobsOK == job \in [Ids -> [st : JobStatus, log : Seq({"event", "done"}),
                           proposal : {"none", "ACTIVE", "APPROVED"}]]

SavedOK == saved \in Refs /\ CursorOK(saved.cur)

RecoveryOK ==
  /\ recovery \in [pc : {"idle", "sent", "read"}, ref : Refs, st : JobStatus]
  /\ CursorOK(recovery.ref.cur)
  /\ recovery.pc # "idle" => recovery.ref.job \in Ids

\* A refresh reads the events behind the cursor of its runtime, which is one
\* of its job or none.
RefreshOK ==
  /\ refresh \in [pc : {"idle", "fetch"}, rt : Runtimes, listed : BOOLEAN,
                  events : Seq(Cursors), st : JobStatus]
  /\ RuntimeOK(refresh.rt)
  /\ refresh.pc = "fetch" => refresh.rt.job \in Ids
  /\ refresh.listed =>
       /\ refresh.pc = "fetch"
       /\ refresh.rt.cur.job \in {0, refresh.rt.job}
       /\ StretchOf(refresh.rt.job, refresh.rt.cur.at, refresh.events)

ActOK ==
  /\ act \in [pc : {"idle", "sent", "approved", "ok", "refused"},
              kind : Actions \cup {"none"}, job : 0..MaxJobs, st : JobStatus]
  /\ act.pc # "idle" => act.job \in Ids

CreationOK == creation \in [Ids -> {"none", "clicked", "made", "over"}]
FinOK == fin \in [Ids -> {"no", "loading", "failed", "done"}]
LoadedOK == loaded \subseteq Ids
TroublesOK == troubles \in 0..MaxTroubles

\* Every copy of a runtime, shown, saved or under way, is one stretch.
StoreInv ==
  /\ JobsOK /\ RuntimeOK(view) /\ SavedOK /\ RecoveryOK /\ RefreshOK /\ ActOK
  /\ CreationOK /\ FinOK /\ LoadedOK /\ TroublesOK

\* It implies what the run checks.
LEMMA StoreInvImplies ==
  ASSUME StoreInv
  PROVE  StoreTypeOK /\ ViewIsOneStretch
  <1>1. StoreTypeOK
    BY DEF StoreInv, StoreTypeOK, JobsOK, RuntimeOK, Runtimes, SavedOK, Refs, RecoveryOK,
           RefreshOK, ActOK, CreationOK, FinOK, LoadedOK, TroublesOK
  <1>2. ViewIsOneStretch
    BY DEF StoreInv, RuntimeOK, StretchOf, ViewIsOneStretch
  <1> QED  BY <1>1, <1>2

\* A runtime that begins at a cursor holds no events yet.
LEMMA FreshRuntimeOK ==
  ASSUME NEW n \in 0..MaxJobs, NEW st \in JobStatus, NEW c \in Cursors, CursorOK(c),
         NEW res \in 0..MaxJobs
  PROVE  RuntimeOK(Runtime(n, st, c, res))
  <1>1. Runtime(n, st, c, res) \in Runtimes
    BY DEF Runtime, Runtimes
  <1>2. /\ Runtime(n, st, c, res).from = c /\ Runtime(n, st, c, res).cur = c
        /\ Runtime(n, st, c, res).events = <<>>
    BY DEF Runtime
  <1> QED  BY <1>1, <1>2 DEF RuntimeOK, StretchOf, Cursors

\* A page without a runtime, a reference or a cursor
LEMMA NothingOK ==
  /\ NoCursor \in Cursors /\ CursorOK(NoCursor) /\ 0 \in 0..MaxJobs
  /\ NoRef \in Refs /\ CursorOK(NoRef.cur)
  /\ RuntimeOK(NoRuntime)
  <1>1. NoCursor \in Cursors /\ CursorOK(NoCursor) /\ 0 \in 0..MaxJobs
    BY ClientBounds DEF NoCursor, Cursors, CursorOK
  <1>2. "none" \in JobStatus
    BY DEF JobStatus
  <1> QED  BY <1>1, <1>2, FreshRuntimeOK DEF NoRef, Refs, NoRuntime

\* What the actions change of a runtime is not its stretch.
LEMMA ChangedRuntimeOK ==
  ASSUME NEW rt, RuntimeOK(rt), NEW n \in 0..MaxJobs, NEW st \in JobStatus,
         NEW p \in Actions \cup {"none"}
  PROVE  RuntimeOK([rt EXCEPT !.job = n, !.st = st, !.pending = p])
  BY DEF RuntimeOK, Runtimes, StretchOf

\* setRuntime keeps what is saved in step with what is shown.
LEMMA SetRuntimeOK ==
  ASSUME StoreInv, NEW rt, RuntimeOK(rt), SetRuntime(rt)
  PROVE  RuntimeOK(view') /\ SavedOK' /\ FinOK'
  <1>1. RuntimeOK(view')
    BY DEF SetRuntime
  <1>2. SavedOK'
    BY NothingOK DEF SetRuntime, RefOf, RuntimeOK, Runtimes, SavedOK, Refs
  <1>3. FinOK'
    BY DEF SetRuntime, StoreInv, FinOK
  <1> QED  BY <1>1, <1>2, <1>3

\* dismissProject leaves neither a runtime nor a reference.
LEMMA DropRuntimeOK ==
  ASSUME DropRuntime
  PROVE  RuntimeOK(view') /\ SavedOK'
  BY NothingOK DEF DropRuntime, SavedOK

\* A refresh that is over holds nothing.
LEMMA NoRefreshOK ==
  ASSUME refresh' = NoRefresh
  PROVE  RefreshOK'
  BY NothingOK DEF RefreshOK, NoRefresh, RuntimeOK, JobStatus

\* refreshProject starts from the runtime it is given.
LEMMA BeginRefreshOK ==
  ASSUME StoreInv, NEW rt, RuntimeOK(rt), rt.job \in Ids, BeginRefresh(rt)
  PROVE  RefreshOK'
  <1>1. CASE refresh.pc = "idle"
    <2>1. refresh' = [pc |-> "fetch", rt |-> rt, listed |-> FALSE, events |-> <<>>,
                      st |-> "none"]
      BY <1>1 DEF BeginRefresh, NoRefresh
    <2> QED  BY <2>1 DEF RefreshOK, RuntimeOK, JobStatus
  <1>2. CASE refresh.pc # "idle"
    <2>1. refresh' = refresh
      BY <1>2 DEF BeginRefresh
    <2> QED  BY <2>1 DEF RefreshOK, StoreInv
  <1> QED  BY <1>1, <1>2

\* A change of one job leaves all jobs well-formed.
LEMMA JobBecomesOK ==
  ASSUME StoreInv, NEW n \in Ids, NEW st \in JobStatus, NEW evs \in Seq({"event", "done"}),
         NEW p \in {"none", "ACTIVE", "APPROVED"}, JobBecomes(n, st, evs, p)
  PROVE  JobsOK'
  <1>1. job[n].log \o evs \in Seq({"event", "done"})
    BY DEF StoreInv, JobsOK
  <1>2. job' = [job EXCEPT ![n] = [st |-> st, log |-> job[n].log \o evs, proposal |-> p]]
    BY DEF JobBecomes, StoreInv, JobsOK
  <1> QED  BY <1>1, <1>2 DEF StoreInv, JobsOK

\* The user can be unlucky only so often.
LEMMA TroubleOK ==
  ASSUME StoreInv, Trouble
  PROVE  TroublesOK'
  <1>1. IsFiniteSet(Ids)
    BY FS_Interval, ClientBounds DEF Ids
  <1>2. IsFiniteSet({n \in Ids : creation[n] # "none"})
    BY <1>1, FS_Subset
  <1>3. Begun \in Nat
    BY <1>2, FS_CardinalityType DEF Begun
  <1> QED  BY <1>3, ClientBounds DEF Trouble, StoreInv, TroublesOK

\* A function on 1..k is a sequence of length k.
LEMMA FunctionIsSequence ==
  ASSUME NEW S, NEW k \in Nat, NEW f \in [1..k -> S]
  PROVE  f \in Seq(S) /\ Len(f) = k
  OBVIOUS

\* A page of events continues the cursor it was asked for.
LEMMA PageOK ==
  ASSUME JobsOK, NEW n \in Ids, NEW at \in Nat
  PROVE  Page(n, at) \in Seq(Cursors) /\ StretchOf(n, at, Page(n, at))
  <1>1. Len(job[n].log) \in Nat /\ n \in 0..MaxJobs
    BY ClientBounds DEF JobsOK, Ids
  <1>2. PICK upto \in Int :
          Page(n, at) = [i \in 1..(upto - at) |-> [job |-> n, at |-> at + i]]
    BY <1>1, ClientBounds DEF Page
  <1>3. PICK k \in Nat : 1..(upto - at) = 1..k
    <2>1. CASE upto - at \in Nat
      BY <2>1
    <2>2. CASE upto - at \notin Nat
      <3>1. 1..(upto - at) = 1..0
        BY <2>2
      <3> QED  BY <3>1
    <2> QED  BY <2>1, <2>2
  <1>4. Page(n, at) = [i \in 1..k |-> [job |-> n, at |-> at + i]]
    BY <1>2, <1>3
  <1>5. \A i \in 1..k : [job |-> n, at |-> at + i] \in Cursors
    BY <1>1 DEF Cursors
  <1>6. Page(n, at) \in Seq(Cursors) /\ Len(Page(n, at)) = k
    <2>1. Page(n, at) \in [1..k -> Cursors]
      BY <1>4, <1>5
    <2> QED  BY <2>1, FunctionIsSequence
  <1> QED  BY <1>4, <1>6 DEF StretchOf

\* The events of a refresh continue those of the runtime it started from.
LEMMA ReducedOK ==
  ASSUME NEW rt, RuntimeOK(rt), NEW evs \in Seq(Cursors), rt.job \in Ids,
         rt.cur.job \in {0, rt.job}, StretchOf(rt.job, rt.cur.at, evs)
  PROVE  RuntimeOK(Reduced(rt, evs))
  <1> DEFINE new == Reduced(rt, evs)
             ids == {i \in 1..Len(evs) : job[evs[i].job].log[evs[i].at] = "done"}
  <1>1. PICK res, cur, all :
          /\ new = [rt EXCEPT !.events = all, !.cur = cur, !.res = res]
          /\ all = rt.events \o evs
          /\ cur = IF evs = <<>> THEN rt.cur ELSE evs[Len(evs)]
          /\ res = IF ids = {} THEN rt.res ELSE evs[CHOOSE i \in ids : TRUE].job
    BY DEF Reduced, RuntimeOK, Runtimes
  <1>2. res \in 0..MaxJobs
    <2>1. CASE ids = {}
      BY <1>1, <2>1 DEF RuntimeOK, Runtimes
    <2>2. CASE ids # {}
      <3>1. (CHOOSE i \in ids : TRUE) \in 1..Len(evs)
        BY <2>2
      <3>2. evs[CHOOSE i \in ids : TRUE] \in Cursors
        BY <3>1
      <3> QED  BY <1>1, <2>2, <3>2 DEF Cursors
    <2> QED  BY <2>1, <2>2
  <1> HIDE DEF ids
  <1>3. /\ rt \in Runtimes /\ rt.cur \in Cursors /\ rt.from \in Cursors
        /\ rt.events \in Seq(Cursors)
        /\ rt.cur.at \in Nat /\ rt.from.at \in Nat
        /\ rt.cur.at = rt.from.at + Len(rt.events)
        /\ \A i \in 1..Len(rt.events) :
              rt.events[i] = [job |-> rt.cur.job, at |-> rt.from.at + i]
        /\ rt.cur.job = 0 => rt.cur.at = 0
        /\ Len(rt.events) \in Nat /\ Len(evs) \in Nat
    BY DEF RuntimeOK, Runtimes, Cursors, StretchOf, CursorOK
  <1>4. \A i \in 1..Len(evs) : evs[i] = [job |-> rt.job, at |-> rt.cur.at + i]
    BY DEF StretchOf
  <1>5. /\ all \in Seq(Cursors) /\ Len(all) = Len(rt.events) + Len(evs)
        /\ \A i \in 1..Len(all) : all[i] = IF i <= Len(rt.events) THEN rt.events[i]
                                           ELSE evs[i - Len(rt.events)]
    BY <1>1, <1>3, ConcatProperties
  <1>6. cur \in Cursors /\ new \in Runtimes
    <2>1. cur \in Cursors
      BY <1>1, <1>3
    <2> QED  BY <1>1, <1>2, <1>3, <1>5, <2>1 DEF Runtimes
  <1>7. new.cur = cur /\ new.from = rt.from /\ new.events = all
    BY <1>1, <1>3 DEF Runtimes
  <1> HIDE DEF new
  <1>8. CASE evs = <<>>
    <2>1. cur = rt.cur /\ Len(all) = Len(rt.events)
      BY <1>1, <1>3, <1>5, <1>8
    <2>2. \A i \in 1..Len(all) : all[i] = [job |-> cur.job, at |-> rt.from.at + i]
      BY <1>3, <1>5, <2>1
    <2>3. RuntimeOK(new)
      BY <1>3, <1>6, <1>7, <2>1, <2>2 DEF RuntimeOK, StretchOf, CursorOK
    <2> QED  BY <2>3 DEF new
  <1>9. CASE evs # <<>>
    <2>1. cur = evs[Len(evs)] /\ Len(evs) \in 1..Len(evs)
      BY <1>1, <1>3, <1>9
    <2>2. cur.job = rt.job /\ cur.at = rt.cur.at + Len(evs)
      <3>1. cur = [job |-> rt.job, at |-> rt.cur.at + Len(evs)]
        BY <1>4, <2>1
      <3> QED  BY <3>1
    <2>3. cur.at = rt.from.at + Len(all)
      BY <1>3, <1>5, <2>2
    <2>4. rt.cur.job # rt.job => Len(rt.events) = 0
      BY <1>3
    <2>5. \A i \in 1..Len(all) : all[i] = [job |-> cur.job, at |-> rt.from.at + i]
      <3>1. TAKE i \in 1..Len(all)
      <3>2. CASE i <= Len(rt.events)
        <4>1. i \in 1..Len(rt.events) /\ all[i] = rt.events[i]
          BY <1>3, <1>5, <3>2
        <4>2. cur.job = rt.cur.job
          BY <1>3, <2>2, <2>4, <4>1
        <4> QED  BY <1>3, <4>1, <4>2
      <3>3. CASE i > Len(rt.events)
        <4>1. PICK d \in 1..Len(evs) : d = i - Len(rt.events)
          BY <1>3, <1>5, <3>3
        <4>2. all[i] = evs[d]
          BY <1>3, <1>5, <3>3, <4>1
        <4>3. rt.cur.at + d = rt.from.at + i
          <5>1. i \in Int /\ d \in Int /\ rt.from.at \in Int
            BY <1>3, <1>5
          <5> QED  BY <1>3, <4>1, <5>1
        <4> QED  BY <1>4, <2>2, <4>2, <4>3
      <3> QED  BY <1>3, <1>5, <3>2, <3>3
    <2>6. cur.job # 0
      BY <2>2, ClientBounds DEF Ids
    <2>7. RuntimeOK(new)
      BY <1>6, <1>7, <2>3, <2>5, <2>6 DEF RuntimeOK, StretchOf, CursorOK
    <2> QED  BY <2>7 DEF new
  <1> QED  BY <1>8, <1>9

\* A page that has just been opened
LEMMA StoreInitially ==
  ASSUME StoreInit
  PROVE  StoreInv
  <1> USE DEF StoreInit
  <1>1. JobsOK
    BY DEF JobsOK, JobStatus
  <1>2. RuntimeOK(view) /\ SavedOK
    BY NothingOK DEF SavedOK
  <1>3. RecoveryOK
    BY NothingOK DEF RecoveryOK, NoRecovery, JobStatus
  <1>4. RefreshOK
    BY NothingOK DEF RefreshOK, NoRefresh, RuntimeOK, JobStatus
  <1>5. ActOK
    BY NothingOK DEF ActOK, NoAct, JobStatus
  <1>6. CreationOK /\ FinOK /\ LoadedOK /\ TroublesOK
    BY ClientBounds DEF CreationOK, FinOK, LoadedOK, TroublesOK
  <1> QED  BY <1>1, <1>2, <1>3, <1>4, <1>5, <1>6 DEF StoreInv

\* The jobs at the server run.
LEMMA JobsKeepStore ==
  ASSUME StoreInv, NEW n \in Ids, JobRuns(n)
  PROVE  StoreInv'
  <1>1. /\ <<"event">> \in Seq({"event", "done"}) /\ <<"done">> \in Seq({"event", "done"})
        /\ {"RUNNING", "WAITING_APPROVAL", "WAITING_MATERIAL", "SUCCEEDED", "FAILED"}
             \subseteq JobStatus
        /\ job[n].proposal \in {"none", "ACTIVE", "APPROVED"}
    BY DEF JobStatus, Ended, StoreInv, JobsOK
  <1>2. JobsOK'
    BY <1>1, JobBecomesOK DEF JobRuns
  <1>3. UNCHANGED <<pageVars, troubles>>
    BY DEF JobRuns
  <1> QED
    BY <1>2, <1>3 DEF pageVars, StoreInv, SavedOK, RecoveryOK, RefreshOK, ActOK, CreationOK,
                      FinOK, LoadedOK, TroublesOK

\* A refresh begins, reads and ends; it is lost or refused.
LEMMA RefreshKeepsStore ==
  ASSUME StoreInv, Poll \/ ShowAgain \/ RefreshStep \/ LoseRefresh
  PROVE  StoreInv'
  <1> USE DEF StoreInv, JobsOK, SavedOK, RecoveryOK, ActOK, CreationOK, FinOK, LoadedOK
  <1>1. view.job # 0 => view.job \in Ids
    BY ClientBounds DEF RuntimeOK, Runtimes, Ids
  <1>2. CASE Poll
    <2>1. RefreshOK'
      BY <1>1, <1>2, BeginRefreshOK DEF Poll
    <2> QED  BY <1>2, <2>1 DEF Poll, TroublesOK
  <1>3. CASE ShowAgain
    <2>1. RefreshOK' /\ TroublesOK'
      BY <1>1, <1>3, BeginRefreshOK, TroubleOK DEF ShowAgain
    <2> QED  BY <1>3, <2>1 DEF ShowAgain
  <1>4. CASE ReadEvents
    <2>1. RefreshOK'
      <3>1. CASE refresh.rt.cur.job \in {0, refresh.rt.job}
        <4>1. refresh.rt.job \in Ids /\ refresh.rt.cur.at \in Nat
          BY <1>4 DEF ReadEvents, RefreshOK, RuntimeOK, Runtimes, Cursors
        <4>2. PICK evs : evs = Page(refresh.rt.job, refresh.rt.cur.at)
          OBVIOUS
        <4>3. evs \in Seq(Cursors) /\ StretchOf(refresh.rt.job, refresh.rt.cur.at, evs)
          BY <4>1, <4>2, PageOK
        <4>4. refresh' = [refresh EXCEPT !.listed = TRUE, !.events = evs]
          BY <1>4, <3>1, <4>2 DEF ReadEvents
        <4>5. /\ refresh'.rt = refresh.rt /\ refresh'.events = evs
              /\ refresh'.pc = refresh.pc /\ refresh.pc = "fetch"
          BY <1>4, <4>4 DEF RefreshOK, ReadEvents
        <4>6. refresh' \in [pc : {"idle", "fetch"}, rt : Runtimes, listed : BOOLEAN,
                            events : Seq(Cursors), st : JobStatus]
          BY <4>3, <4>4 DEF RefreshOK
        <4> QED  BY <3>1, <4>1, <4>3, <4>5, <4>6 DEF RefreshOK
      <3>2. CASE refresh.rt.cur.job \notin {0, refresh.rt.job}
        BY <1>4, <3>2, NoRefreshOK DEF ReadEvents
      <3> QED  BY <3>1, <3>2
    <2> QED  BY <1>4, <2>1 DEF ReadEvents, TroublesOK
  <1>5. CASE ReadJob
    <2>1. refresh.rt.job \in Ids
      BY <1>5 DEF ReadJob, RefreshOK
    <2>2. job[refresh.rt.job].st \in JobStatus
      BY <2>1
    <2>3. PICK st \in JobStatus : refresh' = [refresh EXCEPT !.st = st]
      BY <1>5, <2>2 DEF ReadJob
    <2>4. RefreshOK'
      BY <2>3 DEF RefreshOK
    <2> QED  BY <1>5, <2>4 DEF ReadJob, TroublesOK
  <1>6. CASE ResolveRefresh
    <2> DEFINE rt == Reduced(refresh.rt, refresh.events)
    <2>1. RuntimeOK(rt)
      BY <1>6, ReducedOK DEF ResolveRefresh, RefreshOK
    <2>2. refresh.st \in JobStatus
      BY DEF RefreshOK
    <2>3. rt.job \in 0..MaxJobs /\ rt = [rt EXCEPT !.job = rt.job]
      BY <2>1 DEF RuntimeOK, Runtimes
    <2> HIDE DEF rt
    <2>4. RuntimeOK([rt EXCEPT !.st = refresh.st, !.pending = "none"])
      BY <2>1, <2>2 DEF RuntimeOK, Runtimes, StretchOf
    <2>5. SetRuntime([rt EXCEPT !.st = refresh.st, !.pending = "none"])
      BY <1>6 DEF ResolveRefresh, FinishRefresh, rt
    <2>6. RuntimeOK(view') /\ SavedOK' /\ FinOK'
      BY <2>4, <2>5, SetRuntimeOK
    <2>7. refresh' = NoRefresh /\ UNCHANGED <<job, recovery, act, creation, loaded, troubles>>
      BY <1>6 DEF ResolveRefresh, FinishRefresh
    <2>8. RefreshOK'
      BY <2>7, NoRefreshOK
    <2> QED  BY <2>6, <2>7, <2>8 DEF TroublesOK
  <1>7. CASE ProposalMissing
    <2>1. RefreshOK'
      BY <1>7, NoRefreshOK DEF ProposalMissing
    <2> QED  BY <1>7, <2>1 DEF ProposalMissing, TroublesOK
  <1>8. CASE LoseRefresh
    <2>1. RefreshOK' /\ TroublesOK'
      BY <1>8, NoRefreshOK, TroubleOK DEF LoseRefresh
    <2> QED  BY <1>8, <2>1 DEF LoseRefresh
  <1> QED
    BY <1>2, <1>3, <1>4, <1>5, <1>6, <1>7, <1>8 DEF RefreshStep

\* An answer leaves the job an action is about.
LEMMA AnsweredOK ==
  ASSUME StoreInv, NEW pc \in {"approved", "ok", "refused"}, NEW st \in JobStatus,
         act.pc # "idle", Answered(pc, st)
  PROVE  ActOK'
  BY DEF StoreInv, ActOK, Answered

\* So does whatever the server answers.
LEMMA HandledOK ==
  ASSUME StoreInv, NEW n \in Ids, HandleCancel(n) \/ HandleApprove(n) \/ HandleResume(n)
  PROVE  JobsOK'
  <1>1. JobsOK
    BY DEF StoreInv
  <1>2. PICK p \in {"none", "ACTIVE", "APPROVED"} : p = job[n].proposal
    BY <1>1 DEF JobsOK
  <1>3. /\ "STOPPED" \in JobStatus /\ "RUNNING" \in JobStatus
        /\ <<"event">> \in Seq({"event", "done"}) /\ <<>> \in Seq({"event", "done"})
        /\ "APPROVED" \in {"none", "ACTIVE", "APPROVED"}
    BY DEF JobStatus, Ended
  <1>4. \/ UNCHANGED job
        \/ JobBecomes(n, "STOPPED", <<"event">>, p)
        \/ JobBecomes(n, "RUNNING", <<>>, "APPROVED")
        \/ JobBecomes(n, "RUNNING", <<"event">>, p)
    BY <1>2 DEF HandleCancel, HandleApprove, HandleResume
  <1>5. CASE UNCHANGED job
    BY <1>1, <1>5 DEF JobsOK
  <1> QED  BY <1>3, <1>4, <1>5, JobBecomesOK

\* The actions of the user: clicked, handled by the server, answered
LEMMA ActionsKeepStore ==
  ASSUME StoreInv,
         (\E k \in Actions : Click(k)) \/ HandleAction \/ AnswerApprove \/ ApplyAnswer
                                      \/ LoseAnswer
  PROVE  StoreInv'
  <1> USE DEF StoreInv, RecoveryOK, RefreshOK, CreationOK, LoadedOK
  <1>0. /\ {"none", "STOPPED", "RUNNING"} \subseteq JobStatus
        /\ act.pc # "idle" => act.job \in Ids /\ job[act.job].st \in JobStatus
                             /\ job[act.job].proposal \in {"none", "ACTIVE", "APPROVED"}
        /\ <<>> \in Seq({"event", "done"}) /\ <<"event">> \in Seq({"event", "done"})
    BY DEF JobStatus, Ended, ActOK, JobsOK
  <1>1. CASE \E k \in Actions : Click(k)
    <2>1. PICK k \in Actions : Click(k)
      BY <1>1
    <2>2. view.job \in Ids /\ view.job \in 0..MaxJobs
      BY <2>1, ClientBounds DEF Click, Ids
    <2>3. ActOK'
      BY <1>0, <2>1, <2>2 DEF Click, ActOK
    <2>4. RuntimeOK([view EXCEPT !.pending = k])
      BY DEF RuntimeOK, Runtimes, StretchOf
    <2>5. RuntimeOK(view') /\ SavedOK' /\ FinOK'
      BY <2>1, <2>4, SetRuntimeOK DEF Click
    <2> QED  BY <2>1, <2>3, <2>5 DEF Click, JobsOK, TroublesOK
  <1>2. CASE HandleAction
    <2>1. PICK n \in Ids : n = act.job /\ (HandleCancel(n) \/ HandleApprove(n) \/ HandleResume(n))
      BY <1>0, <1>2 DEF HandleAction
    <2>2. act.pc # "idle" /\ job[n].proposal \in {"none", "ACTIVE", "APPROVED"}
      BY <1>0, <1>2, <2>1 DEF HandleAction
    <2>3. JobsOK' /\ ActOK'
      <3>1. CASE HandleCancel(n)
        <4>1. ActOK'
          BY <1>0, <2>2, <3>1, AnsweredOK DEF HandleCancel
        <4>2. JobsOK'
          BY <3>1, HandledOK
        <4> QED  BY <4>1, <4>2
      <3>2. CASE HandleApprove(n)
        <4>1. ActOK'
          BY <1>0, <2>2, <3>2, AnsweredOK DEF HandleApprove
        <4>2. JobsOK'
          BY <3>2, HandledOK
        <4> QED  BY <4>1, <4>2
      <3>3. CASE HandleResume(n)
        <4>1. ActOK'
          BY <1>0, <2>2, <3>3, AnsweredOK DEF HandleResume
        <4>2. JobsOK'
          BY <3>3, HandledOK
        <4> QED  BY <4>1, <4>2
      <3> QED  BY <2>1, <3>1, <3>2, <3>3
    <2> QED  BY <1>2, <2>3 DEF HandleAction, SavedOK, FinOK, TroublesOK
  <1>3. CASE AnswerApprove
    <2>1. ActOK'
      BY <1>0, <1>3, AnsweredOK DEF AnswerApprove
    <2> QED  BY <1>3, <2>1 DEF AnswerApprove, JobsOK, SavedOK, FinOK, TroublesOK
  <1>4. CASE ApplyAnswer
    <2>1. ActOK'
      BY <1>0, <1>4, NothingOK DEF ApplyAnswer, ActOK, NoAct
    <2>2. act.job \in 0..MaxJobs /\ act.st \in JobStatus
      BY DEF ActOK
    <2>3. /\ RuntimeOK([view EXCEPT !.job = act.job, !.st = act.st, !.pending = "none"])
          /\ RuntimeOK([view EXCEPT !.pending = "none"])
      <3>1. RuntimeOK([view EXCEPT !.pending = "none"])
        BY DEF RuntimeOK, Runtimes, StretchOf
      <3> QED  BY <2>2, <3>1, ChangedRuntimeOK
    <2>4. RuntimeOK(view') /\ SavedOK' /\ FinOK'
      <3>1. CASE view.job = 0
        BY <1>4, <3>1 DEF ApplyAnswer, SavedOK, FinOK
      <3>2. CASE view.job # 0
        BY <1>4, <2>3, <3>2, SetRuntimeOK DEF ApplyAnswer
      <3> QED  BY <3>1, <3>2
    <2> QED  BY <1>4, <2>1, <2>4 DEF ApplyAnswer, JobsOK, TroublesOK
  <1>5. CASE LoseAnswer
    <2>1. ActOK' /\ TroublesOK'
      BY <1>0, <1>5, AnsweredOK, TroubleOK DEF LoseAnswer
    <2> QED  BY <1>5, <2>1 DEF LoseAnswer, JobsOK, SavedOK, FinOK
  <1> QED  BY <1>1, <1>2, <1>3, <1>4, <1>5

\* A job is created, its artifact loaded.
LEMMA CreationKeepsStore ==
  ASSUME StoreInv, NEW n \in Ids,
         \/ ClickStart(n) \/ CreateJob(n) \/ ShowCreated(n) \/ LoseCreation(n)
         \/ BeginLoad(n) \/ FinishLoad(n) \/ LoadFails(n)
  PROVE  StoreInv'
  <1> USE DEF StoreInv, RecoveryOK, RefreshOK, ActOK
  <1>1. CASE ClickStart(n)
    BY <1>1 DEF ClickStart, JobsOK, SavedOK, CreationOK, FinOK, LoadedOK, TroublesOK
  <1>2. CASE CreateJob(n)
    <2>1. JobsOK'
      <3>1. "RUNNING" \in JobStatus /\ <<"event">> \in Seq({"event", "done"})
        BY DEF JobStatus
      <3> QED  BY <1>2, <3>1, JobBecomesOK DEF CreateJob
    <2> QED  BY <1>2, <2>1 DEF CreateJob, SavedOK, CreationOK, FinOK, LoadedOK, TroublesOK
  <1>3. CASE ShowCreated(n)
    <2>1. n \in 0..MaxJobs /\ "RUNNING" \in JobStatus
      BY ClientBounds DEF Ids, JobStatus
    <2>2. RuntimeOK(Runtime(n, "RUNNING", NoCursor, 0))
      BY <2>1, NothingOK, FreshRuntimeOK
    <2>3. RuntimeOK(view') /\ SavedOK' /\ FinOK'
      BY <1>3, <2>2, SetRuntimeOK DEF ShowCreated
    <2> QED  BY <1>3, <2>3 DEF ShowCreated, JobsOK, CreationOK, LoadedOK, TroublesOK
  <1>4. CASE LoseCreation(n)
    BY <1>4, TroubleOK DEF LoseCreation, JobsOK, SavedOK, CreationOK, FinOK, LoadedOK
  <1>5. CASE BeginLoad(n)
    BY <1>5 DEF BeginLoad, JobsOK, SavedOK, CreationOK, FinOK, LoadedOK, TroublesOK
  <1>6. CASE FinishLoad(n)
    <2>1. RuntimeOK(view') /\ SavedOK'
      BY <1>6, DropRuntimeOK DEF FinishLoad
    <2> QED  BY <1>6, <2>1 DEF FinishLoad, JobsOK, CreationOK, FinOK, LoadedOK, TroublesOK
  <1>7. CASE LoadFails(n)
    BY <1>7, TroubleOK DEF LoadFails, JobsOK, SavedOK, CreationOK, FinOK, LoadedOK
  <1> QED  BY <1>1, <1>2, <1>3, <1>4, <1>5, <1>6, <1>7

\* The page is dismissed, reloaded and recovered from what was saved.
LEMMA RecoveryKeepsStore ==
  ASSUME StoreInv, Dismiss \/ Reload \/ RecoverJob \/ ShowRecovered \/ LoseRecovery
  PROVE  StoreInv'
  <1> USE DEF StoreInv
  <1>0. "none" \in JobStatus
    BY DEF JobStatus
  <1>1. CASE Dismiss
    <2>1. RuntimeOK(view') /\ SavedOK'
      BY <1>1, DropRuntimeOK DEF Dismiss
    <2> QED
      BY <1>1, <2>1 DEF Dismiss, JobsOK, RecoveryOK, RefreshOK, ActOK, CreationOK, FinOK,
                        LoadedOK, TroublesOK
  <1>2. CASE Reload
    <2>1. RuntimeOK(view') /\ RefreshOK' /\ TroublesOK'
      BY <1>2, NothingOK, NoRefreshOK, TroubleOK DEF Reload
    <2>2. RecoveryOK'
      <3>1. CASE saved.job = 0
        BY <1>0, <1>2, <3>1, NothingOK DEF Reload, RecoveryOK, NoRecovery
      <3>2. CASE saved.job # 0
        <4>1. saved.job \in Ids
          BY <3>2, ClientBounds DEF SavedOK, Refs, Ids
        <4>2. recovery' = [pc |-> "sent", ref |-> saved, st |-> "none"]
          BY <1>2, <3>2 DEF Reload
        <4> QED  BY <1>0, <4>1, <4>2 DEF SavedOK, RecoveryOK
      <3> QED  BY <3>1, <3>2
    <2>3. ActOK'
      BY <1>0, <1>2, NothingOK DEF Reload, ActOK, NoAct
    <2>4. CreationOK' /\ FinOK'
      BY <1>2 DEF Reload, CreationOK, FinOK
    <2> QED
      BY <1>2, <2>1, <2>2, <2>3, <2>4 DEF Reload, JobsOK, SavedOK, LoadedOK
  <1>3. CASE RecoverJob
    <2>1. job[recovery.ref.job].st \in JobStatus
      BY <1>3 DEF RecoverJob, RecoveryOK, JobsOK
    <2>2. RecoveryOK'
      BY <1>3, <2>1 DEF RecoverJob, RecoveryOK
    <2> QED
      BY <1>3, <2>2 DEF RecoverJob, JobsOK, SavedOK, RefreshOK, ActOK, CreationOK, FinOK,
                        LoadedOK, TroublesOK
  <1>4. CASE ShowRecovered
    <2>1. PICK rt :
            /\ rt = Runtime(recovery.ref.job, recovery.st, recovery.ref.cur, recovery.ref.res)
            /\ recovery.pc = "read"
            /\ recovery' = NoRecovery
            /\ SetRuntime(rt)
            /\ BeginRefresh(rt)
            /\ UNCHANGED <<job, act, creation, loaded, troubles>>
      BY <1>4 DEF ShowRecovered
    <2>2. recovery.ref \in Refs /\ recovery.ref.job \in Ids /\ recovery.st \in JobStatus
      BY <2>1 DEF RecoveryOK
    <2>3. RuntimeOK(rt) /\ rt.job \in Ids
      <3>1. RuntimeOK(rt)
        BY <2>1, <2>2, FreshRuntimeOK DEF Refs, RecoveryOK
      <3> QED  BY <2>1, <2>2, <3>1 DEF Runtime
    <2>4. RuntimeOK(view') /\ SavedOK' /\ FinOK'
      BY <2>1, <2>3, SetRuntimeOK
    <2>5. RefreshOK'
      BY <2>1, <2>3, BeginRefreshOK
    <2>6. RecoveryOK'
      BY <1>0, <2>1, NothingOK DEF RecoveryOK, NoRecovery
    <2> QED
      BY <2>1, <2>4, <2>5, <2>6 DEF JobsOK, ActOK, CreationOK, LoadedOK, TroublesOK
  <1>5. CASE LoseRecovery
    <2>1. RecoveryOK' /\ TroublesOK'
      BY <1>0, <1>5, NothingOK, TroubleOK DEF LoseRecovery, RecoveryOK, NoRecovery
    <2> QED
      BY <1>5, <2>1 DEF LoseRecovery, JobsOK, SavedOK, RefreshOK, ActOK, CreationOK, FinOK,
                        LoadedOK
  <1> QED  BY <1>1, <1>2, <1>3, <1>4, <1>5

\* The page's invariant is inductive.
LEMMA StoreInvariance ==
  StoreInv /\ [StoreNext]_storeVars => StoreInv'
  <1> SUFFICES ASSUME StoreInv, [StoreNext]_storeVars  PROVE StoreInv'
    OBVIOUS
  <1>1. CASE \E n \in Ids : JobRuns(n)
    BY <1>1, JobsKeepStore
  <1>2. CASE Poll \/ ShowAgain \/ RefreshStep \/ LoseRefresh
    BY <1>2, RefreshKeepsStore
  <1>3. CASE (\E k \in Actions : Click(k)) \/ HandleAction \/ AnswerApprove \/ ApplyAnswer
                                          \/ LoseAnswer
    BY <1>3, ActionsKeepStore
  <1>4. CASE \E n \in Ids :
               \/ ClickStart(n) \/ CreateJob(n) \/ ShowCreated(n) \/ LoseCreation(n)
               \/ BeginLoad(n) \/ FinishLoad(n) \/ LoadFails(n)
    BY <1>4, CreationKeepsStore
  <1>5. CASE Dismiss \/ Reload \/ RecoverJob \/ ShowRecovered \/ LoseRecovery
    BY <1>5, RecoveryKeepsStore
  <1>6. CASE UNCHANGED storeVars
    BY <1>6 DEF storeVars, pageVars, StoreInv, JobsOK, SavedOK, RecoveryOK, RefreshOK, ActOK,
                CreationOK, FinOK, LoadedOK, TroublesOK
  <1> QED
    BY <1>1, <1>2, <1>3, <1>4, <1>5, <1>6 DEF StoreNext, PageStep, LoadStep

-----------------------------------------------------------------------------
(* 3. Both clients.                                                        *)

ClientsInv == StreamInv /\ StoreInv /\ via \in {"stream", "store"}

\* The strengthened invariant of both clients holds of every behaviour.
THEOREM ClientsInvariance == ClientsSpec => []ClientsInv
  <1>1. ClientsInit => ClientsInv
    BY StreamInitially, StoreInitially DEF ClientsInit, ClientsInv
  <1>2. ClientsInv /\ [ClientsNext]_allVars => ClientsInv'
    <2> SUFFICES ASSUME ClientsInv, [ClientsNext]_allVars  PROVE ClientsInv'
      OBVIOUS
    <2>1. [Next]_vars /\ [StoreNext]_storeVars /\ UNCHANGED via
      BY DEF ClientsNext, ByStream, ByStore, allVars
    <2> QED  BY <2>1, StreamInvariance, StoreInvariance DEF ClientsInv
  <1> QED  BY <1>1, <1>2, PTL DEF ClientsSpec

\* Both clients keep their types.
THEOREM ClientsTypeCorrect == ClientsSpec => []ClientsTypeOK
  <1>1. ClientsInv => ClientsTypeOK
    BY StoreInvImplies DEF ClientsInv, StreamInv, ClientsTypeOK
  <1> QED  BY <1>1, ClientsInvariance, PTL

\* Neither client skips an event, repeats one or mixes those of two jobs.
THEOREM NothingSkipped == ClientsSpec => []SeenGapless
  <1>1. ClientsInv => SeenGapless
    BY StreamIsGapless, StoreInvImplies DEF ClientsInv, SeenGapless
  <1> QED  BY <1>1, ClientsInvariance, PTL
=============================================================================
