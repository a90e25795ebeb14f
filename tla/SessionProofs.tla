--------------------------- MODULE SessionProofs ---------------------------
(* Proofs about Session, for any attachers, command lines and terminals.   *)
EXTENDS Session, SequenceTheorems, FiniteSetTheorems, TLAPS

-----------------------------------------------------------------------------
(* The inductive invariant.  An attacher has one request, and the request  *)
(* is in one place: not made yet, written to a connection, turned into a   *)
(* display, or answered with a signal that makes the attacher stop or lock *)
(* its terminal and ask again.                                             *)

Requests == {"MSG_ATTACH", "MSG_CONT", "MSG_DETACH"}
StopSignals == {"SIG_LOCK", "SIG_STOP"}
Byes == {"SIG_BYE", "SIG_POWER_BYE"}

Unasked == {"shell", "found", "ready"}
Looking == {"found", "ready"}
Away == {"stopped", "frozen", "locked"}
Inside == {"entering", "prenap", "nap", "awake"}

DisplayType == [pid : Attachers, prompt : BOOLEAN, msg : Messages]
ConnectionType == [pid : Attachers, data : Messages \union {NoData}, open : BOOLEAN]

Stopping(a) == pend[a] \cap StopSignals # {}
Told(a) == Stopping(a) \/ flags[a] # {} \/ pc[a] \in Away
Asking(a) == \E i \in 1 .. Len(backlog) :
               backlog[i].pid = a /\ backlog[i].data.type \in Requests
Displayed(a) == \E d \in displays : d.pid = a
Alone(a) == \A b \in Attachers : tty[b] = tty[a] => b = a

\* The server reads from a connection there is, and leaves none behind.
ServerSound ==
  /\ ~up => backlog = <<>>
  /\ accepting => up /\ backlog # <<>>

\* What a connection c holds agrees with its attacher.
ConnectionSound(c) ==
  /\ c.open => c.data = NoData /\ pc[c.pid] \in Looking
  /\ c.data # NoData => c.data.pid = c.pid
  /\ c.data.type \in Requests => (c.data.type = "MSG_DETACH" <=> kind[c.pid] = "d")

ConnectionsSound == \A i \in 1 .. Len(backlog) : ConnectionSound(backlog[i])

\* An attacher has one open connection, while it looks at the mode, and one
\* request under way.
OneConnection ==
  /\ \A i, j \in 1 .. Len(backlog) :
       backlog[i].pid = backlog[j].pid /\ backlog[i].open /\ backlog[j].open => i = j
  /\ \A i, j \in 1 .. Len(backlog) :
       /\ backlog[i].pid = backlog[j].pid
       /\ backlog[i].data.type \in Requests /\ backlog[j].data.type \in Requests
       => i = j
  /\ up => \A a \in Attachers : pc[a] \in Looking =>
       \E i \in 1 .. Len(backlog) : backlog[i].pid = a /\ backlog[i].open

\* A display agrees with the message it came with.
DisplaySound(d) ==
  /\ d.msg.pid = d.pid
  /\ d.msg.type \in Requests
  /\ d.msg.type = "MSG_DETACH" <=> kind[d.pid] = "d"
  /\ d.msg.type = "MSG_DETACH" => d.prompt

DisplaysWell ==
  /\ \A d \in displays : DisplaySound(d)
  /\ \A d, e \in displays : d.pid = e.pid => d = e
  /\ \A d, e \in displays :
       /\ tty[d.pid] = tty[e.pid]
       /\ d.msg.type # "MSG_DETACH" /\ e.msg.type # "MSG_DETACH"
       => d = e

OnePlace ==
  \A a \in Attachers :
    /\ Asking(a) => pc[a] \notin Unasked /\ ~Displayed(a) /\ ~Told(a)
    /\ Displayed(a) => pc[a] \notin Unasked /\ ~Told(a)
    /\ Told(a) => pc[a] \notin Unasked /\ kind[a] # "d"

\* The order to stop is under way, or noted, or followed; and nobody but the
\* terminal signals an attacher that the server does not know.
OrderSound(a) ==
  /\ Stopping(a) => flags[a] = {} /\ pc[a] \notin Away /\ ~(StopSignals \subseteq pend[a])
  /\ flags[a] # {} => pc[a] \notin Away /\ ~(Flags \subseteq flags[a])
  /\ pc[a] = "frozen" => early[a] \notin Unasked \union {"no"}
  /\ pc[a] \in Unasked => pend[a] \subseteq {"SIG_BYE"}

OneOrder == \A a \in Attachers : OrderSound(a)

\* Whoever waits for the server, alone on its terminal, has not been forgotten.
Signalled(a) == Stopping(a) \/ flags[a] # {} \/ pend[a] \cap Byes # {}

Expecting(a) ==
  /\ pc[a] \in Inside \union Waiting
  /\ kind[a] # "d" /\ early[a] = "no" /\ Alone(a)

NoneForgotten ==
  \A a \in Attachers :
    /\ pc[a] \in Inside => kind[a] # "d"
    /\ up /\ Expecting(a) => Asking(a) \/ Displayed(a) \/ Signalled(a)

IInv ==
  /\ TypeOK /\ ServerSound
  /\ ConnectionsSound /\ OneConnection
  /\ DisplaysWell /\ OnePlace /\ OneOrder /\ NoneForgotten

LEMMA InitEstablishes == Init => IInv
<1> SUFFICES ASSUME Init PROVE IInv
  OBVIOUS
<1> USE DEF Init
<1>1. TypeOK
  <2>1. dflag \in [Attachers -> BOOLEAN] /\ backlog \in Seq(ConnectionType)
    OBVIOUS
  <2>2. /\ pc \in [Attachers -> PCs] /\ early \in [Attachers -> PCs \union {"no"}]
        /\ pend \in [Attachers -> SUBSET Signals] /\ flags \in [Attachers -> SUBSET Flags]
    BY DEF PCs
  <2>3. /\ handlers \in [Attachers -> BOOLEAN] /\ cont \in [Attachers -> BOOLEAN]
        /\ hungup \in [Attachers -> BOOLEAN] /\ returns \in [Attachers -> Nat]
    OBVIOUS
  <2>4. QED
    BY <2>1, <2>2, <2>3 DEF TypeOK, ConnectionType
<1>2. ServerSound /\ ConnectionsSound /\ OneConnection /\ DisplaysWell
  BY DEF ServerSound, ConnectionsSound, OneConnection, DisplaysWell, Looking
<1>3. \A a \in Attachers : ~Asking(a) /\ ~Displayed(a) /\ ~Told(a)
  BY DEF Asking, Displayed, Told, Stopping, Away
<1>4. OnePlace
  BY <1>3 DEF OnePlace
<1>5. OneOrder
  BY <1>3 DEF OneOrder, OrderSound, Told
<1>6. NoneForgotten
  BY DEF NoneForgotten, Expecting, Inside, Waiting
<1>7. QED
  BY <1>1, <1>2, <1>4, <1>5, <1>6 DEF IInv

-----------------------------------------------------------------------------
(* The helpers of the model.                                               *)

\* Kill adds the signal to the live processes it names.
LEMMA KillShape ==
  ASSUME NEW p \in [Attachers -> SUBSET Signals], NEW who, NEW sig \in Signals
  PROVE  /\ Kill(who, sig, p) \in [Attachers -> SUBSET Signals]
         /\ \A a \in Attachers :
              Kill(who, sig, p)[a] = IF a \in who /\ Alive(a) THEN p[a] \union {sig} ELSE p[a]
BY DEF Kill

\* A new connection is the last one.
LEMMA AppendShape ==
  ASSUME NEW s \in Seq(ConnectionType), NEW c \in ConnectionType
  PROVE  /\ Append(s, c) \in Seq(ConnectionType)
         /\ Append(s, c) # <<>>
         /\ Len(s) \in Nat /\ Len(Append(s, c)) = Len(s) + 1
         /\ \A i \in 1 .. Len(s) : Append(s, c)[i] = s[i]
         /\ Append(s, c)[Len(s) + 1] = c
BY AppendProperties, LenProperties

\* The server is done with the first connection.
LEMMA TailShape ==
  ASSUME NEW s \in Seq(ConnectionType), s # <<>>
  PROVE  /\ Tail(s) \in Seq(ConnectionType)
         /\ Len(s) \in Nat /\ Len(s) > 0 /\ Len(Tail(s)) = Len(s) - 1
         /\ \A i \in 1 .. Len(s) - 1 : Tail(s)[i] = s[i + 1]
         /\ Head(s) = s[1] /\ s[1] \in ConnectionType
BY HeadTailProperties, LenProperties, EmptySeq

\* Connection changes what the open connections of a hold.
LEMMA ConnectionShape ==
  ASSUME backlog \in Seq(ConnectionType), NEW a \in Attachers, NEW data \in Messages \union {NoData},
         NEW open \in BOOLEAN, Connection(a, data, open)
  PROVE  /\ backlog' \in Seq(ConnectionType) /\ Len(backlog') = Len(backlog)
         /\ Len(backlog) \in Nat
         /\ backlog = <<>> <=> backlog' = <<>>
         /\ \A i \in 1 .. Len(backlog) :
              /\ backlog[i] \in ConnectionType
              /\ backlog'[i] = IF backlog[i].pid = a /\ backlog[i].open
                               THEN [pid |-> a, data |-> data, open |-> open] ELSE backlog[i]
<1> DEFINE New(i) == IF backlog[i].pid = a /\ backlog[i].open
                     THEN [pid |-> a, data |-> data, open |-> open] ELSE backlog[i]
<1>1. backlog' = [i \in 1 .. Len(backlog) |-> New(i)]
  BY DEF Connection
<1>2. Len(backlog) \in Nat /\ \A i \in 1 .. Len(backlog) : backlog[i] \in ConnectionType
  BY LenProperties, ElementOfSeq
<1>3. \A i \in 1 .. Len(backlog) : New(i) \in ConnectionType
  BY <1>2 DEF ConnectionType
<1> HIDE DEF New
<1>4. backlog' \in Seq(ConnectionType) /\ Len(backlog') = Len(backlog)
  BY <1>1, <1>2, <1>3
<1>5. \A i \in 1 .. Len(backlog) : backlog'[i] = New(i)
  BY <1>1
<1>6. backlog = <<>> <=> backlog' = <<>>
  BY <1>2, <1>4, EmptySeq
<1>7. QED
  BY <1>2, <1>4, <1>5, <1>6 DEF New

-----------------------------------------------------------------------------
(* The attacher's steps.                                                   *)

\* An attacher goes on, may be done with its connection, and takes no order to
\* stop that it has not been given.
LEMMA StepKeeps ==
  ASSUME IInv, TypeOK', NEW a \in Attachers, NEW l \in PCs,
         pc' = [pc EXCEPT ![a] = l],
         UNCHANGED <<up, displays, mode, accepting, kind, tty>>,
         \A b \in Attachers \ {a} :
           pend'[b] = pend[b] /\ flags'[b] = flags[b] /\ early'[b] = early[b],
         (backlog' = backlog /\ (pc[a] \notin Looking \/ ~up)) \/ Connection(a, NoData, FALSE),
         l \notin Unasked,
         Told(a)' => Told(a),
         OrderSound(a)',
         l \in Inside => pc[a] \in Inside \/ kind[a] # "d",
         Expecting(a)' => Expecting(a) /\ (Signalled(a) => Signalled(a)')
  PROVE  IInv'
<1> DEFINE N == 1 .. Len(backlog)
<1>0. backlog \in Seq(ConnectionType) /\ pc[a] \in PCs
  BY DEF IInv, TypeOK, ConnectionType
<1>1. /\ 1 .. Len(backlog') = N
      /\ backlog = <<>> <=> backlog' = <<>>
      /\ \A i \in N : /\ backlog[i] \in ConnectionType
                      /\ backlog'[i] = backlog[i]
                         \/ /\ backlog[i].pid = a /\ backlog[i].open
                            /\ backlog'[i] = [pid |-> a, data |-> NoData, open |-> FALSE]
                      /\ backlog'[i].pid = backlog[i].pid
                      /\ backlog'[i].open => backlog[i].open
                      /\ backlog[i].pid = a => ~backlog'[i].open
  <2>1. CASE backlog' = backlog /\ (pc[a] \notin Looking \/ ~up)
    <3>1. \A i \in N : backlog[i] \in ConnectionType
      BY <1>0, ElementOfSeq
    <3>2. \A i \in N : backlog[i].pid = a => ~backlog[i].open
      <4>1. CASE pc[a] \notin Looking
        BY <4>1 DEF IInv, ConnectionsSound, ConnectionSound
      <4>2. CASE ~up
        BY <4>2, EmptySeq DEF IInv, ServerSound
      <4>3. QED
        BY <2>1, <4>1, <4>2
    <3>3. QED
      BY <2>1, <3>1, <3>2
  <2>2. CASE Connection(a, NoData, FALSE)
    <3>1. PICK data \in Messages \union {NoData} : data = NoData
      OBVIOUS
    <3>2. PICK open \in BOOLEAN : open = FALSE
      OBVIOUS
    <3>3. /\ Len(backlog') = Len(backlog)
          /\ backlog = <<>> <=> backlog' = <<>>
          /\ \A i \in 1 .. Len(backlog) :
               /\ backlog[i] \in ConnectionType
               /\ backlog'[i] = IF backlog[i].pid = a /\ backlog[i].open
                                THEN [pid |-> a, data |-> data, open |-> open]
                                ELSE backlog[i]
      <4>1. Connection(a, data, open)
        BY <2>2, <3>1, <3>2
      <4>2. QED
        BY <1>0, <4>1, ConnectionShape
    <3>4. ASSUME NEW i \in N
          PROVE  /\ backlog'[i] = backlog[i]
                    \/ /\ backlog[i].pid = a /\ backlog[i].open
                       /\ backlog'[i] = [pid |-> a, data |-> NoData, open |-> FALSE]
                 /\ backlog'[i].pid = backlog[i].pid
                 /\ backlog'[i].open => backlog[i].open
                 /\ backlog[i].pid = a => ~backlog'[i].open
      <4>1. CASE backlog[i].pid = a /\ backlog[i].open
        <5>1. backlog'[i] = [pid |-> a, data |-> NoData, open |-> FALSE]
          BY <3>1, <3>2, <3>3, <4>1
        <5>2. backlog'[i].pid = a /\ backlog'[i].open = FALSE
          BY <5>1
        <5>3. QED
          BY <4>1, <5>1, <5>2
      <4>2. CASE ~(backlog[i].pid = a /\ backlog[i].open)
        <5>1. backlog'[i] = backlog[i]
          BY <3>3, <4>2
        <5>2. QED
          BY <4>2, <5>1
      <4>3. QED
        BY <4>1, <4>2
    <3>5. QED
      BY <3>3, <3>4
  <2>3. QED
    BY <2>1, <2>2
<1>2. \A b \in Attachers : pc'[b] = IF b = a THEN l ELSE pc[b]
  BY DEF IInv, TypeOK
<1>3. \A i \in N : backlog[i].pid \in Attachers
  BY <1>1 DEF ConnectionType
<1>4. \A i \in N : backlog'[i].data.type \in Requests <=> backlog[i].data.type \in Requests
  <2> SUFFICES ASSUME NEW i \in N
               PROVE  backlog'[i].data.type \in Requests <=> backlog[i].data.type \in Requests
    OBVIOUS
  <2>1. NoData.type \notin Requests
    BY DEF NoData, Requests
  <2>2. backlog[i].open => backlog[i].data = NoData
    BY DEF IInv, ConnectionsSound, ConnectionSound
  <2>3. CASE backlog'[i] = [pid |-> a, data |-> NoData, open |-> FALSE] /\ backlog[i].open
    <3>1. backlog[i].data = NoData /\ backlog'[i].data = NoData
      BY <2>2, <2>3
    <3>2. QED
      BY <2>1, <3>1
  <2>4. QED
    BY <1>1, <2>3
<1>5. \A b \in Attachers : (Asking(b)' <=> Asking(b)) /\ (Displayed(b)' <=> Displayed(b))
  BY <1>1, <1>4 DEF Asking, Displayed
<1>6. \A b \in Attachers \ {a} :
        /\ Told(b)' <=> Told(b)
        /\ OrderSound(b)' <=> OrderSound(b)
        /\ Signalled(b)' <=> Signalled(b)
        /\ Expecting(b)' <=> Expecting(b)
  BY <1>2 DEF Told, Stopping, OrderSound, Signalled, Expecting, Alone
<1>7. ServerSound'
  BY <1>1 DEF IInv, ServerSound
<1>8. ConnectionsSound'
  <2> SUFFICES ASSUME NEW i \in N PROVE ConnectionSound(backlog[i])'
    BY <1>1 DEF ConnectionsSound
  <2>1. ConnectionSound(backlog[i])
    BY DEF IInv, ConnectionsSound
  <2>2. CASE backlog'[i] = backlog[i]
    BY <1>1, <1>2, <1>3, <2>1, <2>2 DEF ConnectionSound
  <2>3. CASE backlog'[i] = [pid |-> a, data |-> NoData, open |-> FALSE]
    BY <2>3 DEF ConnectionSound, NoData, Requests
  <2>4. QED
    BY <1>1, <2>2, <2>3
<1>9. OneConnection'
  <2>1. \A b \in Attachers \ {a}, i \in N :
          backlog[i].pid = b => backlog'[i] = backlog[i]
    BY <1>1
  <2>2. \A b \in Attachers : pc'[b] \in Looking => b # a /\ pc[b] \in Looking
    BY <1>2 DEF Looking, Unasked
  <2>3. QED
    BY <1>1, <1>4, <2>1, <2>2 DEF IInv, OneConnection
<1>10. DisplaysWell'
  BY DEF IInv, DisplaysWell, DisplaySound
<1>11. OnePlace'
  <2> SUFFICES ASSUME NEW b \in Attachers
               PROVE  /\ Asking(b)' => pc'[b] \notin Unasked /\ ~Displayed(b)' /\ ~Told(b)'
                      /\ Displayed(b)' => pc'[b] \notin Unasked /\ ~Told(b)'
                      /\ Told(b)' => pc'[b] \notin Unasked /\ kind'[b] # "d"
    BY DEF OnePlace
  <2>1. CASE b = a
    BY <1>2, <1>5, <2>1 DEF IInv, OnePlace
  <2>2. CASE b # a
    BY <1>2, <1>5, <1>6, <2>2 DEF IInv, OnePlace
  <2>3. QED
    BY <2>1, <2>2
<1>12. OneOrder'
  BY <1>6 DEF IInv, OneOrder
<1>13. NoneForgotten'
  <2> SUFFICES ASSUME NEW b \in Attachers
               PROVE  /\ pc'[b] \in Inside => kind'[b] # "d"
                      /\ up' /\ Expecting(b)' => Asking(b)' \/ Displayed(b)' \/ Signalled(b)'
    BY DEF NoneForgotten
  <2>1. CASE b = a
    BY <1>2, <1>5, <2>1 DEF IInv, NoneForgotten
  <2>2. CASE b # a
    BY <1>2, <1>5, <1>6, <2>2 DEF IInv, NoneForgotten
  <2>3. QED
    BY <2>1, <2>2
<1>14. QED
  BY <1>7, <1>8, <1>9, <1>10, <1>11, <1>12, <1>13 DEF IInv

\* The labels an attacher may go to are labels, and typing follows.
LEMMA GotoTyped ==
  ASSUME TypeOK, NEW a \in Attachers, NEW l \in PCs, Goto(a, l),
         UNCHANGED <<up, displays, mode, accepting, kind, tty, hungup>>,
         backlog' \in Seq(ConnectionType),
         dflag' \in [Attachers -> BOOLEAN], handlers' \in [Attachers -> BOOLEAN],
         cont' \in [Attachers -> BOOLEAN], returns' \in [Attachers -> Nat],
         pend' \in [Attachers -> SUBSET Signals], flags' \in [Attachers -> SUBSET Flags],
         early' \in [Attachers -> PCs \union {"no"}]
  PROVE  TypeOK' /\ pc' = [pc EXCEPT ![a] = l]
         /\ \A b \in Attachers : pc'[b] = IF b = a THEN l ELSE pc[b]
<1>1. pc' = [pc EXCEPT ![a] = l] /\ pc \in [Attachers -> PCs]
  BY DEF Goto, TypeOK
<1>2. pc' \in [Attachers -> PCs] /\ \A b \in Attachers : pc'[b] = IF b = a THEN l ELSE pc[b]
  BY <1>1
<1>3. TypeOK'
  BY <1>2 DEF TypeOK, ConnectionType
<1>4. QED
  BY <1>1, <1>2, <1>3

\* Steps that change nothing but the place of the attacher, its ContinuePlease
\* and whether it has handlers.
LEMMA QuietKeeps ==
  ASSUME IInv, NEW a \in Attachers,
         TestContinue(a) \/ Pause(a) \/ EnterAttacher(a) \/ Nap(a) \/ Alarm(a) \/ FinitLook(a)
         \/ ResumeEarly(a)
  PROVE  IInv'
<1>0. TypeOK /\ pc[a] \in PCs /\ OrderSound(a) /\ (pc[a] \in Inside => kind[a] # "d")
      /\ (Told(a) => kind[a] # "d")
  BY DEF IInv, TypeOK, OneOrder, NoneForgotten, OnePlace
<1>1. /\ UNCHANGED <<server, kind, tty, dflag, pend, flags, early, hungup, returns>>
      /\ cont' \in [Attachers -> BOOLEAN] /\ handlers' \in [Attachers -> BOOLEAN]
  BY <1>0 DEF TestContinue, Pause, EnterAttacher, Nap, Alarm, FinitLook, ResumeEarly, TypeOK
<1>2. \E m \in PCs :
        /\ Goto(a, m)
        /\ pc[a] \notin Looking /\ m \notin Unasked
        /\ m \in Away => pc[a] = "frozen"
        /\ m = "frozen" => pc[a] = "frozen"
        /\ m \in Inside => pc[a] \in Inside \/ kind[a] # "d"
        /\ m \in Inside \union Waiting =>
             pc[a] \in Inside \union Waiting \/ early[a] # "no"
  <2> USE DEF PCs, Looking, Unasked, Away, Inside, Waiting
  <2>1. CASE TestContinue(a)
    BY <1>0, <2>1 DEF TestContinue
  <2>2. CASE Pause(a) \/ EnterAttacher(a) \/ Nap(a) \/ Alarm(a)
    BY <1>0, <2>2 DEF Pause, EnterAttacher, Nap, Alarm
  <2>3. CASE FinitLook(a)
    BY <2>3 DEF FinitLook
  <2>4. CASE ResumeEarly(a)
    <3>1. pc[a] = "frozen" /\ Goto(a, early[a])
      BY <2>4 DEF ResumeEarly
    <3>2. early[a] \in PCs /\ early[a] \notin Unasked /\ early[a] # "no"
      BY <1>0, <3>1 DEF TypeOK, OrderSound
    <3>3. kind[a] # "d"
      BY <1>0, <3>1 DEF Told
    <3>4. QED
      BY <3>1, <3>2, <3>3
  <2>5. QED
    BY <2>1, <2>2, <2>3, <2>4
<1>3. PICK m \in PCs :
        /\ Goto(a, m)
        /\ pc[a] \notin Looking /\ m \notin Unasked
        /\ m \in Away => pc[a] = "frozen"
        /\ m = "frozen" => pc[a] = "frozen"
        /\ m \in Inside => pc[a] \in Inside \/ kind[a] # "d"
        /\ m \in Inside \union Waiting =>
             pc[a] \in Inside \union Waiting \/ early[a] # "no"
  BY <1>2
<1>4. /\ TypeOK' /\ pc' = [pc EXCEPT ![a] = m]
      /\ \A b \in Attachers : pc'[b] = IF b = a THEN m ELSE pc[b]
  <2>1. /\ UNCHANGED <<up, displays, mode, accepting, kind, tty, hungup>>
        /\ backlog' \in Seq(ConnectionType)
        /\ dflag' \in [Attachers -> BOOLEAN] /\ returns' \in [Attachers -> Nat]
        /\ pend' \in [Attachers -> SUBSET Signals] /\ flags' \in [Attachers -> SUBSET Flags]
        /\ early' \in [Attachers -> PCs \union {"no"}]
    BY <1>0, <1>1 DEF server, TypeOK, ConnectionType
  <2>2. QED
    BY <1>0, <1>1, <1>3, <2>1, GotoTyped
<1>5. UNCHANGED <<up, displays, mode, backlog, accepting, kind, tty, pend, flags, early>>
  BY <1>1 DEF server
<1>6. Told(a)' => Told(a)
  BY <1>3, <1>4, <1>5 DEF Told, Stopping, Away
<1>7. OrderSound(a)'
  BY <1>0, <1>3, <1>4, <1>5 DEF OrderSound, Stopping, Away
<1>8. Expecting(a)' => Expecting(a) /\ (Signalled(a) => Signalled(a)')
  BY <1>3, <1>4, <1>5 DEF Expecting, Signalled, Stopping, Alone
<1>9. QED
  BY <1>3, <1>4, <1>5, <1>6, <1>7, <1>8, StepKeeps

\* A connection comes: a look at the mode, a request of an attacher that comes
\* back, or the news that its terminal hung up.
LEMMA ConnectKeeps ==
  ASSUME IInv, TypeOK', NEW a \in Attachers, NEW l \in PCs, NEW c \in ConnectionType,
         pc' = [pc EXCEPT ![a] = l],
         UNCHANGED <<up, displays, mode, accepting, kind, tty, pend, flags, early>>,
         up, c.pid = a, backlog' = Append(backlog, c), ConnectionSound(c)',
         pc[a] \notin Looking, l \in Looking <=> c.open, l \notin Away, l # "shell",
         l \in Looking => pc[a] = "shell",
         c.data.type \in Requests => pc[a] \in {"stopped", "locked"} /\ l \notin Unasked,
         l \in Inside => kind[a] # "d",
         l \in Inside \union Waiting => c.data.type \in Requests
  PROVE  IInv'
<1> DEFINE n == Len(backlog)
<1>0. backlog \in Seq(ConnectionType) /\ pc \in [Attachers -> PCs] /\ pc[a] \in PCs
  BY DEF IInv, TypeOK, ConnectionType
<1>1. /\ n \in Nat /\ Len(backlog') = n + 1 /\ backlog' # <<>>
      /\ \A i \in 1 .. n : backlog'[i] = backlog[i]
      /\ backlog'[n + 1] = c
  BY <1>0, AppendShape
<1>2. \A b \in Attachers : pc'[b] = IF b = a THEN l ELSE pc[b]
  BY <1>0
<1>3. \A i \in 1 .. n : backlog[i] \in ConnectionType /\ backlog[i].pid \in Attachers
                        /\ ConnectionSound(backlog[i])
  <2>1. \A i \in 1 .. n : backlog[i] \in ConnectionType
    BY <1>0, ElementOfSeq
  <2>2. \A i \in 1 .. n : ConnectionSound(backlog[i])
    BY DEF IInv, ConnectionsSound
  <2>3. QED
    BY <2>1, <2>2 DEF ConnectionType
<1>4. \A i \in 1 .. n : backlog[i].open => backlog[i].pid # a
  BY <1>3 DEF ConnectionSound
<1>5. \A b \in Attachers :
        Asking(b)' <=> Asking(b) \/ (b = a /\ c.data.type \in Requests)
  <2> SUFFICES ASSUME NEW b \in Attachers
               PROVE  Asking(b)' <=> Asking(b) \/ (b = a /\ c.data.type \in Requests)
    OBVIOUS
  <2>1. Asking(b)' <=> \E i \in 1 .. n + 1 : backlog'[i].pid = b /\ backlog'[i].data.type \in Requests
    BY <1>1 DEF Asking
  <2>2. ASSUME Asking(b)' PROVE Asking(b) \/ (b = a /\ c.data.type \in Requests)
    <3>1. PICK i \in 1 .. n + 1 : backlog'[i].pid = b /\ backlog'[i].data.type \in Requests
      BY <2>1, <2>2
    <3>2. CASE i \in 1 .. n
      BY <1>1, <3>1, <3>2 DEF Asking
    <3>3. CASE i = n + 1
      <4>1. backlog'[i] = c
        BY <1>1, <3>3
      <4>2. QED
        BY <3>1, <4>1
    <3>4. QED
      BY <1>1, <3>2, <3>3
  <2>3. Asking(b) => Asking(b)'
    BY <1>1, <2>1 DEF Asking
  <2>4. n + 1 \in 1 .. n + 1
    BY <1>1
  <2>5. b = a /\ c.data.type \in Requests => Asking(b)'
    BY <1>1, <2>1, <2>4
  <2>6. QED
    BY <2>2, <2>3, <2>5
<1> HIDE DEF n
<1>6. /\ OrderSound(a)
      /\ Told(a) => pc[a] \notin Unasked /\ kind[a] # "d" /\ ~Asking(a) /\ ~Displayed(a)
      /\ Asking(a) => pc[a] \notin Unasked
      /\ Displayed(a) => pc[a] \notin Unasked
  BY DEF IInv, OneOrder, OnePlace
<1>7. /\ Stopping(a)' <=> Stopping(a)
      /\ Displayed(a)' <=> Displayed(a)
      /\ Told(a)' => Told(a)
      /\ c.data.type \in Requests => Told(a) /\ ~Told(a)'
  BY <1>2, <1>6 DEF Told, Stopping, Displayed, OrderSound, Away
<1>8. \A b \in Attachers \ {a} :
        /\ Told(b)' <=> Told(b)
        /\ OrderSound(b)' <=> OrderSound(b)
        /\ Signalled(b)' <=> Signalled(b)
        /\ Expecting(b)' <=> Expecting(b)
        /\ Displayed(b)' <=> Displayed(b)
  BY <1>2 DEF Told, Stopping, OrderSound, Signalled, Expecting, Alone, Displayed
<1>9. ServerSound'
  BY <1>1 DEF IInv, ServerSound
<1>10. ConnectionsSound'
  <2>1. ASSUME NEW i \in 1 .. n PROVE ConnectionSound(backlog[i])'
    <3>1. backlog'[i] = backlog[i] /\ ConnectionSound(backlog[i])
          /\ (backlog[i].open => backlog[i].pid # a) /\ backlog[i].pid \in Attachers
      BY <1>1, <1>3, <1>4
    <3>2. QED
      BY <1>2, <3>1 DEF ConnectionSound
  <2>2. \A i \in 1 .. n + 1 : i \in 1 .. n \/ i = n + 1
    BY <1>1
  <2>3. QED
    BY <1>1, <2>1, <2>2 DEF ConnectionsSound, ConnectionSound
<1>11. OneConnection'
  <2>1. \A i, j \in 1 .. n + 1 : backlog'[i].pid = backlog'[j].pid /\ backlog'[i].open
                                 /\ backlog'[j].open => i = j
    BY <1>1, <1>4 DEF IInv, OneConnection
  <2>2. \A i, j \in 1 .. n + 1 :
          /\ backlog'[i].pid = backlog'[j].pid
          /\ backlog'[i].data.type \in Requests /\ backlog'[j].data.type \in Requests
          => i = j
    <3>1. \A i \in 1 .. n :
            ~(backlog[i].pid = a /\ backlog[i].data.type \in Requests /\ c.data.type \in Requests)
      BY <1>6, <1>7 DEF Asking, n
    <3>2. QED
      BY <1>1, <3>1 DEF IInv, OneConnection, n
  <2>3. ASSUME NEW b \in Attachers, pc'[b] \in Looking
        PROVE  \E i \in 1 .. n + 1 : backlog'[i].pid = b /\ backlog'[i].open
    <3>1. CASE b = a
      BY <1>1, <1>2, <2>3, <3>1
    <3>2. CASE b # a
      <4>1. pc[b] \in Looking
        BY <1>2, <2>3, <3>2
      <4>2. PICK i \in 1 .. n : backlog[i].pid = b /\ backlog[i].open
        BY <4>1 DEF IInv, OneConnection, n
      <4>3. QED
        BY <1>1, <4>2
    <3>3. QED
      BY <3>1, <3>2
  <2>4. QED
    BY <1>1, <2>1, <2>2, <2>3 DEF OneConnection
<1>12. DisplaysWell'
  BY DEF IInv, DisplaysWell, DisplaySound
<1>13. OnePlace'
  <2> SUFFICES ASSUME NEW b \in Attachers
               PROVE  /\ Asking(b)' => pc'[b] \notin Unasked /\ ~Displayed(b)' /\ ~Told(b)'
                      /\ Displayed(b)' => pc'[b] \notin Unasked /\ ~Told(b)'
                      /\ Told(b)' => pc'[b] \notin Unasked /\ kind'[b] # "d"
    BY DEF OnePlace
  <2>1. CASE b = a
    <3>1. ~Told(a) => ~Told(a)'
      BY <1>7
    <3>2. /\ Asking(a) => ~Displayed(a) /\ ~Told(a)
          /\ Displayed(a) => ~Told(a)
      BY DEF IInv, OnePlace
    <3>3. pc[a] \notin Unasked => l \notin Unasked
      BY DEF Unasked, Looking
    <3>4. pc'[a] = l /\ kind' = kind
      BY <1>2
    <3>5. CASE c.data.type \in Requests
      BY <1>6, <1>7, <2>1, <3>4, <3>5
    <3>6. CASE c.data.type \notin Requests
      <4>1. Asking(a)' <=> Asking(a)
        BY <1>5, <3>6
      <4>2. QED
        BY <1>6, <1>7, <2>1, <3>1, <3>2, <3>3, <3>4, <4>1
    <3>7. QED
      BY <3>5, <3>6
  <2>2. CASE b # a
    BY <1>2, <1>5, <1>8, <2>2 DEF IInv, OnePlace
  <2>3. QED
    BY <2>1, <2>2
<1>14. OneOrder'
  <2>1. l \in Unasked => pc[a] \in Unasked
    BY DEF Unasked, Looking
  <2>2. OrderSound(a)'
    BY <1>2, <1>6, <1>7, <2>1 DEF OrderSound, Away
  <2>3. QED
    BY <1>8, <2>2 DEF IInv, OneOrder
<1>15. NoneForgotten'
  <2> SUFFICES ASSUME NEW b \in Attachers
               PROVE  /\ pc'[b] \in Inside => kind'[b] # "d"
                      /\ up' /\ Expecting(b)' => Asking(b)' \/ Displayed(b)' \/ Signalled(b)'
    BY DEF NoneForgotten
  <2>1. CASE b = a
    <3>1. pc'[a] = l /\ kind' = kind
      BY <1>2
    <3>2. c.data.type \in Requests => Asking(a)'
      BY <1>5
    <3>3. Expecting(a)' => l \in Inside \union Waiting
      BY <3>1 DEF Expecting
    <3>4. QED
      BY <2>1, <3>1, <3>2, <3>3
  <2>2. CASE b # a
    BY <1>2, <1>5, <1>8, <2>2 DEF IInv, NoneForgotten
  <2>3. QED
    BY <2>1, <2>2
<1>16. QED
  BY <1>9, <1>10, <1>11, <1>12, <1>13, <1>14, <1>15 DEF IInv

\* FindSocket leaves a connection that is open, or closed already.
LEMMA FindSocketKeeps ==
  ASSUME IInv, NEW a \in Attachers, FindSocket(a)
  PROVE  IInv'
<1>0. Suits(a) \in BOOLEAN
  BY DEF Suits
<1>1. PICK open \in BOOLEAN : open = Suits(a)
  BY <1>0
<1> DEFINE l == IF open THEN "found" ELSE "exited"
           c == [pid |-> a, data |-> NoData, open |-> open]
<1>2. TypeOK /\ pc[a] = "shell" /\ up /\ backlog' = Append(backlog, c) /\ Goto(a, l)
      /\ UNCHANGED <<up, displays, mode, accepting, kind, tty, dflag, handlers, pend, flags, cont,
                     early, hungup, returns>>
  BY <1>1 DEF FindSocket, IInv
<1>3. l \in PCs /\ (l = "found" <=> open) /\ (l = "exited" <=> ~open)
  BY DEF PCs
<1>4. c \in ConnectionType /\ c.pid = a /\ c.data = NoData /\ c.open = open
  BY DEF ConnectionType
<1> HIDE DEF l, c
<1>5. backlog' \in Seq(ConnectionType)
  BY <1>2, <1>4, AppendShape DEF TypeOK, ConnectionType
<1>6. /\ TypeOK' /\ pc' = [pc EXCEPT ![a] = l]
      /\ \A b \in Attachers : pc'[b] = IF b = a THEN l ELSE pc[b]
  <2>1. /\ dflag' \in [Attachers -> BOOLEAN] /\ handlers' \in [Attachers -> BOOLEAN]
        /\ cont' \in [Attachers -> BOOLEAN] /\ returns' \in [Attachers -> Nat]
        /\ pend' \in [Attachers -> SUBSET Signals] /\ flags' \in [Attachers -> SUBSET Flags]
        /\ early' \in [Attachers -> PCs \union {"no"}]
    BY <1>2 DEF TypeOK
  <2>2. QED
    BY <1>2, <1>3, <1>5, <2>1, GotoTyped
<1>7. NoData.type \notin Requests
  BY DEF NoData, Requests
<1>8. /\ pc[a] \notin Looking /\ l \notin Away /\ l # "shell" /\ l \notin Inside \union Waiting
      /\ l \in Looking <=> c.open
  BY <1>2, <1>3, <1>4 DEF Looking, Away, Inside, Waiting
<1>9. ConnectionSound(c)'
  <2>1. c.open => pc'[c.pid] \in Looking
    BY <1>4, <1>6, <1>8
  <2>2. QED
    BY <1>4, <1>7, <2>1 DEF ConnectionSound
<1>10. /\ l \in Looking => pc[a] = "shell"
       /\ c.data.type \in Requests => pc[a] \in {"stopped", "locked"} /\ l \notin Unasked
       /\ l \in Inside => kind[a] # "d"
       /\ l \in Inside \union Waiting => c.data.type \in Requests
  BY <1>2, <1>4, <1>7, <1>8
<1>11. QED
  BY <1>2, <1>3, <1>4, <1>6, <1>8, <1>9, <1>10, ConnectKeeps

\* An attacher comes back and asks again.
LEMMA SendContKeeps ==
  ASSUME IInv, NEW a \in Attachers, pc[a] \in {"stopped", "locked"}, SendCont(a)
  PROVE  IInv'
<1>0. TypeOK /\ Told(a) /\ kind[a] # "d" /\ pc[a] \notin Looking /\ OrderSound(a)
  BY DEF IInv, Told, OnePlace, Away, Looking, OneOrder
<1>1. /\ UNCHANGED <<up, displays, mode, accepting, kind, tty, dflag, handlers, pend, flags, cont,
                     early, hungup>>
      /\ returns' \in [Attachers -> Nat]
  BY <1>0 DEF SendCont, TypeOK
<1>2. /\ dflag' \in [Attachers -> BOOLEAN] /\ handlers' \in [Attachers -> BOOLEAN]
      /\ cont' \in [Attachers -> BOOLEAN]
      /\ pend' \in [Attachers -> SUBSET Signals] /\ flags' \in [Attachers -> SUBSET Flags]
      /\ early' \in [Attachers -> PCs \union {"no"}]
  BY <1>0, <1>1 DEF TypeOK
<1>3. CASE up
  <2> DEFINE l == IF a \in Guests THEN "test" ELSE "awake"
             m == Message("MSG_CONT", a, FALSE)
             c == [pid |-> a, data |-> m, open |-> FALSE]
  <2>1. backlog' = Append(backlog, c) /\ Goto(a, l)
    BY <1>3 DEF SendCont
  <2>2. /\ m \in Messages /\ m.type = "MSG_CONT" /\ m.pid = a /\ m # NoData
    BY DEF Message, Messages, NoData
  <2>3. l \in PCs /\ l \in Inside \union Waiting
        /\ l \notin Away /\ l \notin Looking /\ l \notin Unasked /\ l # "shell"
    BY DEF PCs, Inside, Waiting, Away, Looking, Unasked
  <2> HIDE DEF l, m
  <2>4. c \in ConnectionType /\ c.pid = a /\ c.data = m /\ c.open = FALSE
    BY <2>2 DEF ConnectionType
  <2> HIDE DEF c
  <2>5. backlog' \in Seq(ConnectionType)
    BY <1>0, <2>1, <2>4, AppendShape DEF TypeOK, ConnectionType
  <2>6. TypeOK' /\ pc' = [pc EXCEPT ![a] = l]
    BY <1>0, <1>1, <1>2, <2>1, <2>3, <2>5, GotoTyped
  <2>7. ConnectionSound(c)'
    BY <1>0, <1>1, <2>2, <2>4 DEF ConnectionSound
  <2>8. c.data.type \in Requests
    BY <2>2, <2>4 DEF Requests
  <2>9. QED
    BY <1>0, <1>1, <1>3, <2>1, <2>3, <2>4, <2>6, <2>7, <2>8, ConnectKeeps
<1>4. CASE ~up
  <2>1. Goto(a, "exited") /\ UNCHANGED backlog
    BY <1>4 DEF SendCont
  <2>2. "exited" \in PCs /\ "exited" \notin Unasked /\ "exited" \notin Inside \union Waiting
        /\ "exited" \notin Away
    BY DEF PCs, Unasked, Inside, Waiting, Away
  <2>3. /\ TypeOK' /\ pc' = [pc EXCEPT ![a] = "exited"]
        /\ \A b \in Attachers : pc'[b] = IF b = a THEN "exited" ELSE pc[b]
    <3>1. backlog' \in Seq(ConnectionType)
      BY <1>0, <2>1 DEF TypeOK, ConnectionType
    <3>2. QED
      BY <1>0, <1>1, <1>2, <2>1, <2>2, <3>1, GotoTyped
  <2>4. OrderSound(a)'
    BY <1>0, <1>1, <2>2, <2>3 DEF OrderSound, Stopping, Away
  <2>5. ~Expecting(a)'
    BY <2>2, <2>3 DEF Expecting
  <2>6. QED
    BY <1>0, <1>1, <2>1, <2>2, <2>3, <2>4, <2>5, StepKeeps
<1>5. QED
  BY <1>3, <1>4

\* The terminal hung up, and the server is told so.
LEMMA FinitSendKeeps ==
  ASSUME IInv, NEW a \in Attachers, FinitSend(a)
  PROVE  IInv'
<1> DEFINE m == Message("MSG_HANGUP", a, FALSE)
           c == [pid |-> a, data |-> m, open |-> FALSE]
<1>1. /\ TypeOK /\ pc[a] = "hangup" /\ Goto(a, "exited")
      /\ backlog' = IF up THEN Append(backlog, c) ELSE backlog
      /\ UNCHANGED <<up, displays, mode, accepting, kind, tty, dflag, handlers, pend, flags, cont,
                     early, hungup, returns>>
  BY DEF FinitSend, IInv
<1>2. /\ m \in Messages /\ m.type = "MSG_HANGUP" /\ m.pid = a /\ m # NoData
      /\ m.type \notin Requests
  BY DEF Message, Messages, NoData, Requests
<1> HIDE DEF m
<1>3. c \in ConnectionType /\ c.pid = a /\ c.data = m /\ c.open = FALSE
  BY <1>2 DEF ConnectionType
<1> HIDE DEF c
<1>4. backlog' \in Seq(ConnectionType)
  BY <1>1, <1>3, AppendShape DEF TypeOK, ConnectionType
<1>5. "exited" \in PCs /\ "exited" \notin Unasked /\ "exited" \notin Inside \union Waiting
      /\ "exited" \notin Away /\ "exited" \notin Looking /\ "hangup" \notin Looking
  BY DEF PCs, Unasked, Inside, Waiting, Away, Looking
<1>6. /\ TypeOK' /\ pc' = [pc EXCEPT ![a] = "exited"]
      /\ \A b \in Attachers : pc'[b] = IF b = a THEN "exited" ELSE pc[b]
  <2>1. /\ dflag' \in [Attachers -> BOOLEAN] /\ handlers' \in [Attachers -> BOOLEAN]
        /\ cont' \in [Attachers -> BOOLEAN] /\ returns' \in [Attachers -> Nat]
        /\ pend' \in [Attachers -> SUBSET Signals] /\ flags' \in [Attachers -> SUBSET Flags]
        /\ early' \in [Attachers -> PCs \union {"no"}]
    BY <1>1 DEF TypeOK
  <2>2. QED
    BY <1>1, <1>4, <1>5, <2>1, GotoTyped
<1>7. CASE up
  <2>1. ConnectionSound(c)'
    BY <1>2, <1>3 DEF ConnectionSound
  <2>2. backlog' = Append(backlog, c) /\ c.data.type \notin Requests
    BY <1>1, <1>2, <1>3, <1>7
  <2>3. QED
    BY <1>1, <1>3, <1>5, <1>6, <1>7, <2>1, <2>2, ConnectKeeps
<1>8. CASE ~up
  <2>1. backlog' = backlog
    BY <1>1, <1>8
  <2>2. /\ OrderSound(a)
        /\ Told(a)' => Told(a)
    BY <1>1, <1>5, <1>6 DEF Told, Stopping, IInv, OneOrder
  <2>3. OrderSound(a)' /\ ~Expecting(a)'
    BY <1>1, <1>5, <1>6, <2>2 DEF OrderSound, Stopping, Expecting, Away
  <2>4. QED
    BY <1>1, <1>5, <1>6, <1>8, <2>1, <2>2, <2>3, StepKeeps
<1>9. QED
  BY <1>7, <1>8

\* After the pause the attacher goes, follows an order, or sleeps again.
LEMMA AwakeKeeps ==
  ASSUME IInv, NEW a \in Attachers, Awake(a)
  PROVE  IInv'
<1>0. /\ TypeOK /\ pc[a] = "awake" /\ OrderSound(a)
      /\ "awake" \in Inside /\ "awake" \notin Looking /\ kind[a] # "d"
  BY DEF Awake, IInv, OneOrder, Inside, Looking, NoneForgotten
<1>1. UNCHANGED <<server, kind, tty, dflag, handlers, pend, cont, early, hungup, returns>>
  BY DEF Awake
<1>2. /\ up' = up /\ backlog' = backlog
      /\ UNCHANGED <<up, displays, mode, accepting, kind, tty, hungup>>
      /\ backlog' \in Seq(ConnectionType)
      /\ dflag' \in [Attachers -> BOOLEAN] /\ handlers' \in [Attachers -> BOOLEAN]
      /\ cont' \in [Attachers -> BOOLEAN] /\ returns' \in [Attachers -> Nat]
      /\ pend' \in [Attachers -> SUBSET Signals] /\ pend' = pend /\ early' = early
      /\ early' \in [Attachers -> PCs \union {"no"}]
      /\ flags \in [Attachers -> SUBSET Flags]
  BY <1>0, <1>1 DEF server, TypeOK, ConnectionType
<1>3. ASSUME NEW l \in {"exited", "prenap"}, Goto(a, l), UNCHANGED flags PROVE IInv'
  <2>1. l \in PCs /\ l \notin Unasked /\ l \notin Away /\ l # "frozen" /\ "awake" \notin Away
    BY DEF PCs, Unasked, Away
  <2>2. /\ TypeOK' /\ pc' = [pc EXCEPT ![a] = l]
        /\ \A b \in Attachers : pc'[b] = IF b = a THEN l ELSE pc[b]
    BY <1>0, <1>2, <1>3, <2>1, GotoTyped
  <2>3. /\ Told(a)' => Told(a)
        /\ OrderSound(a)'
    BY <1>0, <1>2, <1>3, <2>1, <2>2 DEF Told, Stopping, OrderSound
  <2>4. Expecting(a)' => Expecting(a) /\ (Signalled(a) => Signalled(a)')
    BY <1>0, <1>2, <1>3, <2>2 DEF Expecting, Signalled, Stopping, Alone
  <2>5. QED
    BY <1>0, <1>2, <1>3, <2>1, <2>2, <2>3, <2>4, StepKeeps
<1>4. ASSUME NEW f \in Flags, NEW l \in {"stopped", "locked"}, f \in flags[a],
             Goto(a, l), flags' = [flags EXCEPT ![a] = @ \ {f}]
      PROVE  IInv'
  <2>1. l \in PCs /\ l \notin Unasked /\ l # "frozen" /\ l \notin Inside \union Waiting
    BY DEF PCs, Unasked, Inside, Waiting
  <2>2. /\ flags' \in [Attachers -> SUBSET Flags]
        /\ \A b \in Attachers \ {a} : flags'[b] = flags[b]
        /\ flags'[a] = flags[a] \ {f}
    BY <1>2, <1>4
  <2>3. /\ TypeOK' /\ pc' = [pc EXCEPT ![a] = l]
        /\ \A b \in Attachers : pc'[b] = IF b = a THEN l ELSE pc[b]
    BY <1>0, <1>2, <1>4, <2>1, <2>2, GotoTyped
  <2>4. Told(a) /\ ~Stopping(a) /\ flags'[a] = {}
    BY <1>0, <1>2, <1>4, <2>2 DEF Told, OrderSound, Flags
  <2>5. OrderSound(a)'
    BY <1>2, <2>1, <2>3, <2>4 DEF OrderSound, Stopping
  <2>6. ~Expecting(a)' /\ (l \in Inside => pc[a] \in Inside \/ kind[a] # "d")
    BY <2>1, <2>3 DEF Expecting
  <2>7. QED
    BY <1>0, <1>2, <2>1, <2>2, <2>3, <2>4, <2>5, <2>6, StepKeeps
<1>5. /\ "exited" \in {"exited", "prenap"} /\ "prenap" \in {"exited", "prenap"}
      /\ "stopped" \in {"stopped", "locked"} /\ "locked" \in {"stopped", "locked"}
      /\ "SuspendPlease" \in Flags /\ "LockPlease" \in Flags
  BY DEF Flags
<1>6. CASE ~up
  <2>1. Goto(a, "exited") /\ UNCHANGED flags
    BY <1>6 DEF Awake
  <2>2. QED
    BY <1>3, <1>5, <2>1
<1>7. CASE up /\ "SuspendPlease" \in flags[a]
  <2>1. Goto(a, "stopped") /\ flags' = [flags EXCEPT ![a] = @ \ {"SuspendPlease"}]
    BY <1>7 DEF Awake
  <2>2. QED
    BY <1>4, <1>5, <1>7, <2>1
<1>8. CASE up /\ "SuspendPlease" \notin flags[a] /\ "LockPlease" \in flags[a]
  <2>1. Goto(a, "locked") /\ flags' = [flags EXCEPT ![a] = @ \ {"LockPlease"}]
    BY <1>8 DEF Awake
  <2>2. QED
    BY <1>4, <1>5, <1>8, <2>1
<1>9. CASE up /\ "SuspendPlease" \notin flags[a] /\ "LockPlease" \notin flags[a]
  <2>1. Goto(a, "prenap") /\ UNCHANGED flags
    BY <1>9 DEF Awake
  <2>2. QED
    BY <1>3, <1>5, <2>1
<1>10. QED
  BY <1>6, <1>7, <1>8, <1>9

\* The second look at the mode: the attacher goes on to write, or leaves.
LEMMA CheckModeKeeps ==
  ASSUME IInv, NEW a \in Attachers, CheckMode(a)
  PROVE  IInv'
<1>0. /\ TypeOK /\ pc[a] = "found" /\ OrderSound(a) /\ "found" \in Looking
      /\ UNCHANGED <<up, displays, mode, accepting, kind, tty, handlers, pend, flags, cont, early,
                     hungup, returns>>
      /\ handlers' \in [Attachers -> BOOLEAN]
      /\ cont' \in [Attachers -> BOOLEAN] /\ returns' \in [Attachers -> Nat]
      /\ pend' \in [Attachers -> SUBSET Signals] /\ flags' \in [Attachers -> SUBSET Flags]
      /\ early' \in [Attachers -> PCs \union {"no"}]
  BY DEF CheckMode, IInv, OneOrder, Looking, TypeOK
<1>1. CASE Goto(a, "exited") /\ Connection(a, NoData, FALSE) /\ UNCHANGED dflag
  <2>1. "exited" \in PCs /\ "exited" \notin Unasked /\ "exited" \notin Inside \union Waiting
        /\ "exited" \notin Away
    BY DEF PCs, Unasked, Inside, Waiting, Away
  <2>2. /\ TypeOK' /\ pc' = [pc EXCEPT ![a] = "exited"]
        /\ \A b \in Attachers : pc'[b] = IF b = a THEN "exited" ELSE pc[b]
    <3>1. dflag' \in [Attachers -> BOOLEAN] /\ backlog \in Seq(ConnectionType)
          /\ NoData \in Messages \union {NoData} /\ FALSE \in BOOLEAN
      BY <1>0, <1>1 DEF TypeOK, ConnectionType
    <3>2. backlog' \in Seq(ConnectionType)
      BY <1>1, <3>1, ConnectionShape
    <3>3. QED
      BY <1>0, <1>1, <2>1, <3>1, <3>2, GotoTyped
  <2>3. /\ Told(a)' => Told(a)
        /\ OrderSound(a)'
    BY <1>0, <2>1, <2>2 DEF Told, Stopping, OrderSound, Away
  <2>4. ~Expecting(a)'
    BY <2>1, <2>2 DEF Expecting
  <2>5. QED
    BY <1>0, <1>1, <2>1, <2>2, <2>3, <2>4, StepKeeps
<1>2. CASE Goto(a, "ready") /\ dflag' \in [Attachers -> BOOLEAN] /\ UNCHANGED backlog
  <2>1. "ready" \in PCs /\ "ready" \in Looking /\ "ready" \in Unasked
        /\ "ready" \notin Inside \union Waiting /\ "ready" \notin Away
        /\ "found" \in Unasked /\ "found" \notin Away /\ "found" \notin Inside \union Waiting
    BY DEF PCs, Looking, Unasked, Inside, Waiting, Away
  <2>2. /\ TypeOK' /\ pc' = [pc EXCEPT ![a] = "ready"]
        /\ \A b \in Attachers : pc'[b] = IF b = a THEN "ready" ELSE pc[b]
    <3>1. backlog' \in Seq(ConnectionType)
      BY <1>0, <1>2 DEF TypeOK, ConnectionType
    <3>2. QED
      BY <1>0, <1>2, <2>1, <3>1, GotoTyped
  <2>3. \A b \in Attachers :
          /\ (pc'[b] \in Looking <=> pc[b] \in Looking)
          /\ (pc'[b] \in Unasked <=> pc[b] \in Unasked)
          /\ (pc'[b] \in Inside <=> pc[b] \in Inside)
          /\ (pc'[b] \in Inside \union Waiting <=> pc[b] \in Inside \union Waiting)
          /\ (pc'[b] \in Away <=> pc[b] \in Away)
          /\ (pc'[b] = "frozen" <=> pc[b] = "frozen")
    BY <1>0, <2>1, <2>2
  <2>4. \A b \in Attachers :
          /\ (Asking(b)' <=> Asking(b)) /\ (Displayed(b)' <=> Displayed(b))
          /\ (Told(b)' <=> Told(b)) /\ (OrderSound(b)' <=> OrderSound(b))
          /\ (Signalled(b)' <=> Signalled(b)) /\ (Expecting(b)' <=> Expecting(b))
    BY <1>0, <1>2, <2>3 DEF Asking, Displayed, Told, Stopping, OrderSound, Signalled, Expecting, Alone
  <2>5. \A i \in 1 .. Len(backlog) : backlog[i].pid \in Attachers
    <3>1. \A i \in 1 .. Len(backlog) : backlog[i] \in ConnectionType
      BY <1>0, ElementOfSeq DEF TypeOK, ConnectionType
    <3>2. QED
      BY <3>1 DEF ConnectionType
  <2>6. ServerSound' /\ ConnectionsSound' /\ OneConnection' /\ DisplaysWell'
    <3>1. ServerSound' /\ DisplaysWell'
      BY <1>0, <1>2 DEF IInv, ServerSound, DisplaysWell, DisplaySound
    <3>2. OneConnection'
      BY <1>0, <1>2, <2>3 DEF IInv, OneConnection
    <3>3. ASSUME NEW i \in 1 .. Len(backlog) PROVE ConnectionSound(backlog[i])'
      <4>1. ConnectionSound(backlog[i]) /\ backlog[i].pid \in Attachers
        BY <2>5 DEF IInv, ConnectionsSound
      <4>2. QED
        BY <1>0, <1>2, <2>3, <4>1 DEF ConnectionSound
    <3>4. QED
      BY <1>2, <3>1, <3>2, <3>3 DEF ConnectionsSound
  <2>7. OnePlace' /\ OneOrder' /\ NoneForgotten'
    BY <1>0, <2>3, <2>4 DEF IInv, OnePlace, OneOrder, NoneForgotten
  <2>8. QED
    BY <2>2, <2>6, <2>7 DEF IInv
<1>3. QED
  BY <1>0, <1>1, <1>2 DEF CheckMode, TypeOK

\* The message is written: the open connection holds a request now.
LEMMA SendKeeps ==
  ASSUME IInv, NEW a \in Attachers, Send(a)
  PROVE  IInv'
<1>0. /\ TypeOK /\ pc[a] = "ready" /\ "ready" \in Looking /\ "ready" \in Unasked
      /\ UNCHANGED <<up, displays, mode, accepting, kind, tty, dflag, handlers, pend, flags, cont,
                     early, hungup, returns>>
      /\ dflag' \in [Attachers -> BOOLEAN] /\ handlers' \in [Attachers -> BOOLEAN]
      /\ cont' \in [Attachers -> BOOLEAN] /\ returns' \in [Attachers -> Nat]
      /\ pend' \in [Attachers -> SUBSET Signals] /\ flags' \in [Attachers -> SUBSET Flags]
      /\ early' \in [Attachers -> PCs \union {"no"}]
      /\ backlog \in Seq(ConnectionType)
  BY DEF Send, IInv, Looking, Unasked, TypeOK, ConnectionType
<1>1. OrderSound(a) /\ ~Told(a) /\ ~Displayed(a) /\ ~Asking(a)
  BY <1>0 DEF IInv, OneOrder, OnePlace
<1>2. CASE ~up
  <2>1. Goto(a, "exited") /\ UNCHANGED backlog
    BY <1>2 DEF Send
  <2>2. "exited" \in PCs /\ "exited" \notin Unasked /\ "exited" \notin Inside \union Waiting
        /\ "exited" \notin Away
    BY DEF PCs, Unasked, Inside, Waiting, Away
  <2>3. /\ TypeOK' /\ pc' = [pc EXCEPT ![a] = "exited"]
        /\ \A b \in Attachers : pc'[b] = IF b = a THEN "exited" ELSE pc[b]
    BY <1>0, <2>1, <2>2, GotoTyped
  <2>4. /\ Told(a)' => Told(a)
        /\ OrderSound(a)'
    BY <1>0, <1>1, <2>2, <2>3 DEF Told, Stopping, OrderSound, Away
  <2>5. ~Expecting(a)'
    BY <2>2, <2>3 DEF Expecting
  <2>6. QED
    BY <1>0, <1>2, <2>1, <2>2, <2>3, <2>4, <2>5, StepKeeps
<1>3. CASE up
  <2>1. PICK m \in Messages : /\ m.pid = a /\ m.type \in Requests /\ m # NoData
                              /\ m.type = "MSG_DETACH" <=> kind[a] = "d"
                              /\ Connection(a, m, FALSE)
    <3> DEFINE x == IF kind[a] = "d" THEN Message("MSG_DETACH", a, FALSE)
                    ELSE Message("MSG_ATTACH", a, dflag[a])
    <3>1. dflag[a] \in BOOLEAN
      BY <1>0 DEF TypeOK
    <3>2. x \in Messages /\ x.pid = a /\ x.type \in Requests /\ x # NoData
      BY <3>1 DEF Message, Messages, Requests, NoData
    <3>3. x.type = "MSG_DETACH" <=> kind[a] = "d"
      BY DEF Message
    <3>4. Connection(a, x, FALSE)
      BY <1>3 DEF Send
    <3> HIDE DEF x
    <3>5. QED
      BY <3>2, <3>3, <3>4
  <2>2. PICK l \in {"test", "entering"} : Goto(a, l) /\ (l = "entering" => kind[a] # "d")
    BY <1>3 DEF Send
  <2>3. /\ l \in PCs /\ l \notin Unasked /\ l \notin Looking /\ l \notin Away
        /\ l \in Inside => kind[a] # "d"
    BY <2>2 DEF PCs, Unasked, Looking, Away, Inside
  <2> DEFINE c == [pid |-> a, data |-> m, open |-> FALSE]
  <2>4. c.pid = a /\ c.data = m /\ c.open = FALSE
    OBVIOUS
  <2>5. /\ backlog' \in Seq(ConnectionType) /\ Len(backlog') = Len(backlog)
        /\ backlog = <<>> <=> backlog' = <<>>
        /\ \A i \in 1 .. Len(backlog) :
             /\ backlog[i] \in ConnectionType
             /\ backlog'[i] = IF backlog[i].pid = a /\ backlog[i].open THEN c ELSE backlog[i]
    <3>1. m \in Messages \union {NoData} /\ FALSE \in BOOLEAN
      OBVIOUS
    <3>2. QED
      BY <1>0, <2>1, <3>1, ConnectionShape
  <2> HIDE DEF c
  <2>6. /\ TypeOK' /\ pc' = [pc EXCEPT ![a] = l]
        /\ \A b \in Attachers : pc'[b] = IF b = a THEN l ELSE pc[b]
    BY <1>0, <2>2, <2>3, <2>5, GotoTyped
  <2>7. PICK n \in 1 .. Len(backlog) : backlog[n].pid = a /\ backlog[n].open
    BY <1>0, <1>3 DEF IInv, OneConnection
  <2>8. /\ backlog'[n] = c
        /\ \A i \in 1 .. Len(backlog) : i # n => backlog'[i] = backlog[i]
                                               /\ (backlog[i].pid = a => ~backlog[i].open)
    BY <2>5, <2>7 DEF IInv, OneConnection
  <2>9. \A i \in 1 .. Len(backlog) :
          /\ backlog[i].pid \in Attachers /\ backlog'[i].pid = backlog[i].pid
          /\ backlog[i].pid = a => backlog[i].data.type \notin Requests
    BY <1>1, <2>4, <2>5, <2>7, <2>8 DEF ConnectionType, Asking
  <2>10. \A b \in Attachers \ {a} : Asking(b)' <=> Asking(b)
    BY <2>5, <2>7, <2>8, <2>9 DEF Asking
  <2>11. Asking(a)'
    BY <2>1, <2>4, <2>5, <2>8 DEF Asking
  <2>12. /\ Stopping(a)' <=> Stopping(a)
         /\ ~Told(a)' /\ OrderSound(a)'
    BY <1>0, <1>1, <2>3, <2>6 DEF Told, Stopping, OrderSound, Away
  <2>13. \A b \in Attachers : Displayed(b)' <=> Displayed(b)
    BY <1>0 DEF Displayed
  <2>14. \A b \in Attachers \ {a} :
           /\ (Told(b)' <=> Told(b)) /\ (OrderSound(b)' <=> OrderSound(b))
           /\ (Signalled(b)' <=> Signalled(b)) /\ (Expecting(b)' <=> Expecting(b))
    BY <1>0, <2>6 DEF Told, Stopping, OrderSound, Signalled, Expecting, Alone
  <2>15. ServerSound' /\ DisplaysWell'
    BY <1>0, <2>5 DEF IInv, ServerSound, DisplaysWell, DisplaySound
  <2>16. ConnectionsSound'
    <3> SUFFICES ASSUME NEW i \in 1 .. Len(backlog) PROVE ConnectionSound(backlog[i])'
      BY <2>5 DEF ConnectionsSound
    <3>1. CASE i = n
      BY <1>0, <2>1, <2>4, <2>8, <3>1 DEF ConnectionSound
    <3>2. CASE i # n
      <4>1. backlog'[i] = backlog[i] /\ (backlog[i].pid = a => ~backlog[i].open)
            /\ backlog[i].pid \in Attachers
        BY <2>8, <2>9, <3>2
      <4>2. ConnectionSound(backlog[i])
        BY DEF IInv, ConnectionsSound
      <4>3. QED
        BY <1>0, <2>6, <4>1, <4>2 DEF ConnectionSound
    <3>3. QED
      BY <3>1, <3>2
  <2>17. OneConnection'
    <3>1. \A i, j \in 1 .. Len(backlog) :
            backlog'[i].pid = backlog'[j].pid /\ backlog'[i].open /\ backlog'[j].open => i = j
      BY <2>4, <2>8, <2>9 DEF IInv, OneConnection
    <3>2. \A i, j \in 1 .. Len(backlog) :
            /\ backlog'[i].pid = backlog'[j].pid
            /\ backlog'[i].data.type \in Requests /\ backlog'[j].data.type \in Requests
            => i = j
      BY <2>7, <2>8, <2>9 DEF IInv, OneConnection
    <3>3. ASSUME NEW b \in Attachers, pc'[b] \in Looking
          PROVE  \E i \in 1 .. Len(backlog) : backlog'[i].pid = b /\ backlog'[i].open
      <4>1. b # a /\ pc[b] \in Looking
        BY <2>3, <2>6, <3>3
      <4>2. PICK i \in 1 .. Len(backlog) : backlog[i].pid = b /\ backlog[i].open
        BY <1>3, <4>1 DEF IInv, OneConnection
      <4>3. QED
        BY <2>7, <2>8, <4>1, <4>2
    <3>4. QED
      BY <2>5, <3>1, <3>2, <3>3 DEF OneConnection
  <2>18. OnePlace'
    <3> SUFFICES ASSUME NEW b \in Attachers
                 PROVE  /\ Asking(b)' => pc'[b] \notin Unasked /\ ~Displayed(b)' /\ ~Told(b)'
                        /\ Displayed(b)' => pc'[b] \notin Unasked /\ ~Told(b)'
                        /\ Told(b)' => pc'[b] \notin Unasked /\ kind'[b] # "d"
      BY DEF OnePlace
    <3>1. CASE b = a
      BY <1>1, <2>3, <2>6, <2>12, <2>13, <3>1
    <3>2. CASE b # a
      BY <1>0, <2>6, <2>10, <2>13, <2>14, <3>2 DEF IInv, OnePlace
    <3>3. QED
      BY <3>1, <3>2
  <2>19. OneOrder'
    BY <2>12, <2>14 DEF IInv, OneOrder
  <2>20. NoneForgotten'
    <3> SUFFICES ASSUME NEW b \in Attachers
                 PROVE  /\ pc'[b] \in Inside => kind'[b] # "d"
                        /\ up' /\ Expecting(b)' => Asking(b)' \/ Displayed(b)' \/ Signalled(b)'
      BY DEF NoneForgotten
    <3>1. CASE b = a
      BY <1>0, <2>3, <2>6, <2>11, <3>1
    <3>2. CASE b # a
      BY <1>0, <2>6, <2>10, <2>13, <2>14, <3>2 DEF IInv, NoneForgotten
    <3>3. QED
      BY <3>1, <3>2
  <2>21. QED
    BY <2>6, <2>15, <2>16, <2>17, <2>18, <2>19, <2>20 DEF IInv
<1>4. QED
  BY <1>2, <1>3

\* Where a signal takes an attacher: not back to before it asked, and away only
\* if it was away, or if a stop signal finds no handler.
LEMMA AfterSignalShape ==
  ASSUME IInv, NEW a \in Attachers, NEW s \in pend[a],
         pc[a] \in {"stopped", "frozen"} => s = "SIG_BYE",
         NEW l, l = AfterSignal(a, s)
  PROVE  /\ l \in PCs /\ l \notin Unasked
         /\ l \in Inside => pc[a] \in Inside
         /\ l \in Inside \union Waiting =>
              /\ pc[a] \in Inside \union Waiting /\ pc[a] # "locked" /\ s \notin Byes
              /\ s \in StopSignals => handlers[a]
         /\ l \in Away => (l = "locked" /\ pc[a] = "locked")
                          \/ (l = "frozen" /\ s = "SIG_STOP" /\ ~handlers[a] /\ pc[a] \notin Away)
         /\ pc[a] \in Looking => l \in Finishing
<1>1. /\ pc[a] \in PCs /\ s \in Signals
      /\ pc[a] \in Unasked => s = "SIG_BYE"
  BY DEF IInv, TypeOK, OneOrder, OrderSound
<1> USE DEF PCs, Unasked, Looking, Inside, Waiting, Away, Byes, StopSignals, Finishing
<1>2. CASE pc[a] \in Finishing
  <2>1. l = pc[a]
    BY <1>2 DEF AfterSignal
  <2>2. QED
    BY <1>1, <1>2, <2>1
<1>3. CASE pc[a] = "locked"
  <2>1. l = IF s = "SIG_BYE" THEN "exited" ELSE "locked"
    BY <1>3 DEF AfterSignal
  <2>2. QED
    BY <1>3, <2>1
<1>4. CASE pc[a] \notin Finishing \union {"locked"}
  <2>0. l = CASE s = "SIGCONT" -> Wake(a)
              [] s = "SIG_BYE" -> "finit"
              [] s = "SIG_POWER_BYE" -> "exited"
              [] s = "SIG_LOCK" -> IF handlers[a] THEN Wake(a) ELSE "exited"
              [] s = "SIG_STOP" -> IF handlers[a] THEN Wake(a) ELSE "frozen"
    BY <1>4 DEF AfterSignal
  <2>1. CASE s = "SIG_BYE"
    <3>1. l = "finit"
      BY <2>0, <2>1
    <3>2. QED
      BY <3>1
  <2>2. CASE s = "SIG_POWER_BYE"
    <3>1. l = "exited"
      BY <2>0, <2>2
    <3>2. QED
      BY <3>1, <2>2, <1>1
  <2>3. CASE s \in {"SIGCONT", "SIG_LOCK", "SIG_STOP"}
    <3>1. pc[a] \notin Unasked \union Away \union Finishing
      BY <1>1, <1>4, <2>3
    <3>2. Wake(a) = CASE pc[a] = "nap" -> "awake" [] pc[a] = "paused" -> "test" [] OTHER -> pc[a]
      BY DEF Wake
    <3>3. /\ Wake(a) \in PCs /\ Wake(a) \notin Unasked /\ Wake(a) \notin Away
          /\ Wake(a) \in Inside => pc[a] \in Inside
          /\ Wake(a) \in Inside \union Waiting => pc[a] \in Inside \union Waiting
      <4>1. CASE pc[a] = "nap"
        BY <3>2, <4>1
      <4>2. CASE pc[a] = "paused"
        BY <3>2, <4>2
      <4>3. CASE pc[a] \notin {"nap", "paused"}
        BY <1>1, <3>1, <3>2, <4>3
      <4>4. QED
        BY <4>1, <4>2, <4>3
    <3>4. CASE s = "SIGCONT"
      <4>1. l = Wake(a)
        BY <2>0, <3>4
      <4>2. QED
        BY <3>1, <3>3, <3>4, <4>1
    <3>5. CASE s = "SIG_LOCK"
      <4>1. l = IF handlers[a] THEN Wake(a) ELSE "exited"
        BY <2>0, <3>5
      <4>2. QED
        BY <3>1, <3>3, <3>5, <4>1
    <3>6. CASE s = "SIG_STOP"
      <4>1. l = IF handlers[a] THEN Wake(a) ELSE "frozen"
        BY <2>0, <3>6
      <4>2. QED
        BY <3>1, <3>3, <3>6, <4>1
    <3>7. QED
      BY <2>3, <3>4, <3>5, <3>6
  <2>4. QED
    BY <1>1, <2>1, <2>2, <2>3 DEF Signals
<1>5. QED
  BY <1>2, <1>3, <1>4

\* A signal is delivered.
LEMMA DeliverKeeps ==
  ASSUME IInv, NEW a \in Attachers, NEW s \in Signals, Deliver(a, s)
  PROVE  IInv'
<1>0. /\ TypeOK /\ pc[a] \in PCs /\ OrderSound(a) /\ s \in pend[a]
      /\ pc[a] \in {"stopped", "frozen"} => s = "SIG_BYE"
      /\ Told(a) => pc[a] \notin Unasked
      /\ UNCHANGED <<up, displays, mode, accepting, kind, tty, dflag, handlers, hungup, returns>>
      /\ dflag' \in [Attachers -> BOOLEAN] /\ handlers' \in [Attachers -> BOOLEAN]
      /\ returns' \in [Attachers -> Nat] /\ handlers[a] \in BOOLEAN
      /\ backlog \in Seq(ConnectionType)
  BY DEF Deliver, IInv, TypeOK, OneOrder, OnePlace, ConnectionType
<1>1. PICK l : l = AfterSignal(a, s)
  OBVIOUS
<1>2. /\ l \in PCs /\ l \notin Unasked
      /\ l \in Inside => pc[a] \in Inside
      /\ l \in Inside \union Waiting =>
           /\ pc[a] \in Inside \union Waiting /\ pc[a] # "locked" /\ s \notin Byes
           /\ s \in StopSignals => handlers[a]
      /\ l \in Away => (l = "locked" /\ pc[a] = "locked")
                       \/ (l = "frozen" /\ s = "SIG_STOP" /\ ~handlers[a] /\ pc[a] \notin Away)
      /\ pc[a] \in Looking => l \in Finishing
  BY <1>0, <1>1, AfterSignalShape
<1>3. /\ Goto(a, l)
      /\ pend' = [pend EXCEPT ![a] = @ \ {s}]
      /\ flags' = [flags EXCEPT ![a] = IF handlers[a] /\ pc[a] # "locked"
                                       THEN @ \union FlagOf(s) ELSE @]
      /\ early' = [early EXCEPT ![a] = IF l = "frozen" THEN pc[a] ELSE @]
      /\ IF l \in Finishing THEN Connection(a, NoData, FALSE) ELSE UNCHANGED backlog
  BY <1>1 DEF Deliver
<1>4. FlagOf(s) \subseteq Flags /\ (s \notin StopSignals => FlagOf(s) = {})
      /\ (s \in StopSignals => FlagOf(s) # {}) /\ ~(Flags \subseteq FlagOf(s))
  BY DEF FlagOf, Flags, StopSignals
<1>5. /\ pend' \in [Attachers -> SUBSET Signals] /\ pend'[a] = pend[a] \ {s}
      /\ flags' \in [Attachers -> SUBSET Flags]
      /\ flags'[a] = IF handlers[a] /\ pc[a] # "locked" THEN flags[a] \union FlagOf(s) ELSE flags[a]
      /\ early' \in [Attachers -> PCs \union {"no"}]
      /\ early'[a] = IF l = "frozen" THEN pc[a] ELSE early[a]
      /\ \A b \in Attachers \ {a} :
           pend'[b] = pend[b] /\ flags'[b] = flags[b] /\ early'[b] = early[b]
  <2>1. /\ pend \in [Attachers -> SUBSET Signals] /\ flags \in [Attachers -> SUBSET Flags]
        /\ early \in [Attachers -> PCs \union {"no"}]
    BY <1>0 DEF TypeOK
  <2>2. /\ pend' \in [Attachers -> SUBSET Signals] /\ pend'[a] = pend[a] \ {s}
        /\ \A b \in Attachers \ {a} : pend'[b] = pend[b]
    BY <1>3, <2>1
  <2>3. /\ flags' \in [Attachers -> SUBSET Flags]
        /\ flags'[a] = IF handlers[a] /\ pc[a] # "locked" THEN flags[a] \union FlagOf(s) ELSE flags[a]
        /\ \A b \in Attachers \ {a} : flags'[b] = flags[b]
    BY <1>3, <1>4, <2>1
  <2>4. /\ early' \in [Attachers -> PCs \union {"no"}]
        /\ early'[a] = IF l = "frozen" THEN pc[a] ELSE early[a]
        /\ \A b \in Attachers \ {a} : early'[b] = early[b]
    BY <1>0, <1>3, <2>1
  <2>5. QED
    BY <2>2, <2>3, <2>4
<1>6. cont' \in [Attachers -> BOOLEAN]
  <2>1. cont' = [cont EXCEPT ![a] = cont[a] \/ (s = "SIGCONT" /\ pc[a] \in Waiting)]
    BY DEF Deliver
  <2>2. cont \in [Attachers -> BOOLEAN]
    BY <1>0 DEF TypeOK
  <2>3. (cont[a] \/ (s = "SIGCONT" /\ pc[a] \in Waiting)) \in BOOLEAN
    OBVIOUS
  <2>4. QED
    BY <2>1, <2>2, <2>3
<1>7. /\ backlog' \in Seq(ConnectionType)
      /\ (backlog' = backlog /\ (pc[a] \notin Looking \/ ~up)) \/ Connection(a, NoData, FALSE)
  <2>1. CASE l \in Finishing
    <3>1. Connection(a, NoData, FALSE)
      BY <1>3, <2>1
    <3>2. NoData \in Messages \union {NoData} /\ FALSE \in BOOLEAN
      OBVIOUS
    <3>3. QED
      BY <1>0, <3>1, <3>2, ConnectionShape
  <2>2. CASE l \notin Finishing
    BY <1>0, <1>2, <1>3, <2>2
  <2>3. QED
    BY <2>1, <2>2
<1>8. /\ TypeOK' /\ pc' = [pc EXCEPT ![a] = l]
      /\ \A b \in Attachers : pc'[b] = IF b = a THEN l ELSE pc[b]
  <2>1. UNCHANGED <<up, displays, mode, accepting, kind, tty, hungup>>
    BY <1>0
  <2>2. /\ TypeOK /\ l \in PCs /\ Goto(a, l) /\ backlog' \in Seq(ConnectionType)
        /\ dflag' \in [Attachers -> BOOLEAN] /\ handlers' \in [Attachers -> BOOLEAN]
        /\ cont' \in [Attachers -> BOOLEAN] /\ returns' \in [Attachers -> Nat]
        /\ pend' \in [Attachers -> SUBSET Signals] /\ flags' \in [Attachers -> SUBSET Flags]
        /\ early' \in [Attachers -> PCs \union {"no"}]
    BY <1>0, <1>2, <1>3, <1>5, <1>6, <1>7
  <2>3. QED
    BY <2>1, <2>2, GotoTyped
<1>9. CASE s \in StopSignals
  <2>1. /\ Told(a) /\ flags[a] = {} /\ pc[a] \notin Away /\ pc[a] \notin Unasked
        /\ ~(StopSignals \subseteq pend[a])
    BY <1>0, <1>9 DEF Told, Stopping, OrderSound
  <2>2. ~Stopping(a)'
    BY <1>0, <1>5, <1>9, <2>1 DEF Stopping, StopSignals
  <2>3. OrderSound(a)'
    <3>1. flags'[a] = {} \/ (handlers[a] /\ flags'[a] = FlagOf(s))
      BY <1>5, <2>1
    <3>2. flags'[a] # {} => l \notin Away /\ ~(Flags \subseteq flags'[a])
      BY <1>2, <1>4, <2>1, <3>1 DEF Away
    <3>3. l = "frozen" => early'[a] \notin Unasked \union {"no"}
      BY <1>0, <1>5, <2>1 DEF PCs
    <3>4. QED
      BY <1>2, <1>8, <2>2, <3>2, <3>3 DEF OrderSound
  <2>4. Expecting(a)' => Expecting(a) /\ (Signalled(a) => Signalled(a)')
    <3>1. SUFFICES ASSUME Expecting(a)' PROVE Expecting(a) /\ (Signalled(a) => Signalled(a)')
      OBVIOUS
    <3>2. l \in Inside \union Waiting /\ early'[a] = "no"
      BY <1>8, <3>1 DEF Expecting
    <3>3. l # "frozen" /\ handlers[a] /\ pc[a] # "locked" /\ flags'[a] # {}
      BY <1>2, <1>4, <1>5, <1>9, <3>2 DEF Inside, Waiting
    <3>4. QED
      BY <1>0, <1>2, <1>5, <3>1, <3>2, <3>3 DEF Expecting, Signalled, Alone
  <2>5. QED
    BY <1>0, <1>2, <1>5, <1>7, <1>8, <2>1, <2>3, <2>4, StepKeeps
<1>10. CASE s \notin StopSignals
  <2>1. flags'[a] = flags[a]
    BY <1>4, <1>5, <1>10
  <2>2. Stopping(a)' <=> Stopping(a)
    BY <1>5, <1>10 DEF Stopping
  <2>3. l # "frozen" /\ (l \in Away => pc[a] \in Away)
    BY <1>2, <1>10 DEF StopSignals, Away
  <2>4. Told(a)' => Told(a)
    BY <1>8, <2>1, <2>2, <2>3 DEF Told
  <2>5. OrderSound(a)'
    BY <1>0, <1>2, <1>5, <1>8, <2>1, <2>2, <2>3 DEF OrderSound
  <2>6. Expecting(a)' => Expecting(a) /\ (Signalled(a) => Signalled(a)')
    <3>1. SUFFICES ASSUME Expecting(a)' PROVE Expecting(a) /\ (Signalled(a) => Signalled(a)')
      OBVIOUS
    <3>2. l \in Inside \union Waiting
      BY <1>8, <3>1 DEF Expecting
    <3>3. pend'[a] \cap Byes = pend[a] \cap Byes
      BY <1>2, <1>5, <3>2
    <3>4. QED
      BY <1>0, <1>2, <1>5, <2>1, <2>2, <2>3, <3>1, <3>2, <3>3 DEF Expecting, Signalled, Alone
  <2>7. QED
    BY <1>0, <1>2, <1>5, <1>7, <1>8, <2>4, <2>5, <2>6, StepKeeps
<1>11. QED
  BY <1>9, <1>10

-----------------------------------------------------------------------------
(* The server's handlers.                                                  *)

\* A handler turns requests into displays and signals, and tells whoever loses
\* its display so.
LEMMA HandlerKeeps ==
  ASSUME IInv, TypeOK', UNCHANGED <<pc, kind, tty, flags, early>>,
         ServerSound', ConnectionsSound', OneConnection', DisplaysWell',
         \A a \in Attachers : Asking(a)' => Asking(a),
         \A a \in Attachers : Displayed(a)' => Displayed(a) \/ (Asking(a) /\ ~Asking(a)'),
         \A a \in Attachers : pc[a] \in Unasked => pend'[a] \subseteq {"SIG_BYE"},
         \A a \in Attachers :
           \/ pend'[a] \cap StopSignals = pend[a] \cap StopSignals
           \/ Displayed(a) /\ ~Displayed(a)' /\ kind[a] # "d" /\ ~(StopSignals \subseteq pend'[a]),
         \A a \in Attachers : up' => up /\ pend[a] \subseteq pend'[a],
         \A a \in Attachers :
           up' /\ Expecting(a) /\ (Asking(a) \/ Displayed(a))
             => Asking(a)' \/ Displayed(a)' \/ Signalled(a)'
  PROVE  IInv'
<1>1. \A a \in Attachers : Asking(a) \/ Displayed(a) => pc[a] \notin Unasked /\ ~Told(a)
  BY DEF IInv, OnePlace
<1>2. \A a \in Attachers :
        /\ Stopping(a)' => Stopping(a) \/ (Displayed(a) /\ ~Displayed(a)' /\ kind[a] # "d"
                                           /\ ~(StopSignals \subseteq pend'[a]))
        /\ Told(a)' => Told(a) \/ (Displayed(a) /\ ~Displayed(a)' /\ kind[a] # "d")
  BY DEF Stopping, Told
<1>3. OnePlace'
  <2> SUFFICES ASSUME NEW a \in Attachers
               PROVE  /\ Asking(a)' => pc'[a] \notin Unasked /\ ~Displayed(a)' /\ ~Told(a)'
                      /\ Displayed(a)' => pc'[a] \notin Unasked /\ ~Told(a)'
                      /\ Told(a)' => pc'[a] \notin Unasked /\ kind'[a] # "d"
    BY DEF OnePlace
  <2>1. /\ Asking(a) => pc[a] \notin Unasked /\ ~Displayed(a) /\ ~Told(a)
        /\ Displayed(a) => pc[a] \notin Unasked /\ ~Told(a)
        /\ Told(a) => pc[a] \notin Unasked /\ kind[a] # "d"
    BY DEF IInv, OnePlace
  <2>2. QED
    BY <1>2, <2>1
<1>4. OneOrder'
  <2> SUFFICES ASSUME NEW a \in Attachers PROVE OrderSound(a)'
    BY DEF OneOrder
  <2>1. OrderSound(a)
    BY DEF IInv, OneOrder
  <2>2. CASE pend'[a] \cap StopSignals = pend[a] \cap StopSignals
    <3>1. /\ Stopping(a)' <=> Stopping(a)
          /\ (StopSignals \subseteq pend'[a]) <=> (StopSignals \subseteq pend[a])
      BY <2>2 DEF Stopping
    <3>2. QED
      BY <2>1, <3>1 DEF OrderSound
  <2>3. CASE Displayed(a) /\ ~(StopSignals \subseteq pend'[a])
    <3>1. ~Told(a)
      BY <1>1, <2>3
    <3>2. QED
      BY <2>1, <2>3, <3>1 DEF OrderSound, Told
  <2>4. QED
    BY <2>2, <2>3
<1>5. NoneForgotten'
  <2> SUFFICES ASSUME NEW a \in Attachers
               PROVE  /\ pc'[a] \in Inside => kind'[a] # "d"
                      /\ up' /\ Expecting(a)' => Asking(a)' \/ Displayed(a)' \/ Signalled(a)'
    BY DEF NoneForgotten
  <2>1. Expecting(a)' <=> Expecting(a)
    BY DEF Expecting, Alone
  <2>2. up' /\ Signalled(a) => Signalled(a)'
    BY DEF Signalled, Stopping
  <2>3. QED
    BY <2>1, <2>2 DEF IInv, NoneForgotten
<1>6. QED
  BY <1>3, <1>4, <1>5 DEF IInv

\* The backlog stays as it is.
LEMMA SameBacklog ==
  ASSUME IInv, UNCHANGED <<up, backlog, pc, kind>>
  PROVE  /\ ConnectionsSound' /\ OneConnection'
         /\ \A a \in Attachers : Asking(a)' <=> Asking(a)
<1>1. ConnectionsSound'
  BY DEF IInv, ConnectionsSound, ConnectionSound
<1>2. OneConnection'
  BY DEF IInv, OneConnection
<1>3. QED
  BY <1>1, <1>2 DEF Asking

\* The first connection goes: it is not open, and its request is the only one of
\* its attacher.
LEMMA NextBacklog ==
  ASSUME IInv, NextConnection, UNCHANGED kind
  PROVE  /\ ServerSound' /\ ConnectionsSound' /\ OneConnection'
         /\ backlog' \in Seq(ConnectionType) /\ Head(backlog) \in ConnectionType
         /\ ConnectionSound(Head(backlog))
         /\ \A a \in Attachers :
              /\ Asking(a)' => Asking(a)
              /\ Asking(a) => Asking(a)' \/ (a = Head(backlog).pid /\ Received.type \in Requests)
         /\ \A a \in Attachers :
              a = Head(backlog).pid /\ Received.type \in Requests => Asking(a) /\ ~Asking(a)'
<1> DEFINE n == Len(backlog) - 1
           h == Head(backlog)
<1>1. /\ TypeOK /\ up /\ up' = up /\ accepting' = FALSE /\ backlog' = Tail(backlog) /\ ~h.open
      /\ pc' = pc /\ kind' = kind /\ backlog \in Seq(ConnectionType) /\ backlog # <<>>
  BY DEF NextConnection, IInv, ServerSound, TypeOK, ConnectionType
<1>2. /\ backlog' \in Seq(ConnectionType)
      /\ Len(backlog) \in Nat /\ Len(backlog) > 0 /\ Len(backlog') = n
      /\ \A i \in 1 .. n : backlog'[i] = backlog[i + 1]
      /\ h = backlog[1] /\ h \in ConnectionType
  BY <1>1, TailShape
<1>3. /\ n \in Nat /\ Len(backlog) = n + 1 /\ 1 \in 1 .. n + 1
      /\ \A i \in 1 .. n : i + 1 \in 1 .. n + 1
      /\ \A i \in 1 .. n + 1 : i = 1 \/ (i - 1 \in 1 .. n /\ (i - 1) + 1 = i)
  BY <1>2
<1> HIDE DEF n, h
<1>4. ServerSound'
  BY <1>1 DEF ServerSound
<1>5. ConnectionsSound' /\ ConnectionSound(h)
  <2>1. \A i \in 1 .. n + 1 : ConnectionSound(backlog[i])
    BY <1>3 DEF IInv, ConnectionsSound
  <2>2. ASSUME NEW i \in 1 .. n PROVE ConnectionSound(backlog[i])'
    <3>1. ConnectionSound(backlog[i + 1]) /\ backlog'[i] = backlog[i + 1]
      BY <1>2, <1>3, <2>1
    <3>2. QED
      BY <1>1, <3>1 DEF ConnectionSound
  <2>3. QED
    BY <1>2, <1>3, <2>1, <2>2 DEF ConnectionsSound
<1>6. OneConnection'
  <2>1. \A i, j \in 1 .. n :
          backlog'[i].pid = backlog'[j].pid /\ backlog'[i].open /\ backlog'[j].open => i = j
    BY <1>2, <1>3 DEF IInv, OneConnection
  <2>2. \A i, j \in 1 .. n :
          /\ backlog'[i].pid = backlog'[j].pid
          /\ backlog'[i].data.type \in Requests /\ backlog'[j].data.type \in Requests
          => i = j
    BY <1>2, <1>3 DEF IInv, OneConnection
  <2>3. ASSUME NEW b \in Attachers, pc'[b] \in Looking
        PROVE  \E i \in 1 .. n : backlog'[i].pid = b /\ backlog'[i].open
    <3>1. PICK i \in 1 .. n + 1 : backlog[i].pid = b /\ backlog[i].open
      BY <1>1, <1>3, <2>3 DEF IInv, OneConnection
    <3>2. i # 1
      BY <1>1, <1>2, <3>1
    <3>3. i - 1 \in 1 .. n /\ backlog'[i - 1] = backlog[i]
      BY <1>2, <1>3, <3>2
    <3>4. QED
      BY <3>1, <3>3
  <2>4. QED
    BY <1>2, <2>1, <2>2, <2>3 DEF OneConnection
<1>7. ASSUME NEW a \in Attachers
      PROVE  /\ Asking(a)' => Asking(a)
             /\ Asking(a) => Asking(a)' \/ (a = h.pid /\ h.data.type \in Requests)
  <2>1. ASSUME Asking(a)' PROVE Asking(a)
    <3>1. PICK i \in 1 .. n : backlog'[i].pid = a /\ backlog'[i].data.type \in Requests
      BY <1>2, <2>1 DEF Asking
    <3>2. QED
      BY <1>2, <1>3, <3>1 DEF Asking
  <2>2. ASSUME Asking(a) PROVE Asking(a)' \/ (a = h.pid /\ h.data.type \in Requests)
    <3>1. PICK i \in 1 .. n + 1 : backlog[i].pid = a /\ backlog[i].data.type \in Requests
      BY <1>3, <2>2 DEF Asking
    <3>2. CASE i = 1
      BY <1>2, <3>1, <3>2
    <3>3. CASE i # 1
      <4>1. i - 1 \in 1 .. n /\ backlog'[i - 1] = backlog[i]
        BY <1>2, <1>3, <3>3
      <4>2. QED
        BY <1>2, <3>1, <4>1 DEF Asking
    <3>4. QED
      BY <3>2, <3>3
  <2>3. QED
    BY <2>1, <2>2
<1>8. ASSUME h.data.type \in Requests
      PROVE  Asking(h.pid) /\ ~(\E i \in 1 .. Len(backlog') :
                                  backlog'[i].pid = h.pid /\ backlog'[i].data.type \in Requests)
  <2>1. Asking(h.pid)
    BY <1>2, <1>3, <1>8 DEF Asking
  <2>2. ASSUME NEW i \in 1 .. n, backlog'[i].pid = h.pid, backlog'[i].data.type \in Requests
        PROVE  FALSE
    <3>1. i + 1 \in 1 .. n + 1 /\ backlog[i + 1].pid = h.pid /\ backlog[i + 1].data.type \in Requests
      BY <1>2, <1>3, <2>2
    <3>2. i + 1 = 1
      BY <1>2, <1>3, <1>8, <3>1 DEF IInv, OneConnection
    <3>3. QED
      BY <3>2
  <2>3. QED
    BY <1>2, <2>1, <2>2
<1>9. ASSUME NEW a \in Attachers, a = h.pid, h.data.type \in Requests PROVE Asking(a) /\ ~Asking(a)'
  BY <1>8, <1>9 DEF Asking
<1>10. QED
  BY <1>2, <1>4, <1>5, <1>6, <1>7, <1>9 DEF h, Received

-----------------------------------------------------------------------------
(* The walk of FinishDetach.                                               *)

\* What a turn of the loop does does not depend on how many there have been.
OfTurn(par, v, x) == Turn(v)
F == INSTANCE ListProofs WITH op <- OfTurn

\* A list holds displays, each once.
ListOf(ds, list) ==
  /\ list \in Seq(ds)
  /\ \A i, j \in 1 .. Len(list) : list[i] = list[j] => i = j
  /\ \A d \in ds : \E i \in 1 .. Len(list) : list[i] = d

LEMMA ListingIs ==
  ASSUME NEW ds, IsFiniteSet(ds), NEW list \in SetToSeqs(ds)
  PROVE  ListOf(ds, list)
<1>1. Cardinality(ds) \in Nat
  BY FS_CardinalityType
<1>2. /\ list \in [1 .. Cardinality(ds) -> ds]
      /\ \A i, j \in 1 .. Cardinality(ds) : i # j => list[i] # list[j]
  BY DEF SetToSeqs
<1>3. list \in Seq(ds) /\ Len(list) = Cardinality(ds)
  BY <1>1, <1>2
<1>4. list \in Injection(1 .. Cardinality(ds), ds)
  BY <1>2 DEF Injection, IsInjective
<1>5. IsFiniteSet(1 .. Cardinality(ds)) /\ Cardinality(1 .. Cardinality(ds)) = Cardinality(ds)
  BY <1>1, FS_Interval
<1>6. list \in Surjection(1 .. Cardinality(ds), ds)
  BY <1>4, <1>5, FS_Injection
<1>7. QED
  BY <1>2, <1>3, <1>6 DEF ListOf, Surjection

\* The display of one process is taken off the list, the others stay.
LEMMA UnlinkedIs ==
  ASSUME NEW ds, NEW list, ListOf(ds, list), NEW a, \A d, e \in ds : d.pid = e.pid => d = e
  PROVE  ListOf({d \in ds : d.pid # a}, Unlinked(list, a))
<1> DEFINE u == Unlinked(list, a)
           rest == {d \in ds : d.pid # a}
           n == Len(list)
<1>1. /\ list \in Seq(ds) /\ n \in Nat /\ \A i \in 1 .. n : list[i] \in ds
      /\ \A i, j \in 1 .. n : list[i] = list[j] => i = j
      /\ \A d \in ds : \E i \in 1 .. n : list[i] = d
  BY LenProperties, ElementOfSeq DEF ListOf
<1>2. CASE \A i \in 1 .. n : list[i].pid # a
  <2>1. u = list
    BY <1>2 DEF Unlinked, RemoveFirstMatch
  <2>2. rest = ds
    <3>1. \A d \in ds : d.pid # a
      BY <1>1, <1>2
    <3>2. QED
      BY <3>1
  <2>3. QED
    BY <2>1, <2>2
<1>3. ASSUME NEW i \in 1 .. n, list[i].pid = a PROVE ListOf(rest, u)
  <2>1. \A j \in 1 .. n : list[j].pid = a <=> j = i
    BY <1>1, <1>3
  <2>2. {j \in 1 .. n : list[j].pid = a} = {i}
    BY <2>1
  <2>3. Min({i}) = i
    BY <1>1 DEF Min
  <2>4. u = RemoveAt(list, i)
    BY <1>3, <2>2, <2>3 DEF Unlinked, RemoveFirstMatch, SelectInSeq
  <2> HIDE DEF u, n
  <2>5. /\ u \in Seq(ds) /\ Len(u) = n - 1
        /\ \A j \in 1 .. n - 1 : u[j] = IF j < i THEN list[j] ELSE list[j + 1]
    BY <1>1, <2>4, F!RemoveAtShape DEF n, RemoveAt, F!RemoveAt
  <2>6. \A j \in 1 .. n - 1 : u[j] \in rest
    <3>1. ASSUME NEW j \in 1 .. n - 1
          PROVE  \E k \in 1 .. n : k # i /\ u[j] = list[k]
      <4>1. j \in 1 .. n /\ j + 1 \in 1 .. n
        BY <1>1
      <4>2. CASE j < i
        BY <2>5, <4>1, <4>2
      <4>3. CASE ~(j < i)
        <5>1. j + 1 # i /\ u[j] = list[j + 1]
          BY <1>1, <2>5, <4>1, <4>3
        <5>2. QED
          BY <4>1, <5>1
      <4>4. QED
        BY <4>2, <4>3
    <3>2. \A k \in 1 .. n : k # i => list[k] \in rest
      BY <1>1, <2>1
    <3>3. QED
      BY <3>1, <3>2
  <2>7. u \in Seq(rest)
    BY <1>1, <2>5, <2>6, SeqDef
  <2>8. \A j, k \in 1 .. Len(u) : u[j] = u[k] => j = k
    BY <1>1, <2>5, SMTT(30)
  <2>9. ASSUME NEW d \in rest PROVE \E j \in 1 .. Len(u) : u[j] = d
    <3>1. PICK k \in 1 .. n : list[k] = d
      BY <1>1
    <3>2. k # i
      BY <1>3, <3>1
    <3>3. CASE k < i
      <4>1. k \in 1 .. n - 1 /\ u[k] = list[k]
        BY <1>1, <2>5, <3>3
      <4>2. QED
        BY <2>5, <3>1, <4>1
    <3>4. CASE k > i
      <4>1. k - 1 \in 1 .. n - 1 /\ ~(k - 1 < i) /\ (k - 1) + 1 = k
        BY <1>1, <3>4
      <4>2. QED
        BY <2>5, <3>1, <4>1
    <3>5. QED
      BY <1>1, <3>2, <3>3, <3>4
  <2>10. QED
    BY <2>7, <2>8, <2>9 DEF ListOf
<1>4. QED
  BY <1>2, <1>3

\* What is left of a list after k of its displays have been detached.
After(list, m, k) ==
  [list |-> SubSeq(list, k + 1, Len(list)),
   at   |-> IF k < Len(list) THEN list[k + 1] ELSE NoDisplay,
   mode |-> IF k = Len(list) /\ k # 0 THEN Detached ELSE m,
   told |-> {list[i].pid : i \in 1 .. k}]

\* A turn takes the first display off the list, and goes on with the second.
LEMMA TurnIs ==
  ASSUME NEW ds, NEW list, ListOf(ds, list), NoDisplay \notin ds, NEW m, NEW k \in 1 .. Len(list)
  PROVE  Turn(After(list, m, k - 1)) = After(list, m, k)
<1> DEFINE n == Len(list)
           w == After(list, m, k - 1)
           s == SubSeq(list, k, n)
           t == SubSeq(list, k + 1, n)
<1>1. /\ list \in Seq(ds) /\ n \in Nat /\ \A i \in 1 .. n : list[i] \in ds
      /\ \A i, j \in 1 .. n : list[i] = list[j] => i = j
  BY LenProperties, ElementOfSeq DEF ListOf
<1>2. k \in 1 .. n /\ k \in Int /\ (k - 1) + 1 = k /\ k - 1 < n /\ k - 1 # n
  BY <1>1
<1>3. /\ w.list = s /\ w.at = list[k] /\ w.mode = m
      /\ w.told = {list[i].pid : i \in 1 .. k - 1}
  BY <1>2 DEF After
<1> HIDE DEF n, w
<1>4. /\ s \in Seq(ds) /\ Len(s) = n - k + 1
      /\ \A i \in 1 .. n - k + 1 : s[i] = list[k + i - 1]
  BY <1>1, <1>2, SubSeqProperties DEF n
<1>5. /\ t \in Seq(ds) /\ Len(t) = n - k
      /\ \A i \in 1 .. n - k : t[i] = list[k + i]
  BY <1>1, <1>2, SubSeqProperties DEF n
<1> HIDE DEF s, t
<1>6. 1 \in 1 .. Len(s) /\ s[1] = list[k] /\ \A i \in 1 .. Len(s) : s[i] = list[k] <=> i = 1
  BY <1>1, <1>2, <1>4
<1>7. RemoveFirst(s, list[k]) = t
  <2>1. {i \in 1 .. Len(s) : s[i] = list[k]} = {1}
    BY <1>6
  <2>2. Min({1}) = 1
    BY DEF Min
  <2>3. RemoveFirst(s, list[k]) = RemoveAt(s, 1)
    BY <1>6, <2>1, <2>2 DEF RemoveFirst, SelectInSeq
  <2>4. PICK u : u = RemoveAt(s, 1)
    OBVIOUS
  <2>5. /\ u \in Seq(ds) /\ Len(u) = n - k
        /\ \A j \in 1 .. n - k : u[j] = s[j + 1]
    <3>1. /\ u \in Seq(ds) /\ Len(u) = Len(s) - 1
          /\ \A j \in 1 .. Len(s) - 1 : u[j] = IF j < 1 THEN s[j] ELSE s[j + 1]
      BY <1>4, <1>6, <2>4, F!RemoveAtShape DEF RemoveAt, F!RemoveAt
    <3>2. Len(s) - 1 = n - k /\ \A j \in 1 .. n - k : ~(j < 1)
      BY <1>1, <1>2, <1>4
    <3>3. QED
      BY <3>1, <3>2
  <2>6. \A j \in 1 .. n - k : u[j] = t[j]
    BY <1>1, <1>2, <1>4, <1>5, <2>5
  <2>7. u = t
    BY <1>5, <2>5, <2>6, SeqEqual
  <2>8. QED
    BY <2>3, <2>4, <2>7
<1>8. NextOf(s, list[k]) = IF k < n THEN list[k + 1] ELSE NoDisplay
  <2>1. \A i \in 2 .. Len(s) : s[i - 1] = list[k] <=> i = 2
    BY <1>1, <1>2, <1>4, <1>6
  <2>2. CASE k < n
    <3>1. 2 \in 2 .. Len(s) /\ s[2] = list[k + 1]
      BY <1>1, <1>2, <1>4, <2>2
    <3>2. (CHOOSE i \in 2 .. Len(s) : s[i - 1] = list[k]) = 2
      BY <2>1, <3>1
    <3>3. \E i \in 2 .. Len(s) : s[i - 1] = list[k]
      BY <2>1, <3>1
    <3>4. QED
      BY <2>2, <3>1, <3>2, <3>3 DEF NextOf
  <2>3. CASE ~(k < n)
    <3>1. ~ \E i \in 2 .. Len(s) : s[i - 1] = list[k]
      BY <1>1, <1>2, <1>4, <2>3
    <3>2. QED
      BY <2>3, <3>1 DEF NextOf
  <2>4. QED
    BY <2>2, <2>3
<1>9. t = <<>> <=> k = n
  BY <1>1, <1>2, <1>5, EmptySeq
<1>10. {list[i].pid : i \in 1 .. k} = {list[i].pid : i \in 1 .. k - 1} \union {list[k].pid}
  BY <1>2
<1>11. list[k] # NoDisplay
  BY <1>1, <1>2
<1>12. Turn(w) = [list |-> t, at |-> IF k < n THEN list[k + 1] ELSE NoDisplay,
                  mode |-> IF k = n THEN Detached ELSE m,
                  told |-> {list[i].pid : i \in 1 .. k}]
  BY <1>3, <1>7, <1>8, <1>9, <1>10, <1>11 DEF Turn
<1>13. k # 0
  BY <1>2
<1>14. QED
  BY <1>12, <1>13 DEF After, w, t, n

\* The walk tells everybody on the list, and marks the socket if there was anybody.
LEMMA WalkIs ==
  ASSUME NEW ds, NEW list, ListOf(ds, list), NoDisplay \notin ds, NEW m
  PROVE  /\ Walk(list, m).told = Pids(ds)
         /\ Walk(list, m).mode = IF ds = {} THEN m ELSE Detached
<1> DEFINE n == Len(list)
           base == [list |-> list, at |-> FirstOf(list), mode |-> m, told |-> {}]
           S == [k \in 0 .. n |-> {After(list, m, k)}]
<1>1. /\ list \in Seq(ds) /\ n \in Nat /\ DOMAIN list = 1 .. n
      /\ \A i \in 1 .. n : list[i] \in ds
      /\ \A d \in ds : \E i \in 1 .. n : list[i] = d
  BY LenProperties, ElementOfSeq DEF ListOf
<1>2. F!Folded({}, base, list) = Walk(list, m)
  BY DEF F!Folded, OfTurn, F!FoldLeft, Walk, FoldLeft, F!MapThenFoldSet, MapThenFoldSet, F!Max, Max
<1>3. base \in S[0]
  <2>1. SubSeq(list, 1, n) = list
    <3>1. SubSeq(list, 1, n) \in Seq(ds) /\ Len(SubSeq(list, 1, n)) = n
          /\ \A i \in 1 .. n : SubSeq(list, 1, n)[i] = list[i]
      BY <1>1, SubSeqProperties
    <3>2. QED
      BY <1>1, <3>1, SeqEqual
  <2>2. FirstOf(list) = IF 0 < n THEN list[0 + 1] ELSE NoDisplay
    BY <1>1, EmptySeq, HeadTailProperties DEF FirstOf
  <2>3. {list[i].pid : i \in 1 .. 0} = {}
    OBVIOUS
  <2>4. 0 + 1 = 1 /\ (IF 0 = n /\ 0 # 0 THEN Detached ELSE m) = m
    OBVIOUS
  <2>5. base = After(list, m, 0)
    BY <2>1, <2>2, <2>3, <2>4, Zenon DEF After
  <2>6. QED
    BY <1>1, <2>5
<1>4. \A k \in 1 .. n : \A v \in S[k - 1] : OfTurn({}, v, list[k]) \in S[k]
  <2>1. ASSUME NEW k \in 1 .. n, NEW v \in S[k - 1] PROVE OfTurn({}, v, list[k]) \in S[k]
    <3>1. k - 1 \in 0 .. n /\ k \in 0 .. n
      BY <1>1
    <3>2. v = After(list, m, k - 1)
      BY <2>1, <3>1
    <3>3. Turn(v) = After(list, m, k)
      BY <3>2, TurnIs
    <3>4. QED
      BY <3>1, <3>3 DEF OfTurn
  <2>2. QED
    BY <2>1
<1> HIDE DEF S, base
<1>5. F!Folded({}, base, list) \in S[n]
  BY <1>1, <1>3, <1>4, F!FoldKeeps
<1>6. Walk(list, m) = After(list, m, n)
  BY <1>1, <1>2, <1>5 DEF S
<1>7. {list[i].pid : i \in 1 .. n} = Pids(ds)
  BY <1>1 DEF Pids
<1>8. n = 0 <=> ds = {}
  BY <1>1
<1>9. QED
  BY <1>6, <1>7, <1>8 DEF After

\* A display is not the null pointer.
LEMMA DisplayIsThere ==
  ASSUME NEW ds \in SUBSET DisplayType
  PROVE  NoDisplay \notin ds
<1>1. NoData.type = "none" /\ NoDisplay.msg = NoData
  BY DEF NoData, NoDisplay
<1>2. \A d \in DisplayType : d.msg.type # "none"
  BY DEF DisplayType, Messages
<1>3. QED
  BY <1>1, <1>2

\* There are no more displays than attachers.
LEMMA DisplaysFinite ==
  ASSUME displays \subseteq DisplayType, \A d, e \in displays : d.pid = e.pid => d = e
  PROVE  IsFiniteSet(displays)
<1> DEFINE f == [d \in displays |-> d.pid]
<1>1. f \in [displays -> Attachers]
  BY DEF DisplayType
<1>2. \A d, e \in displays : f[d] = f[e] => d = e
  OBVIOUS
<1>3. f \in Injection(displays, Attachers)
  BY <1>1, <1>2 DEF Injection, IsInjective
<1>4. QED
  BY <1>3, SessionAssumption, FS_Injection

\* FinishDetach comes to what it should: the others are told, all displays are gone, and
\* the socket is marked if there were others.
LEMMA FinishDetachIs ==
  ASSUME TypeOK, DisplaysWell, NEW m, FinishDetach(m)
  PROVE  /\ displays' = {}
         /\ mode' = IF Others(m.pid) = {} THEN mode ELSE Detached
         /\ pend' = Continue(m.pid, Kill(Pids(Others(m.pid)), "SIG_BYE", pend))
<1>1. PICK list \in SetToSeqs(displays) :
        /\ displays' = {}
        /\ mode' = Walk(Unlinked(list, m.pid), mode).mode
        /\ pend' = Continue(m.pid, Kill(Walk(Unlinked(list, m.pid), mode).told, "SIG_BYE", pend))
  BY DEF FinishDetach
<1>2. displays \subseteq DisplayType /\ \A d, e \in displays : d.pid = e.pid => d = e
  BY DEF TypeOK, DisplayType, DisplaysWell
<1>3. ListOf(Others(m.pid), Unlinked(list, m.pid))
  BY <1>1, <1>2, DisplaysFinite, ListingIs, UnlinkedIs DEF Others
<1>4. NoDisplay \notin Others(m.pid)
  BY <1>2, DisplayIsThere DEF Others
<1>5. QED
  BY <1>1, <1>3, <1>4, WalkIs

\* So does FinishAttach: with detachfirst, before it shows the display that asks.
Attaches(d, p) ==
  LET first == d.msg.detachfirst
      others == IF first THEN {} ELSE Others(d.pid)
      before == IF first /\ Others(d.pid) # {} THEN Detached ELSE mode
      byes == IF first THEN Kill(Pids(Others(d.pid)), "SIG_BYE", p) ELSE p
  IN  \/ displays' = others /\ mode' = before /\ pend' = Kill({d.pid}, "SIG_BYE", byes)
      \/ /\ displays' = others \union {[d EXCEPT !.prompt = FALSE]}
         /\ mode' = IF others = {} THEN Attached ELSE before
         /\ pend' = byes

LEMMA FinishAttachIs ==
  ASSUME TypeOK, DisplaysWell, NEW d \in DisplayType, d \in displays \/ ~Displayed(d.pid),
         NEW p, FinishAttach(d, p)
  PROVE  Attaches(d, p)
<1> DEFINE ds == displays \union {d}
<1>1. PICK list \in SetToSeqs(ds) :
        LET first == d.msg.detachfirst
            walked == Walk(Unlinked(list, d.pid), mode)
            others == IF first THEN {} ELSE Others(d.pid)
            before == IF first THEN walked.mode ELSE mode
            byes == IF first THEN Kill(walked.told, "SIG_BYE", p) ELSE p
        IN  \/ displays' = others /\ mode' = before /\ pend' = Kill({d.pid}, "SIG_BYE", byes)
            \/ /\ displays' = others \union {[d EXCEPT !.prompt = FALSE]}
               /\ mode' = IF others = {} THEN Attached ELSE before
               /\ pend' = byes
  BY DEF FinishAttach
<1>2. displays \subseteq DisplayType /\ \A e, f \in displays : e.pid = f.pid => e = f
  BY DEF TypeOK, DisplayType, DisplaysWell
<1>3. IsFiniteSet(ds)
  BY <1>2, DisplaysFinite, FS_AddElement
<1>4. \A e, f \in ds : e.pid = f.pid => e = f
  BY <1>2 DEF Displayed
<1>5. {e \in ds : e.pid # d.pid} = Others(d.pid)
  BY DEF Others
<1> HIDE DEF ds
<1>6. ListOf(Others(d.pid), Unlinked(list, d.pid))
  BY <1>3, <1>4, <1>5, ListingIs, UnlinkedIs
<1>7. NoDisplay \notin Others(d.pid)
  BY <1>2, DisplayIsThere DEF Others
<1>8. /\ Walk(Unlinked(list, d.pid), mode).told = Pids(Others(d.pid))
      /\ Walk(Unlinked(list, d.pid), mode).mode = IF Others(d.pid) = {} THEN mode ELSE Detached
  BY <1>6, <1>7, WalkIs
<1>9. QED
  BY <1>1, <1>8 DEF Attaches

-----------------------------------------------------------------------------
(* What the handlers do to the displays and the signals.                   *)

\* How the server's handlers change the signals from p to q, stop signals apart.
Grows(p, q) ==
  /\ q \in [Attachers -> SUBSET Signals]
  /\ \A a \in Attachers :
       /\ p[a] \subseteq q[a]
       /\ q[a] \subseteq p[a] \union Byes \union {"SIGCONT"}
       /\ pc[a] \in Unasked => q[a] \subseteq p[a] \union {"SIG_BYE"}

LEMMA GrowsReflexive ==
  ASSUME NEW p \in [Attachers -> SUBSET Signals]
  PROVE  Grows(p, p)
BY DEF Grows

LEMMA GrowsTransitive ==
  ASSUME NEW p, NEW q, NEW r, Grows(p, q), Grows(q, r)
  PROVE  Grows(p, r)
<1>1. r \in [Attachers -> SUBSET Signals]
  BY DEF Grows
<1>2. ASSUME NEW a \in Attachers
      PROVE  /\ p[a] \subseteq r[a]
             /\ r[a] \subseteq p[a] \union Byes \union {"SIGCONT"}
             /\ pc[a] \in Unasked => r[a] \subseteq p[a] \union {"SIG_BYE"}
  <2>1. p[a] \subseteq q[a] /\ q[a] \subseteq r[a]
    BY DEF Grows
  <2>2. r[a] \subseteq q[a] \union Byes \union {"SIGCONT"}
        /\ q[a] \subseteq p[a] \union Byes \union {"SIGCONT"}
    BY DEF Grows
  <2>3. pc[a] \in Unasked => r[a] \subseteq q[a] \union {"SIG_BYE"}
                             /\ q[a] \subseteq p[a] \union {"SIG_BYE"}
    BY DEF Grows
  <2>4. QED
    BY <2>1, <2>2, <2>3
<1>3. QED
  BY <1>1, <1>2 DEF Grows

\* SIG_BYE may go to everybody.
LEMMA ByeGrows ==
  ASSUME NEW p \in [Attachers -> SUBSET Signals], NEW who
  PROVE  /\ Grows(p, Kill(who, "SIG_BYE", p))
         /\ \A a \in Attachers : a \in who /\ Alive(a) => "SIG_BYE" \in Kill(who, "SIG_BYE", p)[a]
<1>1. "SIG_BYE" \in Signals /\ "SIG_BYE" \in Byes
  BY DEF Signals, Byes
<1>2. /\ Kill(who, "SIG_BYE", p) \in [Attachers -> SUBSET Signals]
      /\ \A a \in Attachers : Kill(who, "SIG_BYE", p)[a] =
           IF a \in who /\ Alive(a) THEN p[a] \union {"SIG_BYE"} ELSE p[a]
  BY <1>1, KillShape
<1>3. QED
  BY <1>1, <1>2 DEF Grows

\* SIGCONT goes to attachers that wait for it.
LEMMA ContinueGrows ==
  ASSUME NEW p \in [Attachers -> SUBSET Signals], NEW b \in Attachers
  PROVE  Grows(p, Continue(b, p))
<1>1. CASE pc[b] \in Waiting
  <2>1. "SIGCONT" \in Signals /\ pc[b] \notin Unasked
    BY <1>1 DEF Signals, Waiting, Unasked
  <2>2. /\ Kill({b}, "SIGCONT", p) \in [Attachers -> SUBSET Signals]
        /\ \A a \in Attachers : Kill({b}, "SIGCONT", p)[a] =
             IF a \in {b} /\ Alive(a) THEN p[a] \union {"SIGCONT"} ELSE p[a]
    BY <2>1, KillShape
  <2>3. Grows(p, Kill({b}, "SIGCONT", p))
    BY <2>1, <2>2 DEF Grows
  <2>4. QED
    BY <1>1, <2>3 DEF Continue
<1>2. CASE pc[b] \notin Waiting
  BY <1>2, GrowsReflexive DEF Continue
<1>3. QED
  BY <1>1, <1>2

\* Displays that were sound stay sound when some go.
LEMMA FewerDisplays ==
  ASSUME IInv, UNCHANGED <<kind, tty>>, displays' \subseteq displays
  PROVE  DisplaysWell' /\ \A a \in Attachers : Displayed(a)' => Displayed(a)
<1>1. DisplaysWell'
  BY DEF IInv, DisplaysWell, DisplaySound
<1>2. QED
  BY <1>1 DEF Displayed

\* A display may come to a terminal that has none.
LEMMA NewDisplay ==
  ASSUME IInv, UNCHANGED <<kind, tty>>, NEW n, displays' \subseteq displays \union {n},
         DisplaySound(n),
         \A e \in displays' \ {n} :
           /\ e.pid # n.pid
           /\ tty[e.pid] = tty[n.pid] => "MSG_DETACH" \in {e.msg.type, n.msg.type}
  PROVE  DisplaysWell' /\ \A a \in Attachers : Displayed(a)' => Displayed(a) \/ a = n.pid
<1>1. \A d \in displays' : DisplaySound(d)'
  BY DEF IInv, DisplaysWell, DisplaySound
<1>2. \A d, e \in displays' : d.pid = e.pid => d = e
  BY DEF IInv, DisplaysWell
<1>3. \A d, e \in displays' :
        /\ tty[d.pid] = tty[e.pid]
        /\ d.msg.type # "MSG_DETACH" /\ e.msg.type # "MSG_DETACH"
        => d = e
  BY DEF IInv, DisplaysWell
<1>4. QED
  BY <1>1, <1>2, <1>3 DEF DisplaysWell, Displayed

\* FinishAttach: whoever loses its display is told, and d is shown or told.
LEMMA FinishAttachEffect ==
  ASSUME TypeOK, NEW d \in DisplayType, NEW p \in [Attachers -> SUBSET Signals], Attaches(d, p)
  PROVE  /\ mode' \in {Attached, Detached}
         /\ Grows(p, pend')
         /\ \E n \in DisplayType :
              /\ n.pid = d.pid /\ n.msg = d.msg /\ ~n.prompt
              /\ displays' \subseteq {e \in displays : e.pid # d.pid} \union {n}
         /\ \A a \in Attachers :
              Alive(a) /\ (Displayed(a) \/ a = d.pid) => Displayed(a)' \/ "SIG_BYE" \in pend'[a]
<1> DEFINE others == IF d.msg.detachfirst THEN {} ELSE Others(d.pid)
           before == IF d.msg.detachfirst /\ Others(d.pid) # {} THEN Detached ELSE mode
           byes == IF d.msg.detachfirst THEN Kill(Pids(Others(d.pid)), "SIG_BYE", p) ELSE p
           n == [d EXCEPT !.prompt = FALSE]
<1>1. \/ displays' = others /\ mode' = before /\ pend' = Kill({d.pid}, "SIG_BYE", byes)
      \/ displays' = others \union {n} /\ mode' = (IF others = {} THEN Attached ELSE before)
         /\ pend' = byes
  BY DEF Attaches
<1>2. /\ mode \in {Attached, Detached} /\ d.pid \in Attachers
      /\ \A e \in displays : e.pid \in Attachers
  BY DEF TypeOK, DisplayType
<1>3. before \in {Attached, Detached}
  BY <1>2
<1>4. n \in DisplayType /\ n.pid = d.pid /\ n.msg = d.msg /\ ~n.prompt
  BY DEF DisplayType
<1>5. others \subseteq Others(d.pid)
  OBVIOUS
<1>6. /\ Grows(p, byes) /\ byes \in [Attachers -> SUBSET Signals]
      /\ \A a \in Attachers :
           a \in Pids(Others(d.pid) \ others) /\ Alive(a) => "SIG_BYE" \in byes[a]
  <2>1. CASE d.msg.detachfirst
    BY <2>1, ByeGrows DEF Grows
  <2>2. CASE ~d.msg.detachfirst
    <3>1. byes = p /\ Pids(Others(d.pid) \ others) = {}
      BY <2>2 DEF Pids
    <3>2. QED
      BY <3>1, GrowsReflexive
  <2>3. QED
    BY <2>1, <2>2
<1> HIDE DEF others, before, n, byes
<1>7. ASSUME NEW a \in Attachers, Alive(a), Displayed(a), a # d.pid
      PROVE  (\E e \in others : e.pid = a) \/ "SIG_BYE" \in byes[a]
  <2>1. PICK e \in displays : e.pid = a
    BY <1>7 DEF Displayed
  <2>2. e \in Others(d.pid)
    BY <1>7, <2>1 DEF Others
  <2>3. CASE e \in others
    BY <2>1, <2>3
  <2>4. CASE e \notin others
    <3>1. a \in Pids(Others(d.pid) \ others)
      BY <2>1, <2>2, <2>4 DEF Pids
    <3>2. QED
      BY <1>6, <1>7, <3>1
  <2>5. QED
    BY <2>3, <2>4
<1>8. others \subseteq {e \in displays : e.pid # d.pid}
  BY <1>5 DEF Others
<1>9. CASE displays' = others /\ mode' = before /\ pend' = Kill({d.pid}, "SIG_BYE", byes)
  <2>1. /\ Grows(byes, pend')
        /\ \A a \in Attachers : a \in {d.pid} /\ Alive(a) => "SIG_BYE" \in pend'[a]
    BY <1>6, <1>9, ByeGrows
  <2>2. Grows(p, pend')
    BY <1>6, <2>1, GrowsTransitive
  <2>3. ASSUME NEW a \in Attachers, Alive(a), Displayed(a) \/ a = d.pid
        PROVE  Displayed(a)' \/ "SIG_BYE" \in pend'[a]
    <3>1. CASE a = d.pid
      BY <2>1, <2>3, <3>1
    <3>2. CASE a # d.pid
      <4>1. (\E e \in others : e.pid = a) \/ "SIG_BYE" \in byes[a]
        BY <1>7, <2>3, <3>2
      <4>2. byes[a] \subseteq pend'[a]
        BY <2>1 DEF Grows
      <4>3. QED
        BY <1>9, <4>1, <4>2 DEF Displayed
    <3>3. QED
      BY <3>1, <3>2
  <2>4. displays' \subseteq {e \in displays : e.pid # d.pid} \union {n}
    BY <1>8, <1>9
  <2>5. QED
    BY <1>3, <1>4, <1>9, <2>2, <2>3, <2>4
<1>10. CASE displays' = others \union {n} /\ mode' = (IF others = {} THEN Attached ELSE before)
            /\ pend' = byes
  <2>1. ASSUME NEW a \in Attachers, Alive(a), Displayed(a) \/ a = d.pid
        PROVE  Displayed(a)' \/ "SIG_BYE" \in pend'[a]
    <3>1. CASE a = d.pid
      BY <1>4, <1>10, <3>1 DEF Displayed
    <3>2. CASE a # d.pid
      BY <1>7, <1>10, <2>1, <3>2 DEF Displayed
    <3>3. QED
      BY <3>1, <3>2
  <2>2. displays' \subseteq {e \in displays : e.pid # d.pid} \union {n}
    BY <1>8, <1>10
  <2>3. QED
    BY <1>3, <1>4, <1>6, <1>10, <2>1, <2>2
<1>11. QED
  BY <1>1, <1>9, <1>10

\* FinishDetach: everybody but the asker is told, and the asker gets SIGCONT.
LEMMA FinishDetachEffect ==
  ASSUME TypeOK, DisplaysWell, NEW m \in Messages, FinishDetach(m)
  PROVE  /\ mode' \in {Attached, Detached} /\ displays' = {}
         /\ Grows(pend, pend')
         /\ \A a \in Attachers :
              Alive(a) /\ Displayed(a) /\ a # m.pid => "SIG_BYE" \in pend'[a]
<1> DEFINE byes == Kill(Pids(Others(m.pid)), "SIG_BYE", pend)
<1>1. /\ displays' = {} /\ pend' = Continue(m.pid, byes)
      /\ m.pid \in Attachers /\ pend \in [Attachers -> SUBSET Signals]
      /\ mode' \in {Attached, Detached}
  BY FinishDetachIs DEF TypeOK, Messages
<1>2. /\ Grows(pend, byes) /\ byes \in [Attachers -> SUBSET Signals]
      /\ \A a \in Attachers : a \in Pids(Others(m.pid)) /\ Alive(a) => "SIG_BYE" \in byes[a]
  BY <1>1, ByeGrows DEF Grows
<1> HIDE DEF byes
<1>3. Grows(byes, pend')
  BY <1>1, <1>2, ContinueGrows
<1>4. Grows(pend, pend')
  BY <1>2, <1>3, GrowsTransitive
<1>5. ASSUME NEW a \in Attachers, Alive(a), Displayed(a), a # m.pid PROVE "SIG_BYE" \in pend'[a]
  <2>1. a \in Pids(Others(m.pid))
    BY <1>5 DEF Displayed, Others, Pids
  <2>2. byes[a] \subseteq pend'[a]
    BY <1>3 DEF Grows
  <2>3. QED
    BY <1>2, <1>5, <2>1, <2>2
<1>6. QED
  BY <1>1, <1>4, <1>5

\* AttachRequest: the asker gets a display, or is told that it gets none; and
\* whoever loses its display is told so.
LEMMA AttachRequestEffect ==
  ASSUME IInv, UNCHANGED <<pc, kind, tty>>,
         NEW m \in Messages, m.type \in {"MSG_ATTACH", "MSG_CONT"}, kind[m.pid] # "d",
         ~Displayed(m.pid), AttachRequest(m)
  PROVE  /\ mode' \in {Attached, Detached}
         /\ Grows(pend, pend')
         /\ displays' \subseteq DisplayType /\ DisplaysWell'
         /\ \A a \in Attachers : Displayed(a)' => Displayed(a) \/ a = m.pid
         /\ \A a \in Attachers :
              Alive(a) /\ (Displayed(a) \/ a = m.pid) => Displayed(a)' \/ "SIG_BYE" \in pend'[a]
<1>0. /\ TypeOK /\ DisplaysWell /\ mode \in {Attached, Detached} /\ displays \subseteq DisplayType
      /\ pend \in [Attachers -> SUBSET Signals] /\ m.pid \in Attachers
  BY DEF IInv, TypeOK, DisplayType, Messages
<1>1. PICK p : p = Continue(m.pid, pend)
  OBVIOUS
<1>2. Grows(pend, p) /\ Grows(pend, pend) /\ p \in [Attachers -> SUBSET Signals]
  BY <1>0, <1>1, ContinueGrows, GrowsReflexive DEF Grows
<1>3. \/ ~Alive(m.pid) /\ Ignore
      \/ Refuse(m.pid, pend)
      \/ Refuse(m.pid, p)
      \/ /\ DisplaysOn(tty[m.pid]) = {}
         /\ displays' = displays \union {Display(m, TRUE)} /\ pend' = p /\ UNCHANGED mode
      \/ /\ DisplaysOn(tty[m.pid]) = {}
         /\ FinishAttach(Display(m, TRUE), p)
  BY <1>1 DEF AttachRequest
<1>4. Display(m, TRUE) \in DisplayType /\ Display(m, TRUE).pid = m.pid /\ Display(m, TRUE).msg = m
  BY <1>0 DEF Display, DisplayType
<1>5. ASSUME displays' = displays
      PROVE  /\ displays' \subseteq DisplayType /\ DisplaysWell'
             /\ \A a \in Attachers : Displayed(a)' <=> Displayed(a)
  <2>1. displays' \subseteq displays
    BY <1>5
  <2>2. DisplaysWell'
    BY <2>1, FewerDisplays
  <2>3. QED
    BY <1>0, <1>5, <2>2 DEF Displayed
<1>6. ASSUME NEW n \in DisplayType, n.pid = m.pid, n.msg = m,
             DisplaysOn(tty[m.pid]) = {}, displays' \subseteq displays \union {n}
      PROVE  /\ displays' \subseteq DisplayType /\ DisplaysWell'
             /\ \A a \in Attachers : Displayed(a)' => Displayed(a) \/ a = m.pid
  <2>1. DisplaySound(n)
    BY <1>6 DEF DisplaySound, Requests
  <2>2. \A e \in displays : e.pid # m.pid /\ tty[e.pid] # tty[m.pid]
    BY <1>6 DEF Displayed, DisplaysOn
  <2>3. \A e \in displays' \ {n} :
          /\ e.pid # n.pid
          /\ tty[e.pid] = tty[n.pid] => "MSG_DETACH" \in {e.msg.type, n.msg.type}
    BY <1>6, <2>2
  <2>4. DisplaysWell' /\ \A a \in Attachers : Displayed(a)' => Displayed(a) \/ a = n.pid
    BY <1>6, <2>1, <2>3, NewDisplay
  <2>5. QED
    BY <1>0, <1>6, <2>4
<1>7. CASE ~Alive(m.pid) /\ Ignore
  BY <1>0, <1>2, <1>5, <1>7 DEF Ignore
<1>8. ASSUME NEW q \in [Attachers -> SUBSET Signals], Grows(pend, q), Refuse(m.pid, q)
      PROVE  /\ mode' \in {Attached, Detached}
             /\ Grows(pend, pend')
             /\ displays' \subseteq DisplayType /\ DisplaysWell'
             /\ \A a \in Attachers : Displayed(a)' => Displayed(a) \/ a = m.pid
             /\ \A a \in Attachers :
                  Alive(a) /\ (Displayed(a) \/ a = m.pid) => Displayed(a)' \/ "SIG_BYE" \in pend'[a]
  <2>1. pend' = Kill({m.pid}, "SIG_BYE", q) /\ displays' = displays /\ mode' = mode
    BY <1>8 DEF Refuse
  <2>2. /\ Grows(q, pend')
        /\ \A a \in Attachers : a \in {m.pid} /\ Alive(a) => "SIG_BYE" \in pend'[a]
    BY <1>8, <2>1, ByeGrows
  <2>3. Grows(pend, pend')
    BY <1>8, <2>2, GrowsTransitive
  <2>4. QED
    BY <1>0, <1>5, <2>1, <2>2, <2>3
<1>9. CASE Refuse(m.pid, pend)
  BY <1>0, <1>2, <1>8, <1>9
<1>10. CASE Refuse(m.pid, p)
  BY <1>2, <1>8, <1>10
<1>11. CASE /\ DisplaysOn(tty[m.pid]) = {}
            /\ displays' = displays \union {Display(m, TRUE)} /\ pend' = p /\ UNCHANGED mode
  <2>1. /\ displays' \subseteq DisplayType /\ DisplaysWell'
        /\ \A a \in Attachers : Displayed(a)' => Displayed(a) \/ a = m.pid
    BY <1>4, <1>6, <1>11
  <2>2. \A a \in Attachers : Displayed(a) \/ a = m.pid => Displayed(a)'
    BY <1>4, <1>11 DEF Displayed
  <2>3. QED
    BY <1>0, <1>2, <1>11, <2>1, <2>2
<1>12. CASE DisplaysOn(tty[m.pid]) = {} /\ FinishAttach(Display(m, TRUE), p)
  <2>1. PICK d \in DisplayType : d = Display(m, TRUE) /\ d.pid = m.pid /\ d.msg = m
    BY <1>4
  <2>2. Attaches(d, p)
    BY <1>0, <1>12, <2>1, FinishAttachIs
  <2>3. /\ mode' \in {Attached, Detached}
        /\ Grows(p, pend')
        /\ \E n \in DisplayType :
             /\ n.pid = d.pid /\ n.msg = d.msg /\ ~n.prompt
             /\ displays' \subseteq {e \in displays : e.pid # d.pid} \union {n}
        /\ \A a \in Attachers :
             Alive(a) /\ (Displayed(a) \/ a = d.pid) => Displayed(a)' \/ "SIG_BYE" \in pend'[a]
    BY <1>0, <1>2, <2>2, FinishAttachEffect
  <2>4. PICK n \in DisplayType :
             /\ n.pid = m.pid /\ n.msg = m
             /\ displays' \subseteq displays \union {n}
    BY <2>1, <2>3
  <2>5. /\ displays' \subseteq DisplayType /\ DisplaysWell'
        /\ \A a \in Attachers : Displayed(a)' => Displayed(a) \/ a = m.pid
    BY <1>6, <1>12, <2>4
  <2>6. Grows(pend, pend')
    BY <1>2, <2>3, GrowsTransitive
  <2>7. QED
    BY <2>1, <2>3, <2>5, <2>6
<1>13. QED
  BY <1>3, <1>7, <1>9, <1>10, <1>11, <1>12

\* Signals that grow give no order to stop.
LEMMA GrowsOrders ==
  ASSUME IInv, Grows(pend, pend')
  PROVE  /\ pend' \in [Attachers -> SUBSET Signals]
         /\ \A a \in Attachers :
              /\ pend[a] \subseteq pend'[a]
              /\ pend'[a] \cap StopSignals = pend[a] \cap StopSignals
              /\ pc[a] \in Unasked => pend'[a] \subseteq {"SIG_BYE"}
<1>1. pend' \in [Attachers -> SUBSET Signals]
  BY DEF Grows
<1>2. ASSUME NEW a \in Attachers
      PROVE  /\ pend[a] \subseteq pend'[a]
             /\ pend'[a] \cap StopSignals = pend[a] \cap StopSignals
             /\ pc[a] \in Unasked => pend'[a] \subseteq {"SIG_BYE"}
  <2>1. /\ pend[a] \subseteq pend'[a]
        /\ pend'[a] \subseteq pend[a] \union Byes \union {"SIGCONT"}
        /\ pc[a] \in Unasked => pend'[a] \subseteq pend[a] \union {"SIG_BYE"}
    BY DEF Grows
  <2>2. pc[a] \in Unasked => pend[a] \subseteq {"SIG_BYE"}
    BY DEF IInv, OneOrder, OrderSound
  <2>3. (Byes \union {"SIGCONT"}) \cap StopSignals = {}
    BY DEF Byes, StopSignals
  <2>4. QED
    BY <2>1, <2>2, <2>3
<1>3. QED
  BY <1>1, <1>2

\* What the server does with the message of the first connection: it may take a
\* request, signals grow, and displays go with a signal.
LEMMA ReceiveKeeps ==
  ASSUME IInv, NextConnection,
         mode' \in {Attached, Detached}, displays' \subseteq DisplayType, DisplaysWell',
         Grows(pend, pend'),
         \A a \in Attachers : Displayed(a)' =>
           Displayed(a) \/ (a = Head(backlog).pid /\ Received.type \in Requests),
         \A a \in Attachers :
           /\ Expecting(a)
           /\ Displayed(a) \/ (a = Head(backlog).pid /\ Received.type \in Requests)
           => Displayed(a)' \/ pend'[a] \cap Byes # {}
  PROVE  IInv'
<1>0. /\ TypeOK /\ up
      /\ UNCHANGED <<up, pc, kind, tty, dflag, handlers, flags, cont, early, hungup, returns>>
      /\ accepting' = FALSE
  BY DEF IInv, NextConnection
<1>1. /\ ServerSound' /\ ConnectionsSound' /\ OneConnection'
      /\ backlog' \in Seq(ConnectionType)
      /\ \A a \in Attachers :
           /\ Asking(a)' => Asking(a)
           /\ Asking(a) => Asking(a)' \/ (a = Head(backlog).pid /\ Received.type \in Requests)
      /\ \A a \in Attachers :
           a = Head(backlog).pid /\ Received.type \in Requests => Asking(a) /\ ~Asking(a)'
  BY <1>0, NextBacklog
<1>2. /\ pend' \in [Attachers -> SUBSET Signals]
      /\ \A a \in Attachers :
           /\ pend[a] \subseteq pend'[a]
           /\ pend'[a] \cap StopSignals = pend[a] \cap StopSignals
           /\ pc[a] \in Unasked => pend'[a] \subseteq {"SIG_BYE"}
  BY GrowsOrders
<1>3. TypeOK'
  BY <1>0, <1>1, <1>2 DEF TypeOK, DisplayType, ConnectionType
<1>4. ASSUME NEW a \in Attachers, Expecting(a), Asking(a) \/ Displayed(a)
      PROVE  Asking(a)' \/ Displayed(a)' \/ Signalled(a)'
  BY <1>1, <1>4 DEF Signalled
<1>5. \A a \in Attachers : Displayed(a)' => Displayed(a) \/ (Asking(a) /\ ~Asking(a)')
  BY <1>1
<1>6. QED
  BY <1>0, <1>1, <1>2, <1>3, <1>4, <1>5, HandlerKeeps

\* The request at the head of the backlog.
LEMMA RequestShape ==
  ASSUME IInv, NextConnection, Received.type \in Requests
  PROVE  \E m \in Messages :
           /\ m = Received /\ Head(backlog).pid = m.pid
           /\ m.type = "MSG_DETACH" <=> kind[m.pid] = "d"
           /\ Asking(m.pid) /\ ~Displayed(m.pid)
<1>0. UNCHANGED kind
  BY DEF NextConnection
<1>1. /\ Head(backlog) \in ConnectionType /\ ConnectionSound(Head(backlog))
      /\ \A a \in Attachers :
           a = Head(backlog).pid /\ Received.type \in Requests => Asking(a) /\ ~Asking(a)'
  BY <1>0, NextBacklog
<1>2. PICK h : h = Head(backlog)
  OBVIOUS
<1>3. /\ h.pid \in Attachers /\ h.data \in Messages \union {NoData} /\ Received = h.data
      /\ h.data # NoData
  BY <1>1, <1>2 DEF ConnectionType, Received, NoData, Requests
<1>4. h.data.pid = h.pid /\ (h.data.type = "MSG_DETACH" <=> kind[h.pid] = "d")
  BY <1>1, <1>2, <1>3 DEF ConnectionSound
<1>5. Asking(h.pid) /\ ~Displayed(h.pid)
  BY <1>1, <1>2, <1>3 DEF IInv, OnePlace
<1>6. QED
  BY <1>2, <1>3, <1>4, <1>5

\* On a terminal of its own, only the attacher itself can have a display.
LEMMA AloneOnTerminal ==
  ASSUME TypeOK, NEW a \in Attachers, Alone(a), DisplaysOn(tty[a]) # {}
  PROVE  Displayed(a)
<1>1. PICK d \in displays : tty[d.pid] = tty[a]
  BY DEF DisplaysOn
<1>2. d.pid \in Attachers
  BY DEF TypeOK
<1>3. QED
  BY <1>1, <1>2 DEF Alone, Displayed

\* Whoever expects something from the server is alive.
LEMMA ExpectingAlive ==
  ASSUME NEW a \in Attachers, Expecting(a)
  PROVE  Alive(a)
BY DEF Expecting, Alive, Inside, Waiting

\* A message that is ignored is no request of an attacher alone on its terminal.
LEMMA IgnoreKeeps ==
  ASSUME IInv, NextConnection, Ignore,
         Received.type \in Requests => DisplaysOn(SenderTty) # {}
  PROVE  IInv'
<1>0. /\ TypeOK /\ mode' \in {Attached, Detached} /\ displays' = displays /\ pend' = pend
      /\ displays' \subseteq DisplayType /\ UNCHANGED <<kind, tty>>
  BY DEF IInv, TypeOK, Ignore, NextConnection, DisplayType
<1>1. Grows(pend, pend')
  BY <1>0, GrowsReflexive DEF TypeOK
<1>2. DisplaysWell' /\ \A a \in Attachers : Displayed(a)' <=> Displayed(a)
  BY <1>0, FewerDisplays DEF Displayed
<1>3. ASSUME NEW a \in Attachers, Expecting(a), a = Head(backlog).pid, Received.type \in Requests
      PROVE  FALSE
  <2>1. Displayed(a)
    BY <1>0, <1>3, AloneOnTerminal DEF SenderTty, Expecting
  <2>2. QED
    BY <1>3, <2>1, RequestShape
<1>4. QED
  BY <1>0, <1>1, <1>2, <1>3, ReceiveKeeps

LEMMA ReceiveNothingKeeps ==
  ASSUME IInv, ReceiveNothing
  PROVE  IInv'
<1>1. NextConnection /\ Ignore
  BY DEF ReceiveNothing
<1>2. Received.type \in Requests => DisplaysOn(SenderTty) # {}
  BY DEF ReceiveNothing, BadDisplay, Requests
<1>3. QED
  BY <1>1, <1>2, IgnoreKeeps

\* An attach request, or the one of an attacher that comes back.
LEMMA AttachRequestKeeps ==
  ASSUME IInv, NextConnection, Received.type \in {"MSG_ATTACH", "MSG_CONT"},
         AttachRequest(Received)
  PROVE  IInv'
<1>1. PICK m \in Messages : /\ m = Received /\ Head(backlog).pid = m.pid
                            /\ m.type = "MSG_DETACH" <=> kind[m.pid] = "d"
                            /\ Asking(m.pid) /\ ~Displayed(m.pid)
  BY RequestShape DEF Requests
<1>2. /\ AttachRequest(m) /\ UNCHANGED <<pc, kind, tty>>
      /\ m.type \in {"MSG_ATTACH", "MSG_CONT"} /\ kind[m.pid] # "d"
  BY <1>1 DEF NextConnection
<1>3. /\ mode' \in {Attached, Detached}
      /\ Grows(pend, pend')
      /\ displays' \subseteq DisplayType /\ DisplaysWell'
      /\ \A a \in Attachers : Displayed(a)' => Displayed(a) \/ a = m.pid
      /\ \A a \in Attachers :
           Alive(a) /\ (Displayed(a) \/ a = m.pid) => Displayed(a)' \/ "SIG_BYE" \in pend'[a]
  BY <1>1, <1>2, AttachRequestEffect
<1>4. Received.type \in Requests /\ "SIG_BYE" \in Byes
  BY DEF Requests, Byes
<1>5. ASSUME NEW a \in Attachers, Expecting(a), Displayed(a) \/ a = m.pid
      PROVE  Displayed(a)' \/ pend'[a] \cap Byes # {}
  BY <1>3, <1>4, <1>5, ExpectingAlive
<1>6. QED
  BY <1>1, <1>3, <1>4, <1>5, ReceiveKeeps

LEMMA ReceiveAttachKeeps ==
  ASSUME IInv, ReceiveAttach
  PROVE  IInv'
BY AttachRequestKeeps DEF ReceiveAttach

LEMMA ReceiveContKeeps ==
  ASSUME IInv, ReceiveCont
  PROVE  IInv'
<1>1. CASE \E d \in DisplaysOn(SenderTty) : Alive(d.pid)
  <2>1. NextConnection /\ Ignore /\ DisplaysOn(SenderTty) # {}
    BY <1>1 DEF ReceiveCont
  <2>2. QED
    BY <2>1, IgnoreKeeps
<1>2. CASE ~ \E d \in DisplaysOn(SenderTty) : Alive(d.pid)
  BY <1>2, AttachRequestKeeps DEF ReceiveCont
<1>3. QED
  BY <1>1, <1>2

\* The message of `tscreen -d'.
LEMMA ReceiveDetachKeeps ==
  ASSUME IInv, ReceiveDetach
  PROVE  IInv'
<1>1. PICK m \in Messages : /\ m = Received /\ Head(backlog).pid = m.pid
                            /\ m.type = "MSG_DETACH" <=> kind[m.pid] = "d"
                            /\ Asking(m.pid) /\ ~Displayed(m.pid)
  BY RequestShape DEF Requests, ReceiveDetach
<1>2. /\ NextConnection /\ UNCHANGED <<pc, kind, tty>> /\ TypeOK /\ DisplaysWell
      /\ mode \in {Attached, Detached} /\ displays \subseteq DisplayType
      /\ pend \in [Attachers -> SUBSET Signals]
      /\ m.type = "MSG_DETACH" /\ kind[m.pid] = "d" /\ m.pid \in Attachers
  BY <1>1 DEF ReceiveDetach, NextConnection, IInv, TypeOK, DisplayType, Messages
<1>3. /\ Received.type \in Requests /\ "SIG_BYE" \in Byes
      /\ \A a \in Attachers : Expecting(a) => a # m.pid /\ Alive(a)
  BY <1>2, ExpectingAlive DEF ReceiveDetach, Requests, Byes, Expecting
<1>4. ASSUME mode' \in {Attached, Detached}, displays' = displays, Grows(pend, pend')
      PROVE  IInv'
  <2>1. displays' \subseteq DisplayType /\ displays' \subseteq displays
    BY <1>2, <1>4
  <2>2. DisplaysWell' /\ \A a \in Attachers : Displayed(a)' <=> Displayed(a)
    BY <1>2, <1>4, <2>1, FewerDisplays DEF Displayed
  <2>3. QED
    BY <1>1, <1>2, <1>3, <1>4, <2>1, <2>2, ReceiveKeeps
<1>5. CASE FinishDetach(m)
  <2>1. /\ mode' \in {Attached, Detached} /\ displays' = {}
        /\ Grows(pend, pend')
        /\ \A a \in Attachers : Alive(a) /\ Displayed(a) /\ a # m.pid => "SIG_BYE" \in pend'[a]
    BY <1>2, <1>5, FinishDetachEffect
  <2>2. displays' \subseteq DisplayType /\ displays' \subseteq displays
    BY <2>1
  <2>3. DisplaysWell' /\ \A a \in Attachers : Displayed(a)' => Displayed(a)
    BY <1>2, <2>2, FewerDisplays
  <2>4. ASSUME NEW a \in Attachers, Expecting(a), Displayed(a) \/ a = m.pid
        PROVE  pend'[a] \cap Byes # {}
    BY <1>3, <2>1, <2>4
  <2>5. QED
    BY <1>1, <1>2, <2>1, <2>2, <2>3, <2>4, ReceiveKeeps
<1>6. CASE Ignore
  BY <1>2, <1>4, <1>6, GrowsReflexive DEF Ignore
<1>7. CASE Refuse(m.pid, pend)
  BY <1>2, <1>4, <1>7, ByeGrows DEF Refuse
<1>8. CASE displays' = displays \union {Display(m, TRUE)} /\ UNCHANGED <<mode, pend>>
  <2>0. /\ Display(m, TRUE) \in DisplayType /\ Display(m, TRUE).pid = m.pid
        /\ Display(m, TRUE).msg = m /\ Display(m, TRUE).prompt
    BY <1>2 DEF Display, DisplayType
  <2>1. PICK n \in DisplayType : n = Display(m, TRUE) /\ n.pid = m.pid /\ n.msg = m /\ n.prompt
    BY <2>0
  <2>2. displays' = displays \union {n}
    BY <1>8, <2>1
  <2>3. displays' \subseteq displays \union {n} /\ displays' \subseteq DisplayType
    BY <1>2, <2>2
  <2>4. DisplaySound(n)
    BY <1>2, <2>1 DEF DisplaySound, Requests
  <2>5. \A e \in displays' \ {n} :
          /\ e.pid # n.pid
          /\ tty[e.pid] = tty[n.pid] => "MSG_DETACH" \in {e.msg.type, n.msg.type}
    BY <1>1, <1>2, <2>1, <2>2 DEF Displayed
  <2>6. DisplaysWell' /\ \A a \in Attachers : Displayed(a)' => Displayed(a) \/ a = n.pid
    BY <1>2, <2>3, <2>4, <2>5, NewDisplay
  <2>7. \A a \in Attachers : Displayed(a) \/ a = m.pid => Displayed(a)'
    BY <2>1, <2>2 DEF Displayed
  <2>8. mode' \in {Attached, Detached} /\ Grows(pend, pend')
    BY <1>2, <1>8, GrowsReflexive
  <2>9. \A a \in Attachers :
          Displayed(a)' => Displayed(a) \/ (a = Head(backlog).pid /\ Received.type \in Requests)
    BY <1>1, <1>3, <2>1, <2>6
  <2>10. \A a \in Attachers :
           /\ Expecting(a)
           /\ Displayed(a) \/ (a = Head(backlog).pid /\ Received.type \in Requests)
           => Displayed(a)' \/ pend'[a] \cap Byes # {}
    BY <1>1, <2>7
  <2>11. QED
    BY <1>2, <2>3, <2>6, <2>8, <2>9, <2>10, ReceiveKeeps
<1>9. QED
  BY <1>1, <1>5, <1>6, <1>7, <1>8 DEF ReceiveDetach

\* Detach: the display goes, and its attacher gets the signal.
LEMMA DetachEffect ==
  ASSUME IInv, UNCHANGED <<kind, tty>>, NEW d \in displays, NEW sig \in DetachSignals,
         Detach(d, sig)
  PROVE  /\ mode' \in {Attached, Detached} /\ displays' \subseteq DisplayType
         /\ d.pid \in Attachers /\ DisplaySound(d) /\ Displayed(d.pid) /\ ~Displayed(d.pid)'
         /\ DisplaysWell'
         /\ \A a \in Attachers : Displayed(a)' => Displayed(a)
         /\ \A a \in Attachers \ {d.pid} : Displayed(a) => Displayed(a)'
         /\ pend' \in [Attachers -> SUBSET Signals]
         /\ \A a \in Attachers :
              pend'[a] = IF a = d.pid /\ Alive(a) THEN pend[a] \union {sig} ELSE pend[a]
<1>1. /\ mode \in {Attached, Detached} /\ displays \subseteq DisplayType
      /\ pend \in [Attachers -> SUBSET Signals] /\ d.pid \in Attachers
      /\ DisplaySound(d) /\ Displayed(d.pid)
  BY DEF IInv, TypeOK, DisplayType, DisplaysWell, Displayed
<1>2. /\ displays' = displays \ {d}
      /\ mode' = IF displays' = {} THEN Detached ELSE mode
      /\ pend' = Kill({d.pid}, sig, pend)
  BY DEF Detach
<1>3. /\ mode' \in {Attached, Detached} /\ displays' \subseteq DisplayType
      /\ displays' \subseteq displays
  BY <1>1, <1>2
<1>4. DisplaysWell' /\ \A a \in Attachers : Displayed(a)' => Displayed(a)
  BY <1>3, FewerDisplays
<1>5. ~Displayed(d.pid)'
  <2>1. \A e \in displays \ {d} : e.pid # d.pid
    BY DEF IInv, DisplaysWell
  <2>2. PICK l : l = d.pid
    OBVIOUS
  <2>3. ~Displayed(l)'
    BY <1>2, <2>1, <2>2 DEF Displayed
  <2>4. QED
    BY <1>2, <2>1 DEF Displayed
<1>6. \A a \in Attachers \ {d.pid} : Displayed(a) => Displayed(a)'
  BY <1>2 DEF Displayed
<1>7. sig \in Signals
  BY DEF DetachSignals, Signals
<1>8. /\ pend' \in [Attachers -> SUBSET Signals]
      /\ \A a \in Attachers :
           pend'[a] = IF a = d.pid /\ Alive(a) THEN pend[a] \union {sig} ELSE pend[a]
  <2>1. /\ Kill({d.pid}, sig, pend) \in [Attachers -> SUBSET Signals]
        /\ \A a \in Attachers : Kill({d.pid}, sig, pend)[a] =
             IF a \in {d.pid} /\ Alive(a) THEN pend[a] \union {sig} ELSE pend[a]
    BY <1>1, <1>7, KillShape
  <2>2. QED
    BY <1>2, <2>1
<1>9. QED
  BY <1>1, <1>3, <1>4, <1>5, <1>6, <1>8

\* What the server does while no connection waits for it: no display comes to an
\* attacher that had none, and whoever loses one is told, or told to stop.
LEMMA ServeKeeps ==
  ASSUME IInv,
         UNCHANGED <<up, backlog, pc, kind, tty, dflag, handlers, flags, cont, early, returns>>,
         accepting' \in BOOLEAN, hungup' \in [Attachers -> BOOLEAN], ServerSound',
         mode' \in {Attached, Detached}, displays' \subseteq DisplayType, DisplaysWell',
         pend' \in [Attachers -> SUBSET Signals],
         \A a \in Attachers :
           /\ Displayed(a)' => Displayed(a)
           /\ pend[a] \subseteq pend'[a]
           /\ pc[a] \in Unasked => pend'[a] \subseteq {"SIG_BYE"}
           /\ \/ pend'[a] \cap StopSignals = pend[a] \cap StopSignals
              \/ Displayed(a) /\ ~Displayed(a)' /\ kind[a] # "d" /\ ~(StopSignals \subseteq pend'[a])
           /\ Expecting(a) /\ Displayed(a) => Displayed(a)' \/ Signalled(a)'
  PROVE  IInv'
<1>1. TypeOK'
  BY DEF IInv, TypeOK, DisplayType
<1>2. ConnectionsSound' /\ OneConnection' /\ \A a \in Attachers : Asking(a)' <=> Asking(a)
  BY SameBacklog
<1>3. \A a \in Attachers : up' => up /\ pend[a] \subseteq pend'[a]
  OBVIOUS
<1>4. \A a \in Attachers :
        up' /\ Expecting(a) /\ (Asking(a) \/ Displayed(a))
          => Asking(a)' \/ Displayed(a)' \/ Signalled(a)'
  BY <1>2
<1>5. QED
  BY <1>1, <1>2, <1>3, <1>4, HandlerKeeps

\* Signals that grow, and a signal that says good bye to whoever loses a display.
LEMMA GrowsKeeps ==
  ASSUME IInv,
         UNCHANGED <<up, backlog, pc, kind, tty, dflag, handlers, flags, cont, early, returns>>,
         accepting' \in BOOLEAN, hungup' \in [Attachers -> BOOLEAN], ServerSound',
         mode' \in {Attached, Detached}, displays' \subseteq DisplayType, DisplaysWell',
         Grows(pend, pend'),
         \A a \in Attachers :
           /\ Displayed(a)' => Displayed(a)
           /\ Expecting(a) /\ Displayed(a) => Displayed(a)' \/ pend'[a] \cap Byes # {}
  PROVE  IInv'
<1>1. /\ pend' \in [Attachers -> SUBSET Signals]
      /\ \A a \in Attachers :
           /\ pend[a] \subseteq pend'[a]
           /\ pend'[a] \cap StopSignals = pend[a] \cap StopSignals
           /\ pc[a] \in Unasked => pend'[a] \subseteq {"SIG_BYE"}
  BY GrowsOrders
<1>2. \A a \in Attachers : Expecting(a) /\ Displayed(a) => Displayed(a)' \/ Signalled(a)'
  BY DEF Signalled
<1>3. QED
  BY <1>1, <1>2, ServeKeeps

\* The server detaches a display; a stop signal goes to one that is initialised.
LEMMA DetachKeeps ==
  ASSUME IInv,
         UNCHANGED <<up, backlog, accepting, pc, kind, tty, dflag, handlers, flags, cont, early,
                     hungup, returns>>,
         NEW d \in displays, NEW sig \in DetachSignals, sig = "SIG_BYE" \/ ~d.prompt,
         Detach(d, sig)
  PROVE  IInv'
<1>1. /\ mode' \in {Attached, Detached} /\ displays' \subseteq DisplayType
      /\ d.pid \in Attachers /\ DisplaySound(d) /\ Displayed(d.pid) /\ ~Displayed(d.pid)'
      /\ DisplaysWell'
      /\ \A a \in Attachers : Displayed(a)' => Displayed(a)
      /\ \A a \in Attachers \ {d.pid} : Displayed(a) => Displayed(a)'
      /\ pend' \in [Attachers -> SUBSET Signals]
      /\ \A a \in Attachers :
           pend'[a] = IF a = d.pid /\ Alive(a) THEN pend[a] \union {sig} ELSE pend[a]
  BY DetachEffect
<1>2. /\ accepting' \in BOOLEAN /\ hungup' \in [Attachers -> BOOLEAN] /\ ServerSound'
  BY DEF IInv, TypeOK, ServerSound
<1>3. pc[d.pid] \notin Unasked /\ pend[d.pid] \cap StopSignals = {}
  BY <1>1 DEF IInv, OnePlace, Told, Stopping
<1>4. sig \in StopSignals => kind[d.pid] # "d"
  BY <1>1 DEF DisplaySound, StopSignals
<1>5. sig \in Byes \union StopSignals
  BY DEF DetachSignals, Byes, StopSignals
<1>6. ASSUME NEW a \in Attachers
      PROVE  /\ pend[a] \subseteq pend'[a]
             /\ pc[a] \in Unasked => pend'[a] \subseteq {"SIG_BYE"}
             /\ \/ pend'[a] \cap StopSignals = pend[a] \cap StopSignals
                \/ Displayed(a) /\ ~Displayed(a)' /\ kind[a] # "d" /\ ~(StopSignals \subseteq pend'[a])
             /\ Expecting(a) /\ Displayed(a) => Displayed(a)' \/ Signalled(a)'
  <2>1. pc[a] \in Unasked => pend[a] \subseteq {"SIG_BYE"}
    BY DEF IInv, OneOrder, OrderSound
  <2>2. CASE a = d.pid
    <3>0. Displayed(a) /\ ~Displayed(a)'
      BY <1>1, <2>2 DEF Displayed
    <3>1. CASE Alive(a)
      <4>1. pend'[a] = pend[a] \union {sig}
        BY <1>1, <2>2, <3>1
      <4>2. ~(StopSignals \subseteq pend'[a])
        BY <1>3, <2>2, <4>1 DEF StopSignals
      <4>3. sig \notin StopSignals => pend'[a] \cap StopSignals = pend[a] \cap StopSignals
        BY <4>1
      <4>4. Signalled(a)'
        BY <1>5, <4>1 DEF Signalled, Stopping
      <4>5. QED
        BY <1>3, <1>4, <2>2, <3>0, <4>1, <4>2, <4>3, <4>4
    <3>2. CASE ~Alive(a)
      BY <1>1, <1>3, <2>2, <3>2, ExpectingAlive
    <3>3. QED
      BY <3>1, <3>2
  <2>3. CASE a # d.pid
    BY <1>1, <2>1, <2>3
  <2>4. QED
    BY <2>2, <2>3
<1>7. QED
  BY <1>1, <1>2, <1>6, ServeKeeps

LEMMA UserDetachKeeps ==
  ASSUME IInv, NEW d \in displays, NEW sig \in DetachSignals, UserDetach(d, sig)
  PROVE  IInv'
BY DetachKeeps DEF UserDetach, Input, Idle

LEMMA ReadEofKeeps ==
  ASSUME IInv, NEW d \in displays, ReadEof(d)
  PROVE  IInv'
<1>1. "SIG_BYE" \in DetachSignals
  BY DEF DetachSignals
<1>2. QED
  BY <1>1, DetachKeeps DEF ReadEof

\* MSG_HANGUP: a display of the terminal goes, if it has one.
LEMMA ReceiveHangupKeeps ==
  ASSUME IInv, ReceiveHangup
  PROVE  IInv'
<1>1. NextConnection /\ Received.type \notin Requests /\ UNCHANGED <<pc, kind, tty>>
  BY DEF ReceiveHangup, Requests, NextConnection
<1>2. CASE Ignore
  BY <1>1, <1>2, IgnoreKeeps
<1>3. ASSUME NEW d \in DisplaysOn(SenderTty), Detach(d, "SIG_BYE")
      PROVE  IInv'
  <2>1. d \in displays /\ "SIG_BYE" \in DetachSignals
    BY <1>3 DEF DisplaysOn, DetachSignals
  <2>2. /\ mode' \in {Attached, Detached} /\ displays' \subseteq DisplayType
        /\ d.pid \in Attachers
        /\ DisplaysWell'
        /\ \A a \in Attachers : Displayed(a)' => Displayed(a)
        /\ \A a \in Attachers \ {d.pid} : Displayed(a) => Displayed(a)'
        /\ pend' \in [Attachers -> SUBSET Signals]
        /\ \A a \in Attachers :
             pend'[a] = IF a = d.pid /\ Alive(a) THEN pend[a] \union {"SIG_BYE"} ELSE pend[a]
    BY <1>1, <1>3, <2>1, DetachEffect
  <2>3. Grows(pend, pend')
    BY <2>2 DEF Grows, Byes
  <2>4. ASSUME NEW a \in Attachers, Expecting(a), Displayed(a)
        PROVE  Displayed(a)' \/ pend'[a] \cap Byes # {}
    <3>1. a = d.pid => "SIG_BYE" \in pend'[a]
      BY <2>2, <2>4, ExpectingAlive
    <3>2. QED
      BY <2>2, <2>4, <3>1 DEF Byes
  <2>5. QED
    BY <1>1, <2>2, <2>3, <2>4, ReceiveKeeps
<1>4. QED
  BY <1>2, <1>3 DEF ReceiveHangup

\* The server ends, and says good bye.
LEMMA FinitKeeps ==
  ASSUME IInv, Finit
  PROVE  IInv'
<1>1. /\ ~up' /\ displays' = {} /\ backlog' = <<>> /\ accepting' = FALSE /\ up' \in BOOLEAN
      /\ pend' = Kill(Pids(displays), "SIG_BYE", pend)
      /\ UNCHANGED <<mode, pc, kind, tty, dflag, handlers, flags, cont, early, hungup, returns>>
  BY DEF Finit
<1>2. Grows(pend, pend')
  BY <1>1, ByeGrows DEF IInv, TypeOK
<1>3. /\ pend' \in [Attachers -> SUBSET Signals]
      /\ \A a \in Attachers :
           /\ pend[a] \subseteq pend'[a]
           /\ pend'[a] \cap StopSignals = pend[a] \cap StopSignals
           /\ pc[a] \in Unasked => pend'[a] \subseteq {"SIG_BYE"}
  BY <1>2, GrowsOrders
<1>4. TypeOK'
  <2>1. <<>> \in Seq([pid : Attachers, data : Messages \union {NoData}, open : BOOLEAN])
    OBVIOUS
  <2>2. QED
    BY <1>1, <1>3, <2>1 DEF IInv, TypeOK
<1>5. ServerSound' /\ ConnectionsSound' /\ OneConnection' /\ DisplaysWell'
  BY <1>1 DEF ServerSound, ConnectionsSound, OneConnection, DisplaysWell
<1>6. \A a \in Attachers : ~Asking(a)' /\ ~Displayed(a)'
  BY <1>1 DEF Asking, Displayed
<1>7. QED
  BY <1>1, <1>3, <1>4, <1>5, <1>6, HandlerKeeps

LEMMA FinitActionsKeep ==
  ASSUME IInv, ReceiveHangupFinit \/ (\E d \in displays : ReadEofFinit(d)) \/ LastWindowDied
  PROVE  IInv'
<1>1. Finit
  BY DEF ReceiveHangupFinit, ReadEofFinit, LastWindowDied
<1>2. QED
  BY <1>1, FinitKeeps

\* The right password: the display is initialised, or `tscreen -d' is done.
LEMMA PasswordOkKeeps ==
  ASSUME IInv, NEW d \in displays, PasswordOk(d)
  PROVE  IInv'
<1>0. /\ UNCHANGED <<up, backlog, accepting, pc, kind, tty, dflag, handlers, flags, cont, early,
                     hungup, returns>>
      /\ TypeOK /\ DisplaysWell
      /\ d \in DisplayType /\ d.pid \in Attachers /\ d.msg \in Messages
      /\ displays \subseteq DisplayType /\ pend \in [Attachers -> SUBSET Signals]
      /\ DisplaySound(d) /\ Displayed(d.pid)
  BY DEF PasswordOk, Input, IInv, TypeOK, DisplayType, DisplaysWell, Displayed
<1>1. /\ accepting' \in BOOLEAN /\ hungup' \in [Attachers -> BOOLEAN] /\ ServerSound'
  BY <1>0 DEF IInv, TypeOK, ServerSound
<1>2. "SIG_BYE" \in Byes /\ \A a \in Attachers : Expecting(a) => Alive(a) /\ kind[a] # "d"
  BY ExpectingAlive DEF Byes, Expecting
<1>3. CASE d.msg.type = "MSG_DETACH" /\ FinishDetach(d.msg)
  <2>1. /\ mode' \in {Attached, Detached} /\ displays' = {}
        /\ Grows(pend, pend')
        /\ \A a \in Attachers :
             Alive(a) /\ Displayed(a) /\ a # d.msg.pid => "SIG_BYE" \in pend'[a]
    BY <1>0, <1>3, FinishDetachEffect
  <2>2. displays' \subseteq displays /\ displays' \subseteq DisplayType
    BY <2>1
  <2>3. DisplaysWell' /\ \A a \in Attachers : Displayed(a)' => Displayed(a)
    BY <1>0, <2>2, FewerDisplays
  <2>4. kind[d.pid] = "d" /\ d.msg.pid = d.pid
    BY <1>0, <1>3 DEF DisplaySound
  <2>5. ASSUME NEW a \in Attachers, Expecting(a), Displayed(a) PROVE pend'[a] \cap Byes # {}
    BY <1>2, <2>1, <2>4, <2>5
  <2>6. QED
    BY <1>0, <1>1, <2>1, <2>2, <2>3, <2>5, GrowsKeeps
<1>4. CASE d.msg.type # "MSG_DETACH" /\ FinishAttach(d, pend)
  <2>1. /\ mode' \in {Attached, Detached}
        /\ Grows(pend, pend')
        /\ \E n \in DisplayType :
             /\ n.pid = d.pid /\ n.msg = d.msg /\ ~n.prompt
             /\ displays' \subseteq {e \in displays : e.pid # d.pid} \union {n}
        /\ \A a \in Attachers :
             Alive(a) /\ (Displayed(a) \/ a = d.pid) => Displayed(a)' \/ "SIG_BYE" \in pend'[a]
    BY <1>0, <1>4, FinishAttachIs, FinishAttachEffect
  <2>2. PICK n \in DisplayType :
             /\ n.pid = d.pid /\ n.msg = d.msg /\ ~n.prompt
             /\ displays' \subseteq {e \in displays : e.pid # d.pid} \union {n}
    BY <2>1
  <2>3. displays' \subseteq DisplayType /\ displays' \subseteq displays \union {n}
    BY <1>0, <2>2
  <2>4. DisplaySound(n)
    BY <1>0, <1>4, <2>2 DEF DisplaySound
  <2>5. \A e \in displays' \ {n} :
          /\ e.pid # n.pid
          /\ tty[e.pid] = tty[n.pid] => "MSG_DETACH" \in {e.msg.type, n.msg.type}
    <3>1. ASSUME NEW e \in displays' \ {n}
          PROVE  /\ e.pid # n.pid
                 /\ tty[e.pid] = tty[n.pid] => "MSG_DETACH" \in {e.msg.type, n.msg.type}
      <4>1. e \in displays /\ e.pid # d.pid
        BY <2>2, <3>1
      <4>2. tty[e.pid] = tty[d.pid] => e.msg.type = "MSG_DETACH"
        BY <1>4, <4>1 DEF IInv, DisplaysWell
      <4>3. QED
        BY <2>2, <4>1, <4>2
    <3>2. QED
      BY <3>1
  <2>6. DisplaysWell' /\ \A a \in Attachers : Displayed(a)' => Displayed(a) \/ a = n.pid
    BY <1>0, <2>3, <2>4, <2>5, NewDisplay
  <2>7. \A a \in Attachers : Displayed(a)' => Displayed(a)
    BY <1>0, <2>2, <2>6
  <2>8. ASSUME NEW a \in Attachers, Expecting(a), Displayed(a)
        PROVE  Displayed(a)' \/ pend'[a] \cap Byes # {}
    BY <1>2, <2>1, <2>8
  <2>9. QED
    BY <1>0, <1>1, <2>1, <2>3, <2>6, <2>7, <2>8, GrowsKeeps
<1>5. QED
  BY <1>3, <1>4 DEF PasswordOk

\* The wrong password: the display goes.
LEMMA PasswordBadKeeps ==
  ASSUME IInv, NEW d \in displays, PasswordBad(d)
  PROVE  IInv'
<1>0. /\ UNCHANGED <<up, backlog, accepting, pc, kind, tty, dflag, handlers, flags, cont, early,
                     hungup, returns>>
      /\ displays' = displays \ {d} /\ mode' = mode
      /\ pend' = Kill({d.pid}, "SIG_BYE", pend)
      /\ TypeOK /\ pend \in [Attachers -> SUBSET Signals] /\ displays \subseteq DisplayType
      /\ mode \in {Attached, Detached}
  BY DEF PasswordBad, Input, IInv, TypeOK, DisplayType
<1>1. /\ accepting' \in BOOLEAN /\ hungup' \in [Attachers -> BOOLEAN] /\ ServerSound'
  BY <1>0 DEF IInv, TypeOK, ServerSound
<1>2. /\ Grows(pend, pend')
      /\ \A a \in Attachers : a \in {d.pid} /\ Alive(a) => "SIG_BYE" \in pend'[a]
  BY <1>0, ByeGrows
<1>3. displays' \subseteq displays /\ displays' \subseteq DisplayType /\ mode' \in {Attached, Detached}
  BY <1>0
<1>4. DisplaysWell' /\ \A a \in Attachers : Displayed(a)' => Displayed(a)
  BY <1>0, <1>3, FewerDisplays
<1>5. ASSUME NEW a \in Attachers, Expecting(a), Displayed(a)
      PROVE  Displayed(a)' \/ pend'[a] \cap Byes # {}
  <2>1. CASE a = d.pid
    BY <1>2, <1>5, <2>1, ExpectingAlive DEF Byes
  <2>2. CASE a # d.pid
    BY <1>0, <1>5, <2>2 DEF Displayed
  <2>3. QED
    BY <2>1, <2>2
<1>6. QED
  BY <1>0, <1>1, <1>2, <1>3, <1>4, <1>5, GrowsKeeps

\* The server takes a connection, and a terminal goes away: neither touches a
\* display or a request.
LEMMA AcceptKeeps ==
  ASSUME IInv, Accept
  PROVE  IInv'
<1>0. /\ UNCHANGED <<up, displays, mode, backlog, pc, kind, tty, dflag, handlers, pend, flags, cont,
                     early, hungup, returns>>
      /\ accepting' = TRUE /\ up /\ backlog # <<>>
  BY DEF Accept, Idle, client
<1>1. /\ accepting' \in BOOLEAN /\ hungup' \in [Attachers -> BOOLEAN] /\ ServerSound'
      /\ mode' \in {Attached, Detached} /\ displays' \subseteq DisplayType
      /\ displays' \subseteq displays /\ pend \in [Attachers -> SUBSET Signals]
  BY <1>0 DEF IInv, TypeOK, ServerSound, DisplayType
<1>2. DisplaysWell' /\ \A a \in Attachers : Displayed(a)' <=> Displayed(a)
  BY <1>0, <1>1, FewerDisplays DEF Displayed
<1>3. Grows(pend, pend')
  BY <1>0, <1>1, GrowsReflexive
<1>4. QED
  BY <1>0, <1>1, <1>2, <1>3, GrowsKeeps

LEMMA HupKeeps ==
  ASSUME IInv, NEW t, Hup(t)
  PROVE  IInv'
<1>0. /\ UNCHANGED <<up, displays, mode, backlog, accepting, pc, kind, tty, dflag, handlers, flags,
                     cont, early, returns>>
      /\ hungup' = [a \in Attachers |-> hungup[a] \/ tty[a] = t]
      /\ pend' = Kill({a \in Attachers : tty[a] = t}, "SIG_BYE", pend)
  BY DEF Hup, server
<1>1. /\ accepting' \in BOOLEAN /\ ServerSound'
      /\ mode' \in {Attached, Detached} /\ displays' \subseteq DisplayType
      /\ displays' \subseteq displays /\ pend \in [Attachers -> SUBSET Signals]
  BY <1>0 DEF IInv, TypeOK, ServerSound, DisplayType
<1>2. hungup' \in [Attachers -> BOOLEAN]
  <2>1. \A a \in Attachers : (hungup[a] \/ tty[a] = t) \in BOOLEAN
    OBVIOUS
  <2>2. QED
    BY <1>0, <2>1
<1>3. DisplaysWell' /\ \A a \in Attachers : Displayed(a)' <=> Displayed(a)
  BY <1>0, <1>1, FewerDisplays DEF Displayed
<1>4. Grows(pend, pend')
  BY <1>0, <1>1, ByeGrows
<1>5. QED
  BY <1>0, <1>1, <1>2, <1>3, <1>4, GrowsKeeps

-----------------------------------------------------------------------------
(* The theorems.                                                           *)

\* Every step keeps the invariant.
LEMMA NextKeeps == IInv /\ [Next]_vars => IInv'
<1> SUFFICES ASSUME IInv, [Next]_vars PROVE IInv'
  OBVIOUS
<1>1. CASE UNCHANGED vars
  <2>1. UNCHANGED <<up, displays, mode, backlog, accepting, pc, kind, tty, dflag, handlers, pend,
                    flags, cont, early, hungup, returns>>
    BY <1>1 DEF vars, server, client
  <2>2. /\ accepting' \in BOOLEAN /\ hungup' \in [Attachers -> BOOLEAN] /\ ServerSound'
        /\ mode' \in {Attached, Detached} /\ displays' \subseteq DisplayType
        /\ displays' \subseteq displays /\ pend \in [Attachers -> SUBSET Signals]
    BY <2>1 DEF IInv, TypeOK, ServerSound, DisplayType
  <2>3. DisplaysWell' /\ \A a \in Attachers : Displayed(a)' <=> Displayed(a)
    BY <2>1, <2>2, FewerDisplays DEF Displayed
  <2>4. Grows(pend, pend')
    BY <2>1, <2>2, GrowsReflexive
  <2>5. QED
    BY <2>1, <2>2, <2>3, <2>4, GrowsKeeps
<1>2. CASE ServerStep
  <2>1. CASE Accept
    BY <2>1, AcceptKeeps
  <2>2. CASE Receive
    BY <2>2, ReceiveNothingKeeps, ReceiveAttachKeeps, ReceiveContKeeps, ReceiveDetachKeeps,
       ReceiveHangupKeeps, FinitActionsKeep DEF Receive
  <2>3. CASE LastWindowDied
    BY <2>3, FinitActionsKeep
  <2>4. ASSUME NEW d \in displays,
               \/ PasswordOk(d) \/ PasswordBad(d) \/ ReadEof(d) \/ ReadEofFinit(d)
               \/ \E sig \in DetachSignals : UserDetach(d, sig)
        PROVE  IInv'
    BY <2>4, PasswordOkKeeps, PasswordBadKeeps, ReadEofKeeps, FinitActionsKeep, UserDetachKeeps
  <2>5. QED
    BY <1>2, <2>1, <2>2, <2>3, <2>4 DEF ServerStep
<1>3. ASSUME NEW a \in Attachers, AttacherStep(a)
      PROVE  IInv'
  <2>1. CASE Resume(a) \/ Unlock(a)
    BY <2>1, SendContKeeps DEF Resume, Unlock
  <2>2. CASE FindSocket(a) \/ CheckMode(a) \/ Send(a) \/ Awake(a) \/ FinitSend(a)
    BY <2>2, FindSocketKeeps, CheckModeKeeps, SendKeeps, AwakeKeeps, FinitSendKeeps
  <2>3. CASE \/ TestContinue(a) \/ Pause(a) \/ EnterAttacher(a) \/ Nap(a) \/ Alarm(a)
             \/ FinitLook(a) \/ ResumeEarly(a)
    BY <2>3, QuietKeeps
  <2>4. CASE \E s \in Signals : Deliver(a, s)
    BY <2>4, DeliverKeeps
  <2>5. QED
    BY <1>3, <2>1, <2>2, <2>3, <2>4 DEF AttacherStep
<1>4. ASSUME NEW a \in Attachers, Hup(tty[a])
      PROVE  IInv'
  BY <1>4, HupKeeps
<1>5. QED
  BY <1>1, <1>2, <1>3, <1>4 DEF Next

\* IInv is an invariant, for any attachers, command lines, terminals, passwords
\* and guests.
THEOREM Inductive == Spec => []IInv
BY InitEstablishes, NextKeeps, PTL DEF Spec

\* Every variable has its type, always.
THEOREM TypeCorrect == Spec => []TypeOK
<1>1. IInv => TypeOK
  BY DEF IInv
<1>2. QED
  BY <1>1, Inductive, PTL

\* No terminal is driven by two initialised displays, and an attacher that is
\* stopped, or locks its terminal, has none.
THEOREM DisplaysCorrect == Spec => []DisplaysSound
<1>1. IInv => DisplaysSound
  <2> SUFFICES ASSUME IInv PROVE DisplaysSound
    OBVIOUS
  <2>1. OneDisplayPerTerminal
    BY DEF IInv, DisplaysWell, DisplaySound, OneDisplayPerTerminal, AttachedDisplays
  <2>2. LockedMeansDetached
    BY DEF IInv, OnePlace, Told, Away, Displayed, LockedMeansDetached
  <2>3. QED
    BY <2>1, <2>2 DEF IInv, DisplaysSound
<1>2. QED
  BY <1>1, Inductive, PTL

\* An attacher that sleeps in its loop has a display, or something is under way
\* for it: nothing the server does leaves it waiting for ever.
THEOREM NobodyForgotten == Spec => []NoOrphanAttacher
<1>1. IInv => NoOrphanAttacher
  <2> SUFFICES ASSUME IInv, NEW a \in Attachers,
                      up, pc[a] \in {"prenap", "nap", "awake"}, ~SentByOrPending(a),
                      early[a] = "no",
                      \A b \in Attachers : tty[b] = tty[a] => b = a
               PROVE  \E d \in displays : d.pid = a
    BY DEF NoOrphanAttacher
  <2>1. Expecting(a)
    BY DEF IInv, NoneForgotten, Expecting, Inside, Alone
  <2>2. ~Asking(a) /\ ~Signalled(a)
    BY DEF SentByOrPending, Asking, Signalled, Stopping
  <2>3. QED
    BY <2>1, <2>2 DEF IInv, NoneForgotten, Displayed
<1>2. QED
  BY <1>1, Inductive, PTL

-----------------------------------------------------------------------------
(* The mode of the socket, and -d -r.                                      *)

\* Without session passwords every display is initialised, and the mode is right.
ModeHonest ==
  /\ \A d \in displays : ~d.prompt
  /\ up => (mode = Attached <=> displays # {})

\* FinishAttach marks the socket.
LEMMA FinishAttachHonest ==
  ASSUME TypeOK, NEW d \in DisplayType, NEW p, Attaches(d, p), ModeHonest, up, ~Displayed(d.pid)
  PROVE  ModeHonest'
<1>1. Others(d.pid) = displays
  BY DEF Others, Displayed
<1>2. PICK others : others = IF d.msg.detachfirst THEN {} ELSE displays
  OBVIOUS
<1>3. PICK before : before = IF d.msg.detachfirst /\ Others(d.pid) # {} THEN Detached ELSE mode
  OBVIOUS
<1>4. PICK n : n = [d EXCEPT !.prompt = FALSE]
  OBVIOUS
<1>5. ~n.prompt
  BY <1>4 DEF DisplayType
<1>6. \/ displays' = others /\ mode' = before
      \/ displays' = others \union {n} /\ mode' = (IF others = {} THEN Attached ELSE before)
  BY <1>1, <1>2, <1>3, <1>4 DEF Attaches
<1>7. /\ mode \in {Attached, Detached} /\ Attached # Detached
      /\ (mode = Attached) <=> (displays # {})
  BY DEF TypeOK, Attached, Detached, ModeHonest
<1>8. (before = Attached) <=> (others # {})
  <2>1. CASE d.msg.detachfirst
    BY <1>1, <1>2, <1>3, <1>7, <2>1
  <2>2. CASE ~d.msg.detachfirst
    BY <1>2, <1>3, <1>7, <2>2
  <2>3. QED
    BY <2>1, <2>2
<1>9. \A e \in others \union {n} : ~e.prompt
  BY <1>2, <1>5 DEF ModeHonest
<1>10. QED
  BY <1>6, <1>8, <1>9 DEF ModeHonest

\* Detach marks the socket.
LEMMA DetachHonest ==
  ASSUME TypeOK, NEW d \in displays, NEW sig, Detach(d, sig), ModeHonest, up
  PROVE  ModeHonest'
<1>1. /\ displays' = displays \ {d}
      /\ mode' = IF displays' = {} THEN Detached ELSE mode
  BY DEF Detach
<1>2. mode = Attached /\ Attached # Detached
  BY DEF ModeHonest, Attached, Detached
<1>3. QED
  BY <1>1, <1>2 DEF ModeHonest

\* What reads a request keeps the mode right.
LEMMA AttachRequestHonest ==
  ASSUME Passwords = {}, IInv, NextConnection, Received.type \in {"MSG_ATTACH", "MSG_CONT"},
         AttachRequest(Received), ModeHonest
  PROVE  ModeHonest'
<1>1. PICK m \in Messages : m = Received /\ ~Displayed(m.pid)
  BY RequestShape DEF Requests
<1>2. TypeOK /\ DisplaysWell /\ up /\ up' = up /\ m.pid \in Attachers
  BY DEF IInv, NextConnection, Messages
<1>3. CASE displays' = displays /\ mode' = mode
  BY <1>2, <1>3 DEF ModeHonest
<1>4. CASE FinishAttach(Display(m, TRUE), Continue(m.pid, pend))
  <2>1. /\ Display(m, TRUE) \in DisplayType /\ Display(m, TRUE).pid = m.pid
    BY <1>2 DEF Display, DisplayType
  <2>2. PICK d \in DisplayType : d = Display(m, TRUE) /\ d.pid = m.pid
    BY <2>1
  <2>3. PICK p : p = Continue(m.pid, pend)
    OBVIOUS
  <2>4. FinishAttach(d, p) /\ ~Displayed(d.pid)
    BY <1>1, <1>4, <2>2, <2>3
  <2>5. Attaches(d, p)
    BY <1>2, <2>4, FinishAttachIs
  <2>6. QED
    BY <1>2, <2>4, <2>5, FinishAttachHonest
<1>5. QED
  BY <1>1, <1>3, <1>4 DEF AttachRequest, Ignore, Refuse

LEMMA ModeHonestKept ==
  ASSUME Passwords = {}, IInv, [Next]_vars, ModeHonest
  PROVE  ModeHonest'
<1>1. CASE UNCHANGED <<up, displays, mode>>
  BY <1>1 DEF ModeHonest
<1>2. CASE Finit
  BY <1>2 DEF Finit, ModeHonest
<1>3. ASSUME NEW d \in displays, NEW sig, Detach(d, sig), up
      PROVE  ModeHonest'
  BY <1>3, DetachHonest DEF IInv
<1>4. CASE ReceiveAttach
  BY <1>4, AttachRequestHonest DEF ReceiveAttach
<1>5. CASE ReceiveCont
  <2>1. CASE \E d \in DisplaysOn(SenderTty) : Alive(d.pid)
    <3>1. UNCHANGED <<up, displays, mode>>
      BY <1>5, <2>1 DEF ReceiveCont, NextConnection, Ignore
    <3>2. QED
      BY <1>1, <3>1
  <2>2. CASE ~ \E d \in DisplaysOn(SenderTty) : Alive(d.pid)
    BY <1>5, <2>2, AttachRequestHonest DEF ReceiveCont
  <2>3. QED
    BY <2>1, <2>2
<1>6. CASE ReceiveDetach
  <2>1. PICK m \in Messages : m = Received /\ ~Displayed(m.pid)
    BY <1>6, RequestShape DEF ReceiveDetach, Requests
  <2>2. FinishDetach(m) /\ up /\ TypeOK /\ DisplaysWell
    BY <1>6, <2>1 DEF ReceiveDetach, NextConnection, IInv
  <2>3. displays' = {} /\ mode' = IF displays = {} THEN mode ELSE Detached
    <3>1. Others(m.pid) = displays
      BY <2>1 DEF Others, Displayed
    <3>2. QED
      BY <2>2, <3>1, FinishDetachIs
  <2>4. mode \in {Attached, Detached} /\ Attached # Detached
    BY <2>2 DEF TypeOK, Attached, Detached
  <2>5. QED
    BY <2>2, <2>3, <2>4 DEF ModeHonest
<1>7. CASE ReceiveHangup
  <2>1. UNCHANGED up /\ up
    BY <1>7 DEF ReceiveHangup, NextConnection
  <2>2. CASE Ignore
    BY <1>1, <2>1, <2>2 DEF Ignore
  <2>3. ASSUME NEW d \in DisplaysOn(SenderTty), Detach(d, "SIG_BYE") PROVE ModeHonest'
    BY <1>3, <2>1, <2>3 DEF DisplaysOn
  <2>4. QED
    BY <1>7, <2>2, <2>3 DEF ReceiveHangup
<1>8. CASE ReceiveNothing
  BY <1>1, <1>8 DEF ReceiveNothing, NextConnection, Ignore
<1>9. ASSUME NEW d \in displays,
             \/ PasswordOk(d) \/ PasswordBad(d) \/ ReadEof(d) \/ ReadEofFinit(d)
             \/ \E sig \in DetachSignals : UserDetach(d, sig)
      PROVE  ModeHonest'
  <2>1. ~PasswordOk(d) /\ ~PasswordBad(d)
    BY DEF PasswordOk, PasswordBad, ModeHonest
  <2>2. CASE ReadEof(d)
    BY <1>3, <2>2 DEF ReadEof, Idle
  <2>3. CASE ReadEofFinit(d)
    BY <1>2, <2>3 DEF ReadEofFinit
  <2>4. ASSUME NEW sig \in DetachSignals, UserDetach(d, sig) PROVE ModeHonest'
    BY <1>3, <2>4 DEF UserDetach, Input, Idle
  <2>5. QED
    BY <1>9, <2>1, <2>2, <2>3, <2>4
<1>10. CASE ServerStep
  <2>1. CASE Accept
    BY <1>1, <2>1 DEF Accept
  <2>2. CASE Receive
    BY <1>2, <1>4, <1>5, <1>6, <1>7, <1>8, <2>2 DEF Receive, ReceiveHangupFinit
  <2>3. CASE LastWindowDied
    BY <1>2, <2>3 DEF LastWindowDied
  <2>4. QED
    BY <1>9, <1>10, <2>1, <2>2, <2>3 DEF ServerStep
<1>11. ASSUME NEW a \in Attachers, AttacherStep(a) PROVE UNCHANGED <<up, displays, mode>>
  BY <1>11 DEF AttacherStep, FindSocket, CheckMode, Send, TestContinue, Pause, EnterAttacher, Nap,
     Alarm, Awake, Resume, ResumeEarly, Unlock, SendCont, FinitLook, FinitSend, Deliver, server
<1>12. ASSUME NEW a \in Attachers, Hup(tty[a]) PROVE UNCHANGED <<up, displays, mode>>
  BY <1>12 DEF Hup, server
<1>13. CASE UNCHANGED vars
  BY <1>1, <1>13 DEF vars, server
<1>14. QED
  BY <1>1, <1>10, <1>11, <1>12, <1>13 DEF Next

\* Where no session has a password the mode of the socket tells other processes
\* whether it is attached.  (With passwords it does not: MCSessionMode.)
THEOREM ModeCorrect ==
  ASSUME Passwords = {}
  PROVE  Spec => []SocketModeHonest
<1>1. Init => ModeHonest
  BY DEF Init, ModeHonest, Attached, Detached
<1>2. IInv /\ ModeHonest /\ [Next]_vars => ModeHonest'
  BY ModeHonestKept
<1>3. ModeHonest => SocketModeHonest
  <2> SUFFICES ASSUME ModeHonest PROVE SocketModeHonest
    OBVIOUS
  <2>1. AttachedDisplays = displays
    BY DEF ModeHonest, AttachedDisplays
  <2>2. QED
    BY <2>1 DEF ModeHonest, SocketModeHonest
<1>4. QED
  BY <1>1, <1>2, <1>3, Inductive, PTL DEF Spec

\* Display e is the only one, its attacher was not told to go, and the others were.
AttachedAlone(e) ==
  /\ displays' = {e} /\ mode' = Attached
  /\ \A o \in Others(e.pid) : Alive(o.pid) => "SIG_BYE" \in pend'[o.pid]
  /\ "SIG_BYE" \in pend'[e.pid] => "SIG_BYE" \in pend[e.pid]

\* FinishAttach with detachfirst leaves one display.
LEMMA FinishAttachAlone ==
  ASSUME TypeOK, NEW d \in DisplayType, NEW p \in [Attachers -> SUBSET Signals],
         \A a \in Attachers : "SIG_BYE" \in p[a] => "SIG_BYE" \in pend[a],
         Attaches(d, p),
         NEW e \in displays', ~e.prompt, e \notin displays, e.msg.detachfirst
  PROVE  AttachedAlone(e)
<1>1. PICK others : others = IF d.msg.detachfirst THEN {} ELSE Others(d.pid)
  OBVIOUS
<1>2. PICK n : n = [d EXCEPT !.prompt = FALSE]
  OBVIOUS
<1>3. PICK byes : byes = IF d.msg.detachfirst THEN Kill(Pids(Others(d.pid)), "SIG_BYE", p) ELSE p
  OBVIOUS
<1>4. \/ displays' = others
      \/ /\ displays' = others \union {n} /\ pend' = byes
         /\ others = {} => mode' = Attached
  BY <1>1, <1>2, <1>3 DEF Attaches
<1>5. others \subseteq displays
  BY <1>1 DEF Others
<1>6. e = n /\ displays' = others \union {n} /\ pend' = byes
  BY <1>4, <1>5
<1>7. n.msg = d.msg /\ n.pid = d.pid /\ d.pid \in Attachers
  BY <1>2 DEF DisplayType
<1>8. others = {} /\ d.msg.detachfirst
  BY <1>1, <1>6, <1>7
<1>9. displays' = {e} /\ mode' = Attached
  BY <1>4, <1>5, <1>6, <1>8
<1>10. pend' = Kill(Pids(Others(e.pid)), "SIG_BYE", p) /\ e.pid \in Attachers
  BY <1>3, <1>6, <1>7, <1>8
<1>11. \A a \in Attachers : pend'[a] =
         IF a \in Pids(Others(e.pid)) /\ Alive(a) THEN p[a] \union {"SIG_BYE"} ELSE p[a]
  BY <1>10 DEF Kill
<1>12. ASSUME NEW o \in Others(e.pid), Alive(o.pid) PROVE "SIG_BYE" \in pend'[o.pid]
  <2>1. o.pid \in Attachers /\ o.pid \in Pids(Others(e.pid))
    BY DEF Others, Pids, TypeOK
  <2>2. QED
    BY <1>11, <1>12, <2>1
<1>13. e.pid \notin Pids(Others(e.pid))
  BY DEF Others, Pids
<1>14. QED
  BY <1>9, <1>10, <1>11, <1>12, <1>13 DEF AttachedAlone

\* A display that becomes initialised with -d -r is the only one then.
LEMMA NewAlone ==
  ASSUME IInv, [Next]_vars, NEW e \in displays', ~e.prompt, e \notin displays,
         e.msg.detachfirst
  PROVE  AttachedAlone(e)
<1>0. /\ TypeOK /\ DisplaysWell /\ displays \subseteq DisplayType
      /\ pend \in [Attachers -> SUBSET Signals]
  BY DEF IInv, TypeOK, DisplayType
<1>1. CASE displays' \subseteq displays
  BY <1>0, <1>1
<1>2. ASSUME NextConnection, Received.type \in {"MSG_ATTACH", "MSG_CONT"}, AttachRequest(Received)
      PROVE  AttachedAlone(e)
  <2>1. PICK m \in Messages : m = Received /\ ~Displayed(m.pid)
    BY <1>2, RequestShape DEF Requests
  <2>2. PICK d : d = Display(m, TRUE)
    OBVIOUS
  <2>3. d \in DisplayType /\ d.prompt /\ d.pid = m.pid /\ m.pid \in Attachers
    BY <2>2 DEF Display, DisplayType, Messages
  <2>4. PICK p : p = Continue(m.pid, pend)
    OBVIOUS
  <2>5. \/ displays' = displays \/ displays' = displays \union {d} \/ FinishAttach(d, p)
    BY <1>2, <2>1, <2>2, <2>4 DEF AttachRequest, Ignore, Refuse
  <2>6. CASE FinishAttach(d, p)
    <3>1. Attaches(d, p)
      BY <1>0, <2>1, <2>3, <2>6, FinishAttachIs
    <3>2. Grows(pend, p)
      BY <1>0, <2>3, <2>4, ContinueGrows
    <3>3. /\ p \in [Attachers -> SUBSET Signals]
          /\ \A a \in Attachers : "SIG_BYE" \in p[a] => "SIG_BYE" \in pend[a]
      <4>1. p = pend \/ p = Kill({m.pid}, "SIGCONT", pend)
        BY <2>4 DEF Continue
      <4>2. \A a \in Attachers : Kill({m.pid}, "SIGCONT", pend)[a] =
              IF a \in {m.pid} /\ Alive(a) THEN pend[a] \union {"SIGCONT"} ELSE pend[a]
        BY DEF Kill
      <4>3. "SIG_BYE" \notin {"SIGCONT"}
        OBVIOUS
      <4>4. \A a \in Attachers : "SIG_BYE" \in p[a] => "SIG_BYE" \in pend[a]
        BY <4>1, <4>2, <4>3
      <4>5. QED
        BY <3>2, <4>4 DEF Grows
    <3>4. QED
      BY <1>0, <2>3, <3>1, <3>3, FinishAttachAlone
  <2>7. QED
    BY <1>0, <2>3, <2>5, <2>6
<1>3. CASE ReceiveAttach
  BY <1>2, <1>3 DEF ReceiveAttach
<1>4. CASE ReceiveCont
  BY <1>1, <1>2, <1>4 DEF ReceiveCont, Ignore
<1>5. CASE ReceiveDetach
  <2>1. PICK m \in Messages : m = Received
    BY <1>5, RequestShape DEF ReceiveDetach, Requests
  <2>2. Display(m, TRUE).prompt
    BY DEF Display
  <2>3. displays' \subseteq displays \/ displays' = displays \union {Display(m, TRUE)}
    BY <1>5, <2>1 DEF ReceiveDetach, FinishDetach, Ignore, Refuse
  <2>4. QED
    BY <1>1, <1>0, <2>2, <2>3
<1>6. ASSUME NEW d \in displays, PasswordOk(d) PROVE AttachedAlone(e)
  <2>1. CASE FinishDetach(d.msg)
    BY <1>1, <2>1 DEF FinishDetach
  <2>2. CASE FinishAttach(d, pend)
    BY <1>0, <2>2, FinishAttachIs, FinishAttachAlone
  <2>3. QED
    BY <1>6, <2>1, <2>2 DEF PasswordOk
<1>7. ASSUME NEW d \in displays,
             \/ PasswordBad(d) \/ ReadEof(d) \/ ReadEofFinit(d)
             \/ \E sig \in DetachSignals : UserDetach(d, sig)
      PROVE  displays' \subseteq displays
  BY <1>7 DEF PasswordBad, ReadEof, ReadEofFinit, UserDetach, Detach, Finit
<1>8. CASE ReceiveNothing \/ ReceiveHangup \/ ReceiveHangupFinit \/ LastWindowDied \/ Accept
  <2>1. displays' \subseteq displays
    BY <1>8 DEF ReceiveNothing, ReceiveHangup, ReceiveHangupFinit, LastWindowDied, Accept,
       Detach, Finit, Ignore
  <2>2. QED
    BY <1>1, <2>1
<1>9. ASSUME NEW a \in Attachers, AttacherStep(a) PROVE displays' \subseteq displays
  BY <1>9 DEF AttacherStep, FindSocket, CheckMode, Send, TestContinue, Pause, EnterAttacher, Nap,
     Alarm, Awake, Resume, ResumeEarly, Unlock, SendCont, FinitLook, FinitSend, Deliver, server
<1>10. ASSUME NEW a \in Attachers, Hup(tty[a]) PROVE displays' \subseteq displays
  BY <1>10 DEF Hup, server
<1>11. CASE UNCHANGED vars
  BY <1>1, <1>11 DEF vars, server
<1>12. QED
  BY <1>1, <1>3, <1>4, <1>5, <1>6, <1>7, <1>8, <1>9, <1>10, <1>11
     DEF Next, ServerStep, Receive

\* An attach with detachfirst leaves one display, its own: the walk over the list of
\* displays has taken off and told everybody else, and not the one that asked.
THEOREM DetachFirstCorrect == Spec => DetachFirstAlone
<1>1. IInv /\ [Next]_vars =>
        [\A d \in AttachedDisplays' \ AttachedDisplays :
           d.msg.detachfirst =>
             /\ displays' = {d} /\ mode' = Attached
             /\ \A e \in Others(d.pid) : Alive(e.pid) => "SIG_BYE" \in pend'[e.pid]
             /\ "SIG_BYE" \in pend'[d.pid] => "SIG_BYE" \in pend[d.pid]]_vars
  <2> SUFFICES ASSUME IInv, [Next]_vars, NEW d \in AttachedDisplays' \ AttachedDisplays,
                      d.msg.detachfirst
               PROVE  AttachedAlone(d)
    BY DEF AttachedAlone
  <2>1. d \in displays' /\ ~d.prompt /\ d \notin displays
    BY DEF AttachedDisplays
  <2>2. QED
    BY <2>1, NewAlone
<1>2. QED
  BY <1>1, Inductive, PTL DEF Spec, DetachFirstAlone
=============================================================================
