------------------------------ MODULE Session ------------------------------
(***************************************************************************)
(* Attaching and detaching: attacher.c (the front end, one process for     *)
(* each terminal) and the part of socket.c, screen.c and display.c that    *)
(* keeps the list of displays in the server.                               *)
(*                                                                         *)
(* An attacher finds the socket, looks at its mode twice, sends one message*)
(* over the connection it made, and then sleeps in pause() while the       *)
(* server works on the terminal.  The server answers with signals only.    *)
(* The mode of the socket (0600 detached, 0700 attached) is the one thing  *)
(* about the session that other processes can see.                         *)
(*                                                                         *)
(* The server is one process that serves one event at a time, so every     *)
(* server action is a whole handler; the attachers interleave with it.     *)
(***************************************************************************)
EXTENDS Naturals, Sequences, FiniteSets, SequencesExt

CONSTANTS
  Attachers,   \* the processes `tscreen -r', `-x', `-d -r', `-d' that are ever started
  Kinds,       \* Kinds[a]: the command lines a may be started with
  Ttys,        \* the ways in which the attachers may be spread over terminals
  Passwords,   \* attachers whose user has a session password
  AutoDetach,  \* the autodetach setting
  Guests,      \* attachers that name another user's session: they wait for SIGCONT
  MaxReturns   \* bound: how often an attacher comes back from lock or suspension

Signals == {"SIGCONT", "SIG_BYE", "SIG_POWER_BYE", "SIG_LOCK", "SIG_STOP"}
Flags == {"SuspendPlease", "LockPlease"}
Attached == 700  \* the modes of the socket
Detached == 600

ASSUME SessionAssumption ==
  /\ IsFiniteSet(Attachers)
  /\ \A a \in Attachers : Kinds[a] \subseteq {"r", "x", "dr", "d"}
  /\ Passwords \subseteq Attachers
  /\ Guests \subseteq Attachers
  /\ AutoDetach \in BOOLEAN
  /\ MaxReturns \in Nat

VARIABLES
  \* the server
  up,         \* it runs
  displays,   \* the displays
  mode,       \* mode of the socket
  backlog,    \* connections made to the socket, in the order of accept()
  accepting,  \* the server is in ReceiveMsg, reading from the first of them
  \* the attachers
  pc, kind,
  tty,        \* its terminal
  dflag,      \* the -d that is left when the socket's mode has been seen
  handlers,   \* Attacher() has installed its signal handlers
  pend,       \* signals sent and not yet delivered
  flags, cont,\* the flags their handlers set; cont: ContinuePlease
  early,      \* where a stop signal hit an attacher that had no handler yet
  hungup,     \* its terminal is gone
  returns     \* how often it came back

server == <<up, displays, mode, backlog, accepting>>
client == <<pc, kind, tty, dflag, handlers, pend, flags, cont, early, hungup, returns>>
vars == <<server, client>>

-----------------------------------------------------------------------------
(* The server's data.                                                      *)

\* a struct display: D_userpid, the password prompt, the message it came with
Display(m, prompt) == [pid |-> m.pid, prompt |-> prompt, msg |-> m]
Message(type, a, first) == [type |-> type, pid |-> a, detachfirst |-> first]
NoData == [type |-> "none"]

DisplaysOn(t) == {d \in displays : tty[d.pid] = t}
Pids(ds) == {d.pid : d \in ds}

Waiting == {"test", "pausing", "paused"}   \* for SIGCONT
Alive(a) == pc[a] \notin {"shell", "exited"}

\* Kill(): sig to every process of the set, added to the pending signals p
Kill(who, sig, p) ==
  [a \in Attachers |-> IF a \in who /\ Alive(a) THEN p[a] \union {sig} ELSE p[a]]

\* SIGCONT does nothing to a running process that has not set a handler for it
Continue(a, p) == IF pc[a] \in Waiting THEN Kill({a}, "SIGCONT", p) ELSE p

-----------------------------------------------------------------------------
Init ==
  /\ up = TRUE
  /\ displays = {}
  /\ mode = Detached
  /\ backlog = <<>>
  /\ accepting = FALSE
  /\ pc = [a \in Attachers |-> "shell"]
  /\ kind \in {k \in [Attachers -> UNION {Kinds[a] : a \in Attachers}] :
                 \A a \in Attachers : k[a] \in Kinds[a]}
  /\ tty \in Ttys
  /\ dflag = [a \in Attachers |-> kind[a] \in {"dr", "d"}]
  /\ handlers = [a \in Attachers |-> FALSE]
  /\ pend = [a \in Attachers |-> {}]
  /\ flags = [a \in Attachers |-> {}]
  /\ cont = [a \in Attachers |-> FALSE]
  /\ early = [a \in Attachers |-> "no"]
  /\ hungup = [a \in Attachers |-> FALSE]
  /\ returns = [a \in Attachers |-> 0]

Goto(a, label) == pc' = [pc EXCEPT ![a] = label]

-----------------------------------------------------------------------------
(* The attacher: Attach().                                                 *)

\* FindSocket: connect, and close again if the mode does not suit the flags
Suits(a) == CASE kind[a] = "d" -> mode = Attached
              [] kind[a] = "r" -> mode = Detached
              [] OTHER -> TRUE

FindSocket(a) ==
  /\ pc[a] = "shell" /\ ~hungup[a]
  /\ up
  /\ Goto(a, IF Suits(a) THEN "found" ELSE "exited")
  /\ backlog' = Append(backlog, [pid |-> a, data |-> NoData, open |-> Suits(a)])
  /\ UNCHANGED <<up, displays, mode, accepting, kind, tty, dflag, handlers, pend, flags, cont,
                 early, hungup, returns>>

\* variant: the end of an attacher leaves its connection open
ConnectionKept(a, data, open) ==
  backlog' = [i \in 1 .. Len(backlog) |->
                IF backlog[i].pid = a /\ backlog[i].open /\ data.type # "none"
                THEN [pid |-> a, data |-> data, open |-> open] ELSE backlog[i]]

\* what happens to the connection of a: the message is written, or it is closed
Connection(a, data, open) ==
  backlog' = [i \in 1 .. Len(backlog) |->
                IF backlog[i].pid = a /\ backlog[i].open
                THEN [pid |-> a, data |-> data, open |-> open] ELSE backlog[i]]

\* Attach: the second look at the mode.  -d is dropped if nothing is attached;
\* then the mode must match, unless -x.
CheckMode(a) ==
  /\ pc[a] = "found"
  /\ LET d == dflag[a] /\ ~(kind[a] = "dr" /\ mode = Detached)
         matches == kind[a] = "x" \/ mode = (IF d THEN Attached ELSE Detached)
     IN  IF up /\ matches
         THEN Goto(a, "ready") /\ dflag' = [dflag EXCEPT ![a] = d] /\ UNCHANGED backlog
         ELSE Goto(a, "exited") /\ Connection(a, NoData, FALSE) /\ UNCHANGED dflag
  /\ UNCHANGED <<up, displays, mode, accepting, kind, tty, handlers, pend, flags, cont, early,
                 hungup, returns>>

\* WriteMessage, close(lasts).  `tscreen -d' waits for the answer, and so does
\* every attach to the session of another user.
Send(a) ==
  /\ pc[a] = "ready"
  /\ IF up
     THEN /\ Connection(a, IF kind[a] = "d" THEN Message("MSG_DETACH", a, FALSE)
                           ELSE Message("MSG_ATTACH", a, dflag[a]), FALSE)
          /\ Goto(a, IF kind[a] = "d" \/ a \in Guests THEN "test" ELSE "entering")
     ELSE Goto(a, "exited") /\ UNCHANGED backlog
  /\ UNCHANGED <<up, displays, mode, accepting, kind, tty, dflag, handlers, pend, flags, cont,
                 early, hungup, returns>>

\* while (!ContinuePlease) pause();
TestContinue(a) ==
  /\ pc[a] = "test"
  /\ IF cont[a]
     THEN /\ cont' = [cont EXCEPT ![a] = FALSE]
          /\ Goto(a, IF kind[a] = "d" THEN "exited"
                     ELSE IF handlers[a] THEN "awake" ELSE "entering")
     ELSE Goto(a, "pausing") /\ UNCHANGED cont
  /\ UNCHANGED <<server, kind, tty, dflag, handlers, pend, flags, early, hungup, returns>>

Pause(a) ==
  /\ pc[a] = "pausing"
  /\ Goto(a, "paused")
  /\ UNCHANGED <<server, kind, tty, dflag, handlers, pend, flags, cont, early, hungup, returns>>

-----------------------------------------------------------------------------
(* The attacher: Attacher() and its handlers.                              *)

\* the handlers are installed, and the first pause() is next
EnterAttacher(a) ==
  /\ pc[a] = "entering"
  /\ Goto(a, "prenap")
  /\ handlers' = [handlers EXCEPT ![a] = TRUE]
  /\ UNCHANGED <<server, kind, tty, dflag, pend, flags, cont, early, hungup, returns>>

Nap(a) ==
  /\ pc[a] = "prenap"
  /\ Goto(a, "nap")
  /\ UNCHANGED <<server, kind, tty, dflag, handlers, pend, flags, cont, early, hungup, returns>>

\* variant: nobody called alarm()
AlarmNever(a) == FALSE

\* alarm(15) ends the pause
Alarm(a) ==
  /\ pc[a] = "nap"
  /\ Goto(a, "awake")
  /\ UNCHANGED <<server, kind, tty, dflag, handlers, pend, flags, cont, early, hungup, returns>>

\* after the pause: look whether the server still exists, then at the flags
Awake(a) ==
  /\ pc[a] = "awake"
  /\ CASE ~up -> Goto(a, "exited") /\ UNCHANGED flags
       [] up /\ "SuspendPlease" \in flags[a] ->
            Goto(a, "stopped") /\ flags' = [flags EXCEPT ![a] = @ \ {"SuspendPlease"}]
       [] up /\ "SuspendPlease" \notin flags[a] /\ "LockPlease" \in flags[a] ->
            Goto(a, "locked") /\ flags' = [flags EXCEPT ![a] = @ \ {"LockPlease"}]
       [] OTHER -> Goto(a, "prenap") /\ UNCHANGED flags
  /\ UNCHANGED <<server, kind, tty, dflag, handlers, pend, cont, early, hungup, returns>>

\* Attach(MSG_CONT) once the shell continued the stopped attacher or the
\* terminal was unlocked
SendCont(a) ==
  /\ returns[a] < MaxReturns
  /\ returns' = [returns EXCEPT ![a] = @ + 1]
  /\ IF up
     THEN /\ backlog' = Append(backlog,
                          [pid |-> a, data |-> Message("MSG_CONT", a, FALSE), open |-> FALSE])
          /\ Goto(a, IF a \in Guests THEN "test" ELSE "awake")
     ELSE Goto(a, "exited") /\ UNCHANGED backlog
  /\ UNCHANGED <<up, displays, mode, accepting, kind, tty, dflag, handlers, pend, flags, cont,
                 early, hungup>>

Resume(a) == pc[a] = "stopped" /\ ~hungup[a] /\ SendCont(a)
Unlock(a) == pc[a] = "locked" /\ ~hungup[a] /\ SendCont(a)

\* the shell continues an attacher that was stopped before it had a handler:
\* it goes on where it was
ResumeEarly(a) ==
  /\ pc[a] = "frozen" /\ ~hungup[a]
  /\ Goto(a, early[a])
  /\ UNCHANGED <<server, kind, tty, dflag, handlers, pend, flags, cont, early, hungup, returns>>

\* AttacherFinit, part 1: is it the server that says good bye?
FinitLook(a) ==
  /\ pc[a] = "finit"
  /\ Goto(a, IF up /\ mode # Detached THEN "hangup" ELSE "exited")
  /\ UNCHANGED <<server, kind, tty, dflag, handlers, pend, flags, cont, early, hungup, returns>>

\* AttacherFinit, part 2: tell the server that the terminal hung up
FinitSend(a) ==
  /\ pc[a] = "hangup"
  /\ Goto(a, "exited")
  /\ backlog' = IF up THEN Append(backlog,
                             [pid |-> a, data |-> Message("MSG_HANGUP", a, FALSE), open |-> FALSE])
                ELSE backlog
  /\ UNCHANGED <<up, displays, mode, accepting, kind, tty, dflag, handlers, pend, flags, cont,
                 early, hungup, returns>>

Finishing == {"finit", "hangup", "exited"}  \* SIGHUP is ignored from here on

\* pause() returns when a handler has run
Wake(a) == CASE pc[a] = "nap" -> "awake" [] pc[a] = "paused" -> "test" [] OTHER -> pc[a]

\* where attacher a goes on after signal s.  SIG_BYE has a handler from the start
\* of main(); the others kill or stop an attacher that has not installed its own.
\* LockTerminal ignores everything but SIGHUP.
AfterSignal(a, s) ==
  CASE pc[a] \in Finishing -> pc[a]
    [] pc[a] = "locked" -> IF s = "SIG_BYE" THEN "exited" ELSE "locked"
    [] OTHER -> CASE s = "SIGCONT" -> Wake(a)
                  [] s = "SIG_BYE" -> "finit"
                  [] s = "SIG_POWER_BYE" -> "exited"
                  [] s = "SIG_LOCK" -> IF handlers[a] THEN Wake(a) ELSE "exited"
                  [] s = "SIG_STOP" -> IF handlers[a] THEN Wake(a) ELSE "frozen"

FlagOf(s) == IF s = "SIG_LOCK" THEN {"LockPlease"}
             ELSE IF s = "SIG_STOP" THEN {"SuspendPlease"} ELSE {}

Deliver(a, s) ==
  /\ s \in pend[a]
  \* a stopped process gets its signals when it goes on, which a hangup makes it do
  /\ pc[a] \in {"stopped", "frozen"} => s = "SIG_BYE" /\ hungup[a]
  /\ pend' = [pend EXCEPT ![a] = @ \ {s}]
  /\ Goto(a, AfterSignal(a, s))
  /\ flags' = [flags EXCEPT ![a] = IF handlers[a] /\ pc[a] # "locked" THEN @ \union FlagOf(s) ELSE @]
  /\ cont' = [cont EXCEPT ![a] = @ \/ (s = "SIGCONT" /\ pc[a] \in Waiting)]
  /\ early' = [early EXCEPT ![a] = IF AfterSignal(a, s) = "frozen" THEN pc[a] ELSE @]
  \* an attacher that ends closes the connection it has not written to
  /\ IF AfterSignal(a, s) \in Finishing THEN Connection(a, NoData, FALSE) ELSE UNCHANGED backlog
  /\ UNCHANGED <<up, displays, mode, accepting, kind, tty, dflag, handlers, hungup, returns>>

\* terminal t goes away: SIGHUP for its processes, and end of file for the server
Hup(t) ==
  /\ \E a \in Attachers : tty[a] = t /\ Alive(a)
  /\ \A a \in Attachers : tty[a] = t => ~hungup[a]
  /\ hungup' = [a \in Attachers |-> hungup[a] \/ tty[a] = t]
  /\ pend' = Kill({a \in Attachers : tty[a] = t}, "SIG_BYE", pend)
  /\ UNCHANGED <<server, pc, kind, tty, dflag, handlers, flags, cont, early, returns>>

-----------------------------------------------------------------------------
(* The server.                                                             *)

Idle == up /\ ~accepting

\* accept(); recvmsg() blocks until the attacher has written or closed
Accept ==
  /\ Idle
  /\ backlog # <<>>
  /\ accepting' = TRUE
  /\ UNCHANGED <<up, displays, mode, backlog, client>>

\* variant: Detach() does not mark the socket
DetachNoChsock(d, sig) ==
  /\ displays' = displays \ {d}
  /\ mode' = mode
  /\ pend' = Kill({d.pid}, sig, pend)

\* variant: Detach() sends no signal
DetachNoSignal(d, sig) ==
  /\ displays' = displays \ {d}
  /\ mode' = IF displays' = {} THEN Detached ELSE mode
  /\ pend' = pend

\* Detach(): the display goes, its attacher gets sig, and the socket is marked
\* when no display is left
Detach(d, sig) ==
  /\ displays' = displays \ {d}
  /\ mode' = IF displays' = {} THEN Detached ELSE mode
  /\ pend' = Kill({d.pid}, sig, pend)

-----------------------------------------------------------------------------
(* FinishDetach: the displays are detached one after the other, and each is *)
(* taken off the list while the walk over the list goes on.                 *)

Others(a) == {d \in displays : d.pid # a}

NoDisplay == [msg |-> NoData]  \* the null pointer
FirstOf(list) == IF list = <<>> THEN NoDisplay ELSE Head(list)

\* d->d_next
NextOf(list, d) ==
  IF \E i \in 2 .. Len(list) : list[i - 1] = d
  THEN list[CHOOSE i \in 2 .. Len(list) : list[i - 1] = d]
  ELSE NoDisplay

\* the list without the display of the process that asks, if it has one (det)
Unlinked(list, a) == RemoveFirstMatch(list, LAMBDA d : d.pid = a)

\* One turn of the loop: `next' is taken, then Detach() frees the display, marks
\* the socket when the list has become empty, and signals the attacher.
Turn(w) ==
  LET left == RemoveFirst(w.list, w.at)
  IN  IF w.at = NoDisplay THEN w
      ELSE [list |-> left,
            at   |-> NextOf(w.list, w.at),
            mode |-> IF left = <<>> THEN Detached ELSE w.mode,
            told |-> w.told \union {w.at.pid}]

\* the loop over a list, with the socket's mode m at the start
Walk(list, m) ==
  FoldLeft(LAMBDA w, d : Turn(w),
           [list |-> list, at |-> FirstOf(list), mode |-> m, told |-> {}], list)

\* variant: the display that asks is still on the list when the walk begins
FinishAttachLinked(d, p) ==
  \E list \in SetToSeqs(displays \union {d}) :
    LET first == d.msg.detachfirst
        walked == Walk(list, mode)
        others == IF first THEN {} ELSE Others(d.pid)
        before == IF first THEN walked.mode ELSE mode
        byes == IF first THEN Kill(walked.told, "SIG_BYE", p) ELSE p
    IN  \/ displays' = others /\ mode' = before /\ pend' = Kill({d.pid}, "SIG_BYE", byes)
        \/ /\ displays' = others \union {[d EXCEPT !.prompt = FALSE]}
           /\ mode' = IF others = {} THEN Attached ELSE before
           /\ pend' = byes

\* variant: no signal when the terminal cannot be initialised
FinishAttachSilent(d, p) ==
  \E list \in SetToSeqs(displays \union {d}) :
    LET first == d.msg.detachfirst
        walked == Walk(Unlinked(list, d.pid), mode)
        others == IF first THEN {} ELSE Others(d.pid)
        before == IF first THEN walked.mode ELSE mode
        byes == IF first THEN Kill(walked.told, "SIG_BYE", p) ELSE p
    IN  \/ displays' = others /\ mode' = before /\ pend' = byes
        \/ /\ displays' = others \union {[d EXCEPT !.prompt = FALSE]}
           /\ mode' = IF others = {} THEN Attached ELSE before
           /\ pend' = byes

\* FinishAttach for display d: with detachfirst FinishDetach, which leaves d alone
\* on the list; then initialise the terminal (which may fail, for a terminal type
\* the server cannot use), then mark the socket if this is the only display
FinishAttach(d, p) ==
  \E list \in SetToSeqs(displays \union {d}) :
    LET first == d.msg.detachfirst
        walked == Walk(Unlinked(list, d.pid), mode)
        others == IF first THEN {} ELSE Others(d.pid)
        before == IF first THEN walked.mode ELSE mode
        byes == IF first THEN Kill(walked.told, "SIG_BYE", p) ELSE p
    IN  \/ displays' = others /\ mode' = before /\ pend' = Kill({d.pid}, "SIG_BYE", byes)
        \/ /\ displays' = others \union {[d EXCEPT !.prompt = FALSE]}
           /\ mode' = IF others = {} THEN Attached ELSE before
           /\ pend' = byes

\* FinishDetach for `tscreen -d': its own display, if it was asked for a
\* password, is freed, and SIGCONT tells it that all is done
FinishDetach(m) ==
  \E list \in SetToSeqs(displays) :
    LET walked == Walk(Unlinked(list, m.pid), mode)
    IN  /\ displays' = {}
        /\ mode' = walked.mode
        /\ pend' = Continue(m.pid, Kill(walked.told, "SIG_BYE", pend))

-----------------------------------------------------------------------------
(* The server: what comes over the socket, and from the displays.          *)

\* ReceiveMsg ignores messages from a terminal whose display is not initialised
BadDisplay(t) == \E d \in DisplaysOn(t) : d.prompt
Ignore == UNCHANGED <<displays, mode, pend>>
Refuse(a, p) == pend' = Kill({a}, "SIG_BYE", p) /\ UNCHANGED <<displays, mode>>

\* CreateTempDisplay gets the terminal as a descriptor with MSG_ATTACH, and
\* has to open it for the others
CannotOpen(m) == m.type # "MSG_ATTACH" /\ hungup[m.pid]

\* variant: a terminal that has a display gets another one
AttachRequestTwice(m) ==
  LET p == Continue(m.pid, pend)
  IN  IF ~Alive(m.pid) THEN Ignore
      ELSE IF CannotOpen(m) THEN Refuse(m.pid, pend)
      ELSE IF m.pid \in Passwords
      THEN displays' = displays \union {Display(m, TRUE)} /\ pend' = p /\ UNCHANGED mode
      ELSE FinishAttach(Display(m, TRUE), p)

\* CreateTempDisplay, then AskPassword or FinishAttach
AttachRequest(m) ==
  LET p == Continue(m.pid, pend)
  IN  IF ~Alive(m.pid) THEN Ignore
      ELSE IF CannotOpen(m) THEN Refuse(m.pid, pend)
      ELSE IF DisplaysOn(tty[m.pid]) # {} THEN Refuse(m.pid, p)
      ELSE IF m.pid \in Passwords
      THEN displays' = displays \union {Display(m, TRUE)} /\ pend' = p /\ UNCHANGED mode
      ELSE FinishAttach(Display(m, TRUE), p)

Received == Head(backlog).data
SenderTty == tty[Head(backlog).pid]
NextConnection ==
  /\ up /\ accepting
  /\ ~Head(backlog).open
  /\ accepting' = FALSE
  /\ backlog' = Tail(backlog)
  /\ UNCHANGED <<up, pc, kind, tty, dflag, handlers, flags, cont, early, hungup, returns>>

ReceiveNothing ==
  /\ NextConnection
  /\ \/ Received.type = "none"
     \/ Received.type # "MSG_HANGUP" /\ BadDisplay(SenderTty)
  /\ Ignore

ReceiveAttach ==
  /\ NextConnection
  /\ Received.type = "MSG_ATTACH"
  /\ ~BadDisplay(SenderTty)
  /\ AttachRequest(Received)

\* MSG_CONT from a terminal that has a display is ignored while the attacher of
\* that display lives
ReceiveCont ==
  /\ NextConnection
  /\ Received.type = "MSG_CONT"
  /\ ~BadDisplay(SenderTty)
  /\ IF \E d \in DisplaysOn(SenderTty) : Alive(d.pid)
     THEN Ignore
     ELSE AttachRequest(Received)

ReceiveDetach ==
  /\ NextConnection
  /\ Received.type = "MSG_DETACH"
  /\ ~BadDisplay(SenderTty)
  /\ IF Received.pid \notin Passwords THEN FinishDetach(Received)
     ELSE IF ~Alive(Received.pid) THEN Ignore
     ELSE IF CannotOpen(Received) THEN Refuse(Received.pid, pend)
     ELSE displays' = displays \union {Display(Received, TRUE)} /\ UNCHANGED <<mode, pend>>

\* Hangup() detaches with autodetach, or when it is not the only display
CanDetach == AutoDetach \/ Cardinality(displays) > 1

ReceiveHangup ==
  /\ NextConnection
  /\ Received.type = "MSG_HANGUP"
  /\ IF DisplaysOn(SenderTty) = {} THEN Ignore
     ELSE CanDetach /\ \E d \in DisplaysOn(SenderTty) : Detach(d, "SIG_BYE")

\* Finit: the server ends, and every attacher with a display is told so
Finit ==
  /\ up' = FALSE
  /\ displays' = {}
  /\ backlog' = <<>>
  /\ accepting' = FALSE
  /\ pend' = Kill(Pids(displays), "SIG_BYE", pend)
  /\ UNCHANGED <<mode, pc, kind, tty, dflag, handlers, flags, cont, early, hungup, returns>>

\* Hangup() of the only display without autodetach ends the session
ReceiveHangupFinit ==
  /\ up /\ accepting
  /\ Received.type = "MSG_HANGUP"
  /\ DisplaysOn(SenderTty) # {}
  /\ ~CanDetach
  /\ Finit

\* something is read from display d
Input(d) ==
  /\ Idle
  /\ ~hungup[d.pid]
  /\ UNCHANGED <<up, backlog, accepting, pc, kind, tty, dflag, handlers, flags, cont, early,
                 hungup, returns>>

\* PasswordProcessInput: the password was right
PasswordOk(d) ==
  /\ Input(d)
  /\ d.prompt
  /\ IF d.msg.type = "MSG_DETACH" THEN FinishDetach(d.msg) ELSE FinishAttach(d, pend)

\* the password was wrong, or ^C: FreeDisplay and not Detach
PasswordBad(d) ==
  /\ Input(d)
  /\ d.prompt
  /\ displays' = displays \ {d}
  /\ pend' = Kill({d.pid}, "SIG_BYE", pend)
  /\ UNCHANGED mode

\* the user types the detach, pow_detach, suspend or lockscreen command
UserDetach(d, sig) ==
  /\ Input(d)
  /\ ~d.prompt
  /\ Detach(d, sig)

\* disp_readev_fn reads end of file: Hangup()
ReadEof(d) ==
  /\ Idle
  /\ hungup[d.pid]
  /\ CanDetach
  /\ Detach(d, "SIG_BYE")
  /\ UNCHANGED <<up, backlog, accepting, pc, kind, tty, dflag, handlers, flags, cont, early,
                 hungup, returns>>

ReadEofFinit(d) == Idle /\ hungup[d.pid] /\ ~CanDetach /\ Finit

\* the last window is gone
LastWindowDied == Idle /\ Finit

Receive ==
  \/ ReceiveNothing \/ ReceiveAttach \/ ReceiveCont \/ ReceiveDetach
  \/ ReceiveHangup \/ ReceiveHangupFinit

DetachSignals == {"SIG_BYE", "SIG_POWER_BYE", "SIG_LOCK", "SIG_STOP"}

ServerStep ==
  \/ Accept
  \/ Receive
  \/ \E d \in displays :
       \/ PasswordOk(d)
       \/ PasswordBad(d)
       \/ \E sig \in DetachSignals : UserDetach(d, sig)
       \/ ReadEof(d)
       \/ ReadEofFinit(d)
  \/ LastWindowDied

AttacherStep(a) ==
  \/ FindSocket(a) \/ CheckMode(a) \/ Send(a) \/ TestContinue(a) \/ Pause(a)
  \/ EnterAttacher(a) \/ Nap(a) \/ Alarm(a) \/ Awake(a)
  \/ Resume(a) \/ ResumeEarly(a) \/ Unlock(a)
  \/ FinitLook(a) \/ FinitSend(a)
  \/ \E s \in Signals : Deliver(a, s)

Next ==
  \/ ServerStep
  \/ \E a \in Attachers : AttacherStep(a) \/ Hup(tty[a])

Spec == Init /\ [][Next]_vars

-----------------------------------------------------------------------------
(* Properties.                                                             *)

PCs == {"shell", "found", "ready", "test", "pausing", "paused", "entering", "prenap", "nap", "awake",
        "stopped", "frozen", "locked", "finit", "hangup", "exited"}
Messages == [type : {"MSG_ATTACH", "MSG_CONT", "MSG_DETACH", "MSG_HANGUP"},
             pid : Attachers, detachfirst : BOOLEAN]

\* Every variable has its type.
TypeOK ==
  /\ up \in BOOLEAN /\ accepting \in BOOLEAN
  /\ displays \subseteq [pid : Attachers, prompt : BOOLEAN, msg : Messages]
  /\ mode \in {Attached, Detached}
  /\ backlog \in Seq([pid : Attachers, data : Messages \union {NoData}, open : BOOLEAN])
  /\ pc \in [Attachers -> PCs]
  /\ tty \in Ttys
  /\ dflag \in [Attachers -> BOOLEAN]
  /\ handlers \in [Attachers -> BOOLEAN]
  /\ pend \in [Attachers -> SUBSET Signals]
  /\ flags \in [Attachers -> SUBSET Flags]
  /\ cont \in [Attachers -> BOOLEAN]
  /\ early \in [Attachers -> PCs \union {"no"}]
  /\ hungup \in [Attachers -> BOOLEAN]
  /\ returns \in [Attachers -> Nat]

AttachedDisplays == {d \in displays : ~d.prompt}

\* The mode of the socket tells other processes whether the session is attached
\* (socket.c: "mode 600: socket is detached. mode 700: socket is attached.").
SocketModeHonest == up => (mode = Attached <=> AttachedDisplays # {})

\* No terminal is driven by two initialised displays.
OneDisplayPerTerminal ==
  \A d, e \in AttachedDisplays : tty[d.pid] = tty[e.pid] => d = e

\* While its terminal is locked, or it is stopped, an attacher has no display: the
\* server detaches before it sends SIG_LOCK or SIG_STOP, and the attacher asks
\* for a new display only when it is done.
LockedMeansDetached ==
  \A a \in Attachers : pc[a] \in {"locked", "stopped", "frozen"} =>
     \A d \in displays : d.pid # a

\* The server's displays and the terminals of the attachers go together.
DisplaysSound == TypeOK /\ OneDisplayPerTerminal /\ LockedMeansDetached

SentByOrPending(a) ==
  \/ \E i \in 1 .. Len(backlog) : backlog[i].pid = a
  \/ pend[a] # {} \/ flags[a] # {}

\* An attacher that sleeps in its loop with nothing under way for it has a
\* display in the server: no path through the server frees a display, or turns an
\* attach away, without a signal to the attacher.  Two exceptions: a stop signal
\* that comes before Attacher() has its handlers is not seen by it; and from a
\* terminal on which another attacher has a display MSG_CONT is dropped, and so is
\* every request while that display is at its password prompt.
NoOrphanAttacher ==
  \A a \in Attachers :
    /\ up /\ pc[a] \in {"prenap", "nap", "awake"} /\ ~SentByOrPending(a)
    /\ early[a] = "no"
    /\ \A b \in Attachers : tty[b] = tty[a] => b = a
    => \E d \in displays : d.pid = a

\* An attach that the server does with detachfirst leaves one display, its own, and
\* the socket marked as attached.  Every attacher whose display was on the list is
\* told, and the one that asked is not.  (The -d of a `-d -r' that met a session
\* in mode 0600 was dropped by the attacher, and its message has no detachfirst.)
DetachFirstAlone ==
  [][\A d \in AttachedDisplays' \ AttachedDisplays :
       d.msg.detachfirst =>
         /\ displays' = {d} /\ mode' = Attached
         /\ \A e \in Others(d.pid) : Alive(e.pid) => "SIG_BYE" \in pend'[e.pid]
         /\ "SIG_BYE" \in pend'[d.pid] => "SIG_BYE" \in pend[d.pid]]_vars

\* `-r' without -x attaches only where nobody is attached (socket.c: "fail, when
\* we only want to attach, but mode 700 and not xflag").
ResumeOnlyDetached ==
  [][\A d \in AttachedDisplays' \ AttachedDisplays :
       d.msg.type = "MSG_ATTACH" /\ kind[d.pid] = "r" => AttachedDisplays = {}]_vars

-----------------------------------------------------------------------------
(* Progress.  The attachers' own steps and the server's reception go on;   *)
(* what users do (type, resume, unlock, hang up) may never happen.         *)

AttacherProgress(a) ==
  \/ CheckMode(a) \/ Send(a) \/ TestContinue(a) \/ Pause(a)
  \/ EnterAttacher(a) \/ Nap(a) \/ Awake(a) \/ FinitLook(a) \/ FinitSend(a)

Fairness ==
  /\ WF_vars(Accept)
  /\ WF_vars(Receive)
  /\ \A a \in Attachers :
       /\ WF_vars(AttacherProgress(a))
       /\ WF_vars(Alarm(a))
       /\ \A s \in Signals : WF_vars(Deliver(a, s))

FairSpec == Spec /\ Fairness

\* A suspend or lockscreen command takes effect even when its signal arrives
\* between the test of the flags and pause(): the alarm ends the pause.
FlagsHonoured ==
  \A a \in Attachers : flags[a] # {} /\ up ~> flags[a] = {} \/ ~up \/ pc[a] \in Finishing

\* The server comes back from every ReceiveMsg.
ServerReturns == accepting ~> ~accepting

\* Every attach request is answered: with a display, a password prompt, or the
\* end of the attacher; unless it comes from a terminal on which another attacher
\* is being asked for a password, where ReceiveMsg drops it without a word.
AttachAnswered ==
  \A a \in Attachers :
    (\E i \in 1 .. Len(backlog) : backlog[i].pid = a /\ backlog[i].data.type = "MSG_ATTACH")
      ~> \/ \E d \in displays : d.pid = a \/ (tty[d.pid] = tty[a] /\ d.prompt)
         \/ "SIG_BYE" \in pend[a] \/ ~Alive(a) \/ ~up

\* `tscreen -d' gets its answer (attacher.c: "If there is no password ... then we
\* get a SIGCONT. Otherwise we get a SIG_BYE").
DetachReturns ==
  \A a \in Attachers :
    pc[a] \in Waiting /\ a \notin Passwords
      ~> pc[a] \notin Waiting \/ ~up
=============================================================================
