------------------------------ MODULE Children ------------------------------
(***************************************************************************)
(* The processes in the windows, and the filters that exec puts before     *)
(* them (screen.c, window.c).                                              *)
(*                                                                         *)
(* The end of a process reaches the server twice, in either order: as end  *)
(* of file on the window's pty, which win_readev_fn reads, and as SIGCHLD, *)
(* whose handler only sets GotSigChld.  serv_select_fn, the last handler   *)
(* of each pass of the loop, looks at the flag, and DoWait collects what   *)
(* there is to collect.  A window whose process is dead is freed, or stays *)
(* as a zombie that can be resurrected; w_deadpid remembers a process that *)
(* has hung up and is not collected yet.  The record s is the server and   *)
(* its children; the functions of the code are operators from records to   *)
(* records.  A unit of data fills IOSIZE / Size bytes of a buffer.         *)
(***************************************************************************)
EXTENDS Naturals, Sequences, FiniteSets, SequencesExt

CONSTANTS
  Windows, Pids,
  None,      \* no process, no filter
  Failed,    \* what fork() answers when it fails
  Patterns,  \* the patterns exec is called with, and whether a bar follows
  Size,      \* bound: units of data in a buffer
  MaxReady,  \* bound: descriptors of one pass that are ready and not at end of file
  MaxEvents  \* bound: what the processes and the users do

ASSUME ChildrenAssumption ==
  /\ IsFiniteSet(Pids) /\ Windows # {} /\ Pids # {}
  /\ None # Failed /\ {None, Failed, "nodevice"} \intersect Pids = {}
  /\ Size \in Nat \ {0} /\ MaxReady \in Nat /\ MaxEvents \in Nat

Descriptor == {".", "!", ":"}
PatternSet == [fd : [1 .. 3 -> Descriptor], bar : BOOLEAN]
Ends == {"new", "open", "hup"}  \* the other end of a pty: never opened, open, closed by all

ASSUME PatternsAssumption == Patterns \subseteq PatternSet

VARIABLES
  s,        \* windows, filters, processes
  zombie,   \* ZombieKey_destroy and ZombieKey_onerror
  socket,   \* whether the socket's file is there
  signal,   \* GotSigChld
  phase,    \* where sched() is
  due,      \* descriptors that select() has reported and the pass has not come to
  events    \* how much the processes and the users have done

vars == <<s, zombie, socket, signal, phase, due, events>>

NoWindow == [open |-> FALSE, pid |-> None, deadpid |-> None, readq |-> FALSE, writeq |-> FALSE,
             awaits |-> FALSE, inlen |-> 0, tty |-> "new"]
NoChild == [state |-> "free", of |-> None, filter |-> FALSE, ok |-> TRUE, stopped |-> FALSE]

WindowRecords ==
  [ open    : BOOLEAN,                       \* w_ptyfd is not -1
    pid     : Pids \union {None, Failed},    \* w_pid
    deadpid : Pids \union {None, Failed},    \* w_deadpid
    readq   : BOOLEAN, writeq : BOOLEAN,     \* w_readev, w_writeev are queued
    awaits  : BOOLEAN,                       \* w_readev waits for room in the filter's p_inbuf
    inlen   : 0 .. Size,                     \* w_inlen
    tty     : Ends ]
FilterRecords ==
  [ pid : Pids, pat : PatternSet, readq : BOOLEAN, awaits : BOOLEAN, inlen : 0 .. Size, tty : Ends ]
ASSUME NoneAssumption == None \notin FilterRecords

ChildRecords ==
  [ state   : {"free", "running", "ttystop", "stop", "stopped", "exited"},
    of      : Windows \union {None},         \* the window it was forked for
    filter  : BOOLEAN,                       \* as its filter
    ok      : BOOLEAN,                       \* whether its exit status is 0
    stopped : BOOLEAN ]                      \* whether it has ever been stopped
Servers ==
  [ windows : Seq(Windows),                  \* the list, the last made first; empty when the server ends
    win     : [Windows -> WindowRecords],
    filter  : [Windows -> FilterRecords \union {None}],  \* w_pwin
    kid     : [Pids -> ChildRecords],        \* the kernel's table
    job     : [Windows -> Pids \union {None}] ]  \* history: whom the window was last forked for

Over == s.windows = <<>>
Alive(t) == ToSet(t.windows)

-----------------------------------------------------------------------------
(* Patterns (window.h, winexec).                                            *)

F_PFRONT(c) == c \in {".", ":"}
F_PBACK(c) == c \in {"!", ":"}

\* A bar turns the first dot to an exclamation mark (winexec).
Parse(p) == IF p.bar /\ p.fd[1] = "." THEN [p EXCEPT !.fd[1] = "!"] ELSE p

W_UWP(f) == f # None /\ (f.pat.bar \/ ~F_PBACK(f.pat.fd[1]))
W_WTOP(f) == f # None /\ f.pat.fd[1] = ":"
W_PTOW(f) == f.pat.fd[2] = ":" \/ f.pat.fd[3] = ":"

-----------------------------------------------------------------------------
(* Devices, filters and windows go.                                         *)

CloseDevice(t, w) ==
  [t EXCEPT !.win[w].open = FALSE, !.win[w].readq = FALSE, !.win[w].writeq = FALSE]

\* variant: the window is not read again
FreePseudowinUnread(t, w) == [t EXCEPT !.filter[w] = None, !.win[w].awaits = FALSE]

FreePseudowin(t, w) == [t EXCEPT !.filter[w] = None, !.win[w].awaits = FALSE, !.win[w].readq = TRUE]

Forget(t, w) == [t EXCEPT !.win[w] = NoWindow, !.filter[w] = None, !.job[w] = None]

\* The server ends; what its children do is no concern of it any more.
Ended ==
  [ windows |-> <<>>, win |-> [w \in Windows |-> NoWindow], filter |-> [w \in Windows |-> None],
    kid |-> [p \in Pids |-> NoChild], job |-> [w \in Windows |-> None] ]

KillWindow(t, w) ==
  LET left == RemoveFirst(t.windows, w)
  IN  IF left = <<>> THEN Ended ELSE Forget([t EXCEPT !.windows = left], w)

Zombied(status) == zombie = "on" \/ (zombie = "onerror" /\ status # "ok")

WindowDied(t, w, status) ==
  IF Zombied(status)
  THEN [CloseDevice(t, w) EXCEPT !.win[w].deadpid = t.win[w].pid, !.win[w].pid = None]
  ELSE KillWindow(t, w)

-----------------------------------------------------------------------------
(* SIGCHLD.                                                                 *)

Waiting(t) == {p \in Pids : t.kid[p].state \in {"ttystop", "stop", "exited"}}

\* The kernel's side of waitpid(): a stop is reported once, an exit frees the entry.
Reported(t, p) ==
  IF t.kid[p].state = "exited" THEN [t EXCEPT !.kid[p] = NoChild]
  ELSE [t EXCEPT !.kid[p].state = "stopped"]

HasJob(t, w, p) == t.win[w].pid = p \/ t.win[w].deadpid = p
HasFilter(t, w, p) == t.filter[w] # None /\ t.filter[w].pid = p

\* The window of a process that waitpid() reported has no process any more; a stopped one goes on.
JobReported(t, w, p) ==
  LET told == [Reported(t, p) EXCEPT !.win[w].pid = None] IN
  CASE t.kid[p].state = "ttystop" -> told
    [] t.kid[p].state = "stop" -> [told EXCEPT !.kid[p].state = "running"]
    [] OTHER -> WindowDied(told, w, IF t.kid[p].ok THEN "ok" ELSE "error")

\* One round of DoWait's loop: the first window that knows the process.
Collect(t, p) ==
  LET at == SelectInSeq(t.windows, LAMBDA w : HasJob(t, w, p) \/ HasFilter(t, w, p))
      w == t.windows[at]
  IN  CASE at = 0 -> Reported(t, p)
        [] at # 0 /\ HasJob(t, w, p) -> JobReported(t, w, p)
        [] OTHER -> FreePseudowin(Reported(t, p), w)

\* variant: one child for each signal
DoWaitOnce(t, order) == IF order = <<>> THEN t ELSE Collect(t, order[1])

DoWait(t, order) == FoldLeft(Collect, t, order)

Orders(S) == {o \in [1 .. Cardinality(S) -> S] : IsInjective(o)}

-----------------------------------------------------------------------------
(* Processes and devices come.  A try ends with no device, with no process, *)
(* or with a process.                                                       *)

Fork(t, w, p, forFilter) ==
  [t EXCEPT !.kid[p] = [NoChild EXCEPT !.state = "running", !.of = w, !.filter = forFilter]]

Tries(t) == {"nodevice", Failed} \union {p \in Pids : t.kid[p].state = "free"}

\* variant: the old process stays on record
OpenDeviceKept(t, w) ==
  [t EXCEPT !.win[w] = [@ EXCEPT !.open = TRUE, !.readq = TRUE, !.writeq = TRUE, !.tty = "new"]]

OpenDevice(t, w) ==
  [t EXCEPT !.win[w] =
     [@ EXCEPT !.open = TRUE, !.readq = TRUE, !.writeq = TRUE, !.tty = "new", !.deadpid = None]]

ForkWindow(t, w, try) ==
  IF try = Failed THEN [t EXCEPT !.win[w].pid = Failed, !.job[w] = None]
  ELSE [Fork(t, w, try, FALSE) EXCEPT !.win[w].pid = try, !.job[w] = try]

RemakeWindow(t, w, try) ==
  IF try = "nodevice" THEN t ELSE ForkWindow(OpenDevice(t, w), w, try)

MakeWindow(t, w, try) ==
  IF try \in {"nodevice", Failed} THEN t
  ELSE ForkWindow(OpenDevice([t EXCEPT !.windows = <<w>> \o @], w), w, try)

winexec(t, w, pat, try) ==
  LET quiet == IF F_PFRONT(pat.fd[1]) THEN t ELSE [t EXCEPT !.win[w].readq = FALSE] IN
  CASE try = "nodevice" -> t
    [] try = Failed -> FreePseudowin(quiet, w)
    [] OTHER -> [Fork(quiet, w, try, TRUE) EXCEPT !.filter[w] =
                   [ pid |-> try, pat |-> pat, readq |-> F_PFRONT(pat.fd[2]) \/ F_PFRONT(pat.fd[3]),
                     awaits |-> FALSE, inlen |-> 0, tty |-> "new" ]]

-----------------------------------------------------------------------------
(* The event handlers of windows and filters.                               *)

Events == Windows \X {"read", "write", "pread", "pwrite"}

\* Whether select() is asked for the event, and the pass would handle it.
Listens(t, w, what) ==
  LET v == t.win[w] f == t.filter[w] IN
  CASE what = "read" -> v.readq /\ (v.awaits => f.inlen < Size)
    [] what = "write" -> v.writeq /\ v.inlen > 0
    [] what = "pread" -> f # None /\ f.readq /\ (f.awaits => v.inlen < Size)
    [] OTHER -> f # None /\ f.inlen > 0

HungUp(t, w, what) ==
  \/ what = "read" /\ t.win[w].open /\ t.win[w].tty = "hup"
  \/ what = "pread" /\ t.filter[w] # None /\ t.filter[w].tty = "hup"

EndsOfFile(t) == {e \in Events : Listens(t, e[1], e[2]) /\ HungUp(t, e[1], e[2])}

\* Data may be there as long as somebody has the other end open, and there is room in it.
MayBeReady(t) ==
  {e \in Events :
     /\ Listens(t, e[1], e[2])
     /\ e[2] \in {"read", "write"} => t.win[e[1]].open /\ t.win[e[1]].tty # "new"
     /\ e[2] \in {"pread", "pwrite"} => t.filter[e[1]].tty # "new"}

win_readev_fn(t, w) ==
  LET f == t.filter[w] IN
  CASE W_WTOP(f) /\ f.inlen = Size -> [t EXCEPT !.win[w].awaits = TRUE]
    [] W_WTOP(f) /\ f.inlen < Size /\ t.win[w].tty = "open" ->
         [t EXCEPT !.win[w].awaits = FALSE, !.filter[w].inlen = @ + 1]
    [] t.win[w].tty = "hup" /\ ~(W_WTOP(f) /\ f.inlen = Size) ->
         WindowDied([t EXCEPT !.win[w].awaits = FALSE], w, "unknown")
    [] OTHER -> [t EXCEPT !.win[w].awaits = FALSE]

pseu_readev_fn(t, w) ==
  LET f == t.filter[w] IN
  CASE W_PTOW(f) /\ t.win[w].inlen = Size -> [t EXCEPT !.filter[w].awaits = TRUE]
    [] ~(W_PTOW(f) /\ t.win[w].inlen = Size) /\ f.tty = "hup" -> FreePseudowin(t, w)
    [] W_PTOW(f) /\ t.win[w].inlen < Size /\ f.tty = "open" ->
         [t EXCEPT !.filter[w].awaits = FALSE, !.win[w].inlen = @ + 1]
    [] OTHER -> [t EXCEPT !.filter[w].awaits = FALSE]

\* A write takes some of the data, or all of it when it fails.
win_writeev_fn(t, w) == {[t EXCEPT !.win[w].inlen = n] : n \in 0 .. t.win[w].inlen - 1}
pseu_writeev_fn(t, w) == {[t EXCEPT !.filter[w].inlen = n] : n \in 0 .. t.filter[w].inlen - 1}

Handled(t, w, what) ==
  CASE what = "read" -> {win_readev_fn(t, w)}
    [] what = "write" -> win_writeev_fn(t, w)
    [] what = "pread" -> {pseu_readev_fn(t, w)}
    [] OTHER -> pseu_writeev_fn(t, w)

-----------------------------------------------------------------------------
(* The processes and the kernel.                                            *)

\* A signal interrupts select(), and only sets a flag when the server runs.
SigChld ==
  /\ signal' = TRUE
  /\ phase' = IF phase = "asleep" THEN "interrupted" ELSE phase

Event == ~Over /\ events < MaxEvents /\ events' = events + 1
Outside == Event /\ UNCHANGED <<zombie, due>>

\* The process p, as a window's first or as its filter, has its side of the pty in its hands.
IsJob(p) == s.kid[p].of \in Alive(s) /\ s.job[s.kid[p].of] = p /\ s.win[s.kid[p].of].open
IsFilter(p) == s.kid[p].filter /\ HasFilter(s, s.kid[p].of, p)

\* A process opens its pty; or all that have it open, the process' own children too, close it.
Terminal(p, from, to) ==
  /\ Outside /\ s.kid[p].state # "free"
  /\ \/ IsJob(p) /\ s.win[s.kid[p].of].tty = from /\ s' = [s EXCEPT !.win[s.kid[p].of].tty = to]
     \/ IsFilter(p) /\ s.filter[s.kid[p].of].tty = from /\ s' = [s EXCEPT !.filter[s.kid[p].of].tty = to]
  /\ UNCHANGED <<socket, signal, phase>>

OpenTty(p) == s.kid[p].state = "running" /\ Terminal(p, "new", "open")
CloseTty(p) == Terminal(p, "open", "hup")

Exit(p, ok) ==
  /\ Outside /\ s.kid[p].state \notin {"free", "exited"}
  /\ s' = [s EXCEPT !.kid[p].state = "exited", !.kid[p].ok = ok]
  /\ SigChld /\ UNCHANGED socket

Stop(p, how) ==
  /\ Outside /\ s.kid[p].state = "running"
  /\ s' = [s EXCEPT !.kid[p].state = how, !.kid[p].stopped = TRUE]
  /\ SigChld /\ UNCHANGED socket

Continue(p) ==
  /\ Outside /\ s.kid[p].state \in {"ttystop", "stop", "stopped"}
  /\ s' = [s EXCEPT !.kid[p].state = "running"]
  /\ SigChld /\ UNCHANGED socket

\* Somebody removes the socket; the manual has its owner send SIGCHLD then.
SocketVanishes == Outside /\ socket /\ socket' = FALSE /\ UNCHANGED <<s, signal, phase>>
UserSignals == Outside /\ SigChld /\ UNCHANGED <<s, socket>>

-----------------------------------------------------------------------------
(* The server.                                                              *)

InPass(t) == ~Over /\ phase = "awake" /\ s' = t /\ UNCHANGED <<socket, signal, phase>>
Command(t) == Event /\ InPass(t) /\ UNCHANGED <<zombie, due>>

\* select() reports what is at end of file, and other descriptors, displays' among them.
Wake ==
  /\ ~Over /\ phase = "asleep" /\ phase' = "awake"
  /\ \E ready \in SUBSET MayBeReady(s) :
       Cardinality(ready) <= MaxReady /\ due' = EndsOfFile(s) \union ready
  /\ UNCHANGED <<s, zombie, socket, signal, events>>

Handle(e) ==
  /\ e \in due /\ due' = due \ {e}
  /\ \E t \in IF Listens(s, e[1], e[2]) THEN Handled(s, e[1], e[2]) ELSE {s} : InPass(t)
  /\ UNCHANGED <<zombie, events>>

Screen(w) == w \notin Alive(s) /\ \E try \in Tries(s) : Command(MakeWindow(s, w, try))

Kill(w) ==
  w \in Alive(s) /\ Command(IF s.filter[w] # None THEN FreePseudowin(s, w) ELSE KillWindow(s, w))

Exec(w, p) ==
  /\ w \in Alive(s) /\ s.filter[w] = None /\ s.win[w].open
  /\ \E try \in Tries(s) : Command(winexec(s, w, Parse(p), try))

Type(w) ==
  /\ w \in Alive(s) /\ s.win[w].open
  /\ IF W_UWP(s.filter[w])
     THEN s.filter[w].inlen < Size /\ Command([s EXCEPT !.filter[w].inlen = @ + 1])
     ELSE s.win[w].inlen < Size /\ Command([s EXCEPT !.win[w].inlen = @ + 1])

\* The two keys of a zombie (ZombieProcess).
Destroy(w) == w \in Alive(s) /\ ~s.win[w].open /\ zombie # "off" /\ Command(KillWindow(s, w))
Resurrect(w) ==
  /\ w \in Alive(s) /\ ~s.win[w].open /\ zombie # "off"
  /\ \E try \in Tries(s) : Command(RemakeWindow(s, w, try))

Zombie(policy) == Event /\ InPass(s) /\ zombie' = policy /\ UNCHANGED due

\* A missing socket is made again, or the server ends.
RecoverSocket(t) == (s' = t /\ socket' = TRUE) \/ (s' = Ended /\ UNCHANGED socket)

SigChldHandler ==
  \E order \in Orders(Waiting(s)) :
    IF socket THEN s' = DoWait(s, order) /\ UNCHANGED socket ELSE RecoverSocket(DoWait(s, order))

\* The last handler of a pass, and the only one when a signal has interrupted select().
serv_select_fn ==
  /\ ~Over /\ phase \in {"awake", "interrupted"} /\ due = {}
  /\ phase' = "checked" /\ signal' = FALSE
  /\ IF signal THEN SigChldHandler ELSE UNCHANGED <<s, socket>>
  /\ UNCHANGED <<zombie, due, events>>

\* sched() goes to select(); a signal between the check and this is not looked at.  Descriptor -1 is
\* undefined in FD_SET: nothing comes of it, or select() fails and sched() panics.
Select ==
  /\ ~Over /\ phase = "checked" /\ phase' = "asleep"
  /\ \/ s' = s
     \/ (\E w \in Windows : s.win[w].readq /\ ~s.win[w].open) /\ s' = Ended
  /\ UNCHANGED <<zombie, socket, signal, due, events>>

-----------------------------------------------------------------------------
Opened(t, w) == [t EXCEPT !.win[w].tty = "open"]

\* The first window just made; or at work: alone, with a second one, or with a filter.  Windows and pids
\* are alike, so which come first is left to CHOOSE.
Started ==
  LET w == CHOOSE x \in Windows : TRUE
      p == CHOOSE x \in Pids : TRUE
      first == MakeWindow(Ended, w, p)
  IN  {first, Opened(first, w)}
        \union {MakeWindow(Opened(first, w), v, q) : v \in Windows \ {w}, q \in Pids \ {p}}
        \union {winexec(Opened(first, w), w, Parse(pat), q) : pat \in Patterns, q \in Pids \ {p}}

Init ==
  /\ s \in Started
  /\ zombie \in {"off", "on", "onerror"}
  /\ socket = TRUE /\ signal = FALSE /\ phase = "checked" /\ due = {} /\ events = 0

Next ==
  \/ \E p \in Pids : OpenTty(p) \/ CloseTty(p) \/ Continue(p)
  \/ \E p \in Pids, ok \in BOOLEAN : Exit(p, ok)
  \/ \E p \in Pids, how \in {"ttystop", "stop"} : Stop(p, how)
  \/ SocketVanishes \/ UserSignals
  \/ Wake \/ serv_select_fn \/ Select
  \/ \E e \in Events : Handle(e)
  \/ \E w \in Windows : Screen(w) \/ Kill(w) \/ Type(w) \/ Destroy(w) \/ Resurrect(w)
  \/ \E w \in Windows, p \in Patterns : Exec(w, p)
  \/ \E policy \in {"off", "on", "onerror"} : Zombie(policy)

Spec == Init /\ [][Next]_vars

\* The loop goes on, and select() returns when a descriptor is at end of file.  The steps are named by the
\* phase they lead to: there is one action of the server for each.
Moves ==
  /\ ~Over
  /\ \/ phase = "checked" /\ phase' = "asleep"
     \/ phase = "asleep" /\ EndsOfFile(s) # {} /\ phase' = "awake"
     \/ phase \in {"awake", "interrupted"} /\ due = {} /\ phase' = "checked"
Handles == ~Over /\ \E e \in due : due' = due \ {e}

Fairness == WF_phase(Moves) /\ WF_due(Handles)

LiveSpec == Spec /\ Fairness

-----------------------------------------------------------------------------
(* Properties.                                                              *)

TypeOK ==
  /\ s \in Servers /\ IsInjective(s.windows)
  /\ zombie \in {"off", "on", "onerror"} /\ socket \in BOOLEAN /\ signal \in BOOLEAN
  /\ phase \in {"checked", "asleep", "interrupted", "awake"}
  /\ due \subseteq Events

\* The pids the server keeps belong to processes that are still its children, and to the right ones:
\* the kernel gives the number of a collected child to the next one.
PidsCurrent ==
  \A w \in Windows :
    /\ \A p \in {s.win[w].pid, s.win[w].deadpid} \ {None, Failed} :
         s.kid[p].state # "free" /\ s.kid[p].of = w /\ ~s.kid[p].filter
    /\ s.filter[w] # None =>
         LET p == s.filter[w].pid IN s.kid[p].state # "free" /\ s.kid[p].of = w /\ s.kid[p].filter

\* A window with a device is read and written to, except while a filter stands before it, and does not
\* wait for room in the buffer of a filter that is gone; a dead window is not written to.
EventsFollow ==
  \A w \in Windows :
    LET v == s.win[w] f == s.filter[w] IN
    /\ v.open = v.writeq
    /\ v.open /\ (f = None \/ F_PFRONT(f.pat.fd[1])) => v.readq
    /\ v.awaits => W_WTOP(f)

\* Whenever the server looks at the signal it collects every child there is to collect: none waits
\* unless a signal is pending.
NoneLeft == ~signal => Waiting(s) = {}

\* Pids, devices, events and the kernel's table agree.
ProcessesSound == TypeOK /\ PidsCurrent /\ EventsFollow /\ NoneLeft

\* A window outlives its process as a zombie exactly when the zombie setting says so, in whatever order
\* the end of file, the signal and a resurrection come; and what the server collects closes no window
\* but the child's own.  Children that were stopped once are left out: see ExitZeroLeaves.
Collected(p) == s.kid[p].state = "exited" /\ s'.kid[p].state # "exited"
Own(p, w) == s.kid[p].of = w /\ ~s.kid[p].filter /\ s.job[w] = p

DeathsAnswered ==
  [][ s'.windows # <<>> =>
      \A p \in Pids : Collected(p) =>
        \A w \in Alive(s) :
          /\ Own(p, w) /\ ~s.kid[p].stopped =>
               /\ ~s'.win[w].open
               /\ w \in Alive(s') <=> Zombied(IF s.kid[p].ok THEN "ok" ELSE "error")
          /\ HasFilter(s, w, p) => s'.filter[w] = None
          /\ s.win[w].open /\ ~s'.win[w].open => \E q \in Pids : Collected(q) /\ Own(q, w) ]_vars

\* A window that everybody has hung up, and that no filter takes the reading from, is noticed to be
\* dead; and with it what the signal has announced, the missing socket too.
Hung(w) == s.win[w].open /\ s.win[w].tty = "hup" /\ s.filter[w] = None
HangupNoticed ==
  \A w \in Windows :
    /\ Hung(w) ~> ~Hung(w)
    /\ (Hung(w) /\ signal /\ ~socket) ~> (socket \/ Over \/ s.filter[w] # None)

\* With "zombie ... onerror" a window whose process exits with 0 disappears.  Does not hold of a child that was
\* stopped once: DoWait has forgotten its pid.
ExitZeroLeaves ==
  [][ s'.windows # <<>> /\ zombie = "onerror" =>
      \A p \in Pids, w \in Alive(s) : Collected(p) /\ Own(p, w) /\ s.kid[p].ok => w \notin Alive(s') ]_vars

\* A dead window is not read.  Does not hold: FreePseudowin queues the read event of a window that has
\* become a zombie under its filter, with descriptor -1.
DeadUnread == \A w \in Windows : s.win[w].readq => s.win[w].open

\* A window's dead process is collected in the end.  Does not hold: a SIGCHLD between serv_select_fn and
\* select() waits for the next event, and the end of file does not come while a background process has the pty.
DeadCollected == \A p \in Pids : (s.kid[p].state = "exited") ~> (s.kid[p].state # "exited")

\* While the user is not reading through a filter, the window's pty is: a zombie that is resurrected under a
\* filter is read by both.  Does not hold.
FilterReadsAlone ==
  \A w \in Windows :
    s.win[w].open /\ s.filter[w] # None /\ ~F_PFRONT(s.filter[w].pat.fd[1]) => ~s.win[w].readq
=============================================================================
