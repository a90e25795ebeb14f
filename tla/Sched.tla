------------------------------- MODULE Sched -------------------------------
(***************************************************************************)
(* The event loop of the server, sched.c.  Every part of the server that   *)
(* waits for something (a terminal, a pty, the socket, a delay) owns one   *)
(* or more `struct event's; sched() is the only place where the server     *)
(* blocks, and handlers called from it edit the two event lists while the  *)
(* loop is walking over them.                                              *)
(*                                                                         *)
(* A handler is modelled by what it may do to the loop: up to MaxOps calls *)
(* of evenq, evdeq and SetTimeout on any event, changes of the counters    *)
(* behind condpos/condneg, and, for the write event of a display, the      *)
(* change between EV_WRITE and EV_TIMEOUT that its own handlers            *)
(* disp_writeev_fn and disp_writeev_eagain make.                           *)
(*                                                                         *)
(* Time is counted in units of which Usec make a second (Usec stands for   *)
(* the 1000000 of the source).                                             *)
(***************************************************************************)
EXTENDS Integers, Sequences, FiniteSets, SequencesExt

CONSTANTS
  Events,     \* the `struct event's of the server
  Fd,         \* Fd[e]: the descriptor e waits for (EV_READ and EV_WRITE)
  Pri,        \* Pri[e]: its priority
  InitType,   \* InitType[e]: its type when it is first enqueued
  Conditional,\* events with a condpos, which may be blocked
  Switchers,  \* events whose handlers switch them between EV_WRITE and EV_TIMEOUT
  NullEv,     \* the null pointer
  Usec,       \* units of tv_usec in a second
  Delays,     \* the delays SetTimeout is called with
  MaxNow,     \* bound: the clock stops there
  MaxOps      \* bound: list operations of one handler call

Types == {"EV_TIMEOUT", "EV_READ", "EV_WRITE", "EV_ALWAYS"}

ASSUME EventsAssumption ==
  /\ NullEv \notin Events
  /\ Pri \in [Events -> Int]
  /\ InitType \in [Events -> Types]
  /\ Switchers \subseteq {e \in Events : InitType[e] = "EV_WRITE"}
  /\ Conditional \subseteq Events
  /\ Usec \in Nat \ {0}
  /\ Delays \subseteq Nat
  /\ MaxNow \in Nat /\ MaxOps \in Nat

VARIABLES
  evs, tevs,     \* the lists of fd events and of timeouts
  nextev,        \* where the walk over evs goes on, fixed up by evdeq
  calctimeout,   \* timeoutev has to be computed (again)
  queued, type, cond, timeout,  \* fields of the events; cond: *condpos > *condneg
  pc, ev, timeoutev, set, nsel, \* the locals of sched(); set: r and w together
  now, wake,     \* the clock, and when select() gives up waiting
  ops,           \* list operations the running handler has made
  ready, done, stable, refilled \* history of a pass, see NoMissedEvent

lists == <<evs, tevs, nextev, calctimeout, queued, type, timeout>>
locals == <<ev, timeoutev, set, nsel>>
history == <<ready, done, stable, refilled>>
vars == <<lists, cond, pc, locals, now, wake, ops, history>>

EventOrNull == Events \union {NullEv}
Timeval == [sec : Nat, usec : 0 .. Usec]

-----------------------------------------------------------------------------
(* Lists and time.                                                         *)

\* ev->next for an event of the list s
NextIn(s, e) ==
  LET i == CHOOSE j \in 1 .. Len(s) : s[j] = e
  IN  IF i < Len(s) THEN s[i + 1] ELSE NullEv

First(s) == IF s = <<>> THEN NullEv ELSE s[1]

\* the place evenq finds for e: before the first event of a lower priority
Place(s, e) ==
  CHOOSE i \in 1 .. Len(s) + 1 :
    /\ \A j \in 1 .. i - 1 : Pri[s[j]] >= Pri[e]
    /\ i <= Len(s) => Pri[e] > Pri[s[i]]

Insert(s, e) == InsertAt(s, Place(s, e), e)
Unlink(s, e) == RemoveAt(s, CHOOSE i \in 1 .. Len(s) : s[i] = e)

Clock(t) == [sec |-> t \div Usec, usec |-> t % Usec]
Instant(tv) == tv.sec * Usec + tv.usec

\* tv plus a delay.  The carry test is `> 1000000', so tv_usec may stay 1000000.
AddDelay(tv, d) ==
  LET s == tv.sec + (d \div Usec)
      u == tv.usec + (d % Usec)
  IN  IF u > Usec THEN [sec |-> s + 1, usec |-> u - Usec] ELSE [sec |-> s, usec |-> u]

Earlier(a, b) == a.sec < b.sec \/ (a.sec = b.sec /\ a.usec < b.usec)

\* the first of the earliest timeouts, as calctimo scans them
calctimo ==
  IF tevs = <<>> THEN NullEv
  ELSE tevs[CHOOSE i \in 1 .. Len(tevs) :
              /\ \A j \in 1 .. Len(tevs) : ~Earlier(timeout[tevs[j]], timeout[tevs[i]])
              /\ \A j \in 1 .. i - 1 : Earlier(timeout[tevs[i]], timeout[tevs[j]])]

\* how long select() is told to wait for timeoutev: the difference of two
\* timevals with a borrow, and nothing when it is over
WaitFor(tv) ==
  LET n == Clock(now)
      u == tv.usec - n.usec
      s == tv.sec - n.sec - (IF u < 0 THEN 1 ELSE 0)
  IN  IF s < 0 THEN 0 ELSE s * Usec + (IF u < 0 THEN u + Usec ELSE u)

-----------------------------------------------------------------------------
(* evenq and evdeq.                                                        *)

\* variant: evenq that does not ask for a new timeoutev
evenqNoRecalc(e) ==
  /\ UNCHANGED calctimeout
  /\ IF queued[e] THEN UNCHANGED <<evs, tevs, queued>>
     ELSE /\ queued' = [queued EXCEPT ![e] = TRUE]
          /\ IF type[e] = "EV_TIMEOUT"
             THEN tevs' = Insert(tevs, e) /\ UNCHANGED evs
             ELSE evs' = Insert(evs, e) /\ UNCHANGED tevs

evenq(e) ==
  IF queued[e] THEN UNCHANGED <<evs, tevs, calctimeout, queued>>
  ELSE /\ queued' = [queued EXCEPT ![e] = TRUE]
       /\ IF type[e] = "EV_TIMEOUT"
          THEN /\ calctimeout' = TRUE
               /\ tevs' = Insert(tevs, e)
               /\ UNCHANGED evs
          ELSE /\ evs' = Insert(evs, e)
               /\ UNCHANGED <<tevs, calctimeout>>

\* variant: evdeq that leaves nextev alone
evdeqKeepsNextev(e) ==
  /\ UNCHANGED nextev
  /\ IF ~queued[e] THEN UNCHANGED <<evs, tevs, calctimeout, queued>>
     ELSE /\ queued' = [queued EXCEPT ![e] = FALSE]
          /\ IF type[e] = "EV_TIMEOUT"
             THEN calctimeout' = TRUE /\ tevs' = Unlink(tevs, e) /\ UNCHANGED evs
             ELSE evs' = Unlink(evs, e) /\ UNCHANGED <<tevs, calctimeout>>

evdeq(e) ==
  IF ~queued[e] THEN UNCHANGED <<evs, tevs, calctimeout, queued, nextev>>
  ELSE /\ queued' = [queued EXCEPT ![e] = FALSE]
       /\ IF type[e] = "EV_TIMEOUT"
          THEN /\ calctimeout' = TRUE
               /\ tevs' = Unlink(tevs, e)
               /\ UNCHANGED <<evs, nextev>>
          ELSE /\ evs' = Unlink(evs, e)
               /\ nextev' = IF e = nextev THEN NextIn(evs, nextev) ELSE nextev
               /\ UNCHANGED <<tevs, calctimeout>>

Chan(e) == <<Fd[e], type[e]>>

-----------------------------------------------------------------------------
(* The loop.                                                               *)

Init ==
  /\ evs = <<>> /\ tevs = <<>> /\ nextev = NullEv /\ calctimeout = FALSE
  /\ queued = [e \in Events |-> FALSE]
  /\ type = InitType
  /\ cond = [e \in Events |-> TRUE]
  /\ timeout = [e \in Events |-> [sec |-> 0, usec |-> 0]]
  /\ pc = "setup" /\ ev = NullEv /\ timeoutev = NullEv /\ set = {} /\ nsel = 0
  /\ now = 0 /\ wake = 0 /\ ops = 0
  /\ ready = {} /\ done = {} /\ stable = {} /\ refilled = FALSE

\* main() enqueues the first events before it calls sched()
Setup ==
  /\ pc = "setup"
  /\ \E e \in Events : evenq(e)
  /\ UNCHANGED <<nextev, type, timeout, cond, pc, locals, now, wake, ops, history>>

EnterSched ==
  /\ pc = "setup"
  /\ pc' = "prepare"
  /\ UNCHANGED <<lists, cond, locals, now, wake, ops, history>>

Interest == {Chan(e) : e \in {x \in ToSet(evs) : cond[x] /\ type[x] # "EV_ALWAYS"}}

\* compute the timeout and the descriptor sets
Prepare ==
  /\ pc = "prepare"
  /\ pc' = "select"
  /\ timeoutev' = IF calctimeout THEN calctimo ELSE timeoutev
  /\ wake' = IF timeoutev' = NullEv THEN MaxNow ELSE now + WaitFor(timeout[timeoutev'])
  /\ set' = Interest
  /\ UNCHANGED <<lists, cond, ev, nsel, now, ops, history>>

StartPass(s) ==
  /\ ready' = s
  /\ done' = {}
  /\ stable' = {e \in ToSet(evs) : cond[e]}
  /\ refilled' = FALSE
  /\ wake' = 0

\* variant: nsel counts descriptors instead of bits of the sets
SelectReadyPerFd ==
  /\ pc = "select"
  /\ \E s \in SUBSET set \ {{}} :
       /\ set' = s
       /\ nsel' = Cardinality({c[1] : c \in s})
       /\ StartPass(s)
  /\ pc' = "walk"
  /\ ev' = First(evs)
  /\ UNCHANGED <<lists, cond, timeoutev, now, ops>>

\* select() found something to do
SelectReady ==
  /\ pc = "select"
  /\ \E s \in SUBSET set \ {{}} :
       /\ set' = s
       /\ nsel' = Cardinality(s)
       /\ StartPass(s)
  /\ pc' = "walk"
  /\ ev' = First(evs)
  /\ UNCHANGED <<lists, cond, timeoutev, now, ops>>

\* variant: the -1 of an interrupted select() stays in nsel
SelectEintrKeepsNsel ==
  /\ pc = "select"
  /\ nsel' = -1
  /\ StartPass({})
  /\ pc' = "walk"
  /\ ev' = First(evs)
  /\ UNCHANGED <<lists, cond, timeoutev, set, now, ops>>

\* variant: an interrupted select() is taken for one that waited its time
SelectEintrExpires ==
  /\ pc = "select"
  /\ timeoutev # NullEv
  /\ nsel' = 0
  /\ evdeq(timeoutev)
  /\ ev' = timeoutev
  /\ pc' = "thandler"
  /\ ops' = 0
  /\ StartPass({})
  /\ UNCHANGED <<type, timeout, cond, timeoutev, set, now>>

\* a signal interrupted select(), which leaves the sets as they were
SelectEintr ==
  /\ pc = "select"
  /\ nsel' = 0
  /\ StartPass({})
  /\ pc' = "walk"
  /\ ev' = First(evs)
  /\ UNCHANGED <<lists, cond, timeoutev, set, now, ops>>

\* select() waited its time: dequeue timeoutev and call its handler
SelectTimeout ==
  /\ pc = "select"
  /\ timeoutev # NullEv
  /\ now' = IF wake > now THEN wake ELSE now
  /\ nsel' = 0
  /\ set' = {}
  /\ evdeq(timeoutev)
  /\ ev' = timeoutev
  /\ pc' = "thandler"
  /\ ops' = 0
  /\ StartPass({})
  /\ UNCHANGED <<type, timeout, cond, timeoutev>>

\* the walk passes over an event that select() did not report
Skip ==
  /\ pc = "walk" /\ ev # NullEv
  /\ type[ev] # "EV_ALWAYS"
  /\ nsel = 0 \/ Chan(ev) \notin set
  /\ nextev' = NextIn(evs, ev)
  /\ ev' = nextev'
  /\ UNCHANGED <<evs, tevs, calctimeout, queued, type, timeout, cond, pc, timeoutev, set, nsel,
                 now, wake, ops, history>>

Hit(e) == type[e] = "EV_ALWAYS" \/ (nsel # 0 /\ Chan(e) \in set)
\* variant: nsel is not counted down
CountHitNever(e) == nsel' = nsel
CountHit(e) == nsel' = IF type[e] = "EV_ALWAYS" THEN nsel ELSE nsel - 1

\* the condition of the event does not hold (any more)
CondFailed ==
  /\ pc = "walk" /\ ev # NullEv
  /\ Hit(ev)
  /\ CountHit(ev)
  /\ ~cond[ev]
  /\ nextev' = NextIn(evs, ev)
  /\ ev' = nextev'
  /\ UNCHANGED <<evs, tevs, calctimeout, queued, type, timeout, cond, pc, timeoutev, set,
                 now, wake, ops, history>>

Dispatch ==
  /\ pc = "walk" /\ ev # NullEv
  /\ Hit(ev)
  /\ CountHit(ev)
  /\ cond[ev]
  /\ nextev' = NextIn(evs, ev)
  /\ pc' = "handler"
  /\ ops' = 0
  /\ done' = done \union {ev}
  /\ UNCHANGED <<evs, tevs, calctimeout, queued, type, timeout, cond, ev, timeoutev, set,
                 now, wake, ready, stable, refilled>>

\* what the pass leaves in set and nsel is overwritten before it is read
EndPass ==
  /\ pc = "walk" /\ ev = NullEv
  /\ pc' = "prepare"
  /\ set' = {} /\ nsel' = 0
  /\ ready' = {} /\ done' = {} /\ stable' = {} /\ refilled' = FALSE
  /\ UNCHANGED <<lists, cond, ev, timeoutev, now, wake, ops>>

-----------------------------------------------------------------------------
(* What handlers do.                                                       *)

InHandler == pc \in {"handler", "thandler"}
HandlerOp ==
  /\ InHandler
  /\ ops < MaxOps
  /\ ops' = ops + 1
  /\ UNCHANGED <<pc, locals, now, wake, ready, done>>

HandlerEvenq(e) ==
  /\ HandlerOp
  /\ evenq(e)
  /\ refilled' = (refilled \/ (~queued[e] /\ Chan(e) \in set))
  /\ UNCHANGED <<nextev, type, timeout, cond, stable>>

\* serv_select, the one EV_ALWAYS event, is never dequeued
HandlerEvdeq(e) ==
  /\ HandlerOp
  /\ type[e] # "EV_ALWAYS"
  /\ evdeq(e)
  /\ stable' = stable \ {e}
  /\ UNCHANGED <<type, timeout, cond, refilled>>

SetTimeout(e, timo) ==
  /\ HandlerOp
  /\ type[e] = "EV_TIMEOUT"
  /\ now + timo <= MaxNow
  /\ timeout' = [timeout EXCEPT ![e] = AddDelay(Clock(now), timo)]
  /\ calctimeout' = (calctimeout \/ queued[e])
  /\ UNCHANGED <<evs, tevs, nextev, queued, type, cond, stable, refilled>>

\* variant: the type is changed while the event is still on the list of the old one
WriteEagainLinked(e, timo) ==
  /\ HandlerOp
  /\ pc = "handler" /\ e = ev
  /\ e \in Switchers /\ type[e] = "EV_WRITE"
  /\ now + timo <= MaxNow
  /\ type' = [type EXCEPT ![e] = "EV_TIMEOUT"]
  /\ timeout' = [timeout EXCEPT ![e] = AddDelay(Clock(now), timo)]
  /\ queued' = [queued EXCEPT ![e] = TRUE]
  /\ tevs' = IF queued[e] THEN tevs ELSE Insert(tevs, e)
  /\ calctimeout' = TRUE
  /\ UNCHANGED <<evs, nextev, cond, stable, refilled>>

\* disp_writeev_fn at EAGAIN: evdeq, a new type, SetTimeout, evenq.  Each of evdeq and
\* evenq takes the list that the type names when it is called.
WriteEagain(e, timo) ==
  /\ HandlerOp
  /\ pc = "handler" /\ e = ev
  /\ e \in Switchers /\ type[e] = "EV_WRITE"
  /\ now + timo <= MaxNow
  /\ evs' = IF queued[e] THEN Unlink(evs, e) ELSE evs
  /\ nextev' = IF queued[e] /\ e = nextev THEN NextIn(evs, e) ELSE nextev
  /\ type' = [type EXCEPT ![e] = "EV_TIMEOUT"]
  /\ timeout' = [timeout EXCEPT ![e] = AddDelay(Clock(now), timo)]
  /\ tevs' = Insert(tevs, e)
  /\ queued' = [queued EXCEPT ![e] = TRUE]
  /\ calctimeout' = TRUE
  /\ stable' = stable \ {e}
  /\ UNCHANGED <<cond, refilled>>

\* disp_writeev_eagain, the handler it then has: evdeq, the old type, evenq
disp_writeev_eagain(e) ==
  /\ HandlerOp
  /\ pc = "thandler" /\ e = ev
  /\ e \in Switchers /\ type[e] = "EV_TIMEOUT"
  /\ tevs' = IF queued[e] THEN Unlink(tevs, e) ELSE tevs
  /\ calctimeout' = (calctimeout \/ queued[e])
  /\ type' = [type EXCEPT ![e] = "EV_WRITE"]
  /\ evs' = Insert(evs, e)
  /\ queued' = [queued EXCEPT ![e] = TRUE]
  /\ UNCHANGED <<nextev, timeout, cond, stable, refilled>>

HandlerCond(e) ==
  /\ HandlerOp
  /\ e \in Conditional
  /\ cond' = [cond EXCEPT ![e] = ~@]
  /\ stable' = stable \ {e}
  /\ UNCHANGED <<lists, refilled>>

HandlerReturn ==
  /\ InHandler
  /\ pc' = "walk"
  /\ ev' = IF pc = "handler" THEN nextev ELSE First(evs)
  /\ ops' = 0
  /\ UNCHANGED <<lists, cond, timeoutev, set, nsel, now, wake, history>>

Handler ==
  \/ \E e \in Events :
       \/ HandlerEvenq(e)
       \/ HandlerEvdeq(e)
       \/ \E timo \in Delays : SetTimeout(e, timo) \/ WriteEagain(e, timo)
       \/ disp_writeev_eagain(e)
       \/ HandlerCond(e)
  \/ HandlerReturn

Loop ==
  \/ Prepare \/ SelectReady \/ SelectEintr \/ SelectTimeout
  \/ Skip \/ CondFailed \/ Dispatch \/ EndPass

Next == Setup \/ EnterSched \/ Loop \/ Handler

Spec == Init /\ [][Next]_vars

\* sched() runs on, and every handler returns
FairSpec ==
  /\ Spec
  /\ WF_vars(EnterSched)
  /\ WF_vars(Prepare)
  /\ WF_vars(Skip \/ CondFailed \/ Dispatch \/ EndPass)
  /\ WF_vars(HandlerReturn)

-----------------------------------------------------------------------------
(* Properties.                                                             *)

\* Every variable has its type.
TypeOK ==
  /\ evs \in Seq(Events) /\ tevs \in Seq(Events)
  /\ nextev \in EventOrNull /\ ev \in EventOrNull /\ timeoutev \in EventOrNull
  /\ calctimeout \in BOOLEAN
  /\ queued \in [Events -> BOOLEAN]
  /\ type \in [Events -> Types]
  /\ cond \in [Events -> BOOLEAN]
  /\ timeout \in [Events -> Timeval]
  /\ pc \in {"setup", "prepare", "select", "walk", "handler", "thandler"}
  /\ now \in Nat /\ wake \in Int /\ ops \in Nat /\ nsel \in Int

Linked(s, e) == \E i \in 1 .. Len(s) : s[i] = e
NoDuplicates(s) == \A i, j \in 1 .. Len(s) : s[i] = s[j] => i = j
Sorted(s) == \A i, j \in 1 .. Len(s) : i < j => Pri[s[i]] >= Pri[s[j]]

\* The lists say what the `queued' flags say: a queued event is linked exactly
\* once, on the list its type asks for, whatever handlers do to it (evenq and
\* evdeq choose the list by the type the event has when they are called).
ListsSound ==
  /\ NoDuplicates(evs) /\ NoDuplicates(tevs)
  /\ \A e \in Events :
       /\ Linked(evs, e) <=> (queued[e] /\ type[e] # "EV_TIMEOUT")
       /\ Linked(tevs, e) <=> (queued[e] /\ type[e] = "EV_TIMEOUT")

\* Both lists are ordered by priority, so that serv_select (-10) comes last.
PriorityOrder == Sorted(evs) /\ Sorted(tevs)

\* The lists are right, whatever the handlers queue, dequeue and change.
ListsOrdered == ListsSound /\ PriorityOrder

\* The walk never stands on, or is about to move to, an event that has been
\* dequeued (and, mostly, freed) by a handler: evdeq moves nextev on.
WalkOnQueued ==
  /\ pc = "walk" /\ ev # NullEv => queued[ev] /\ type[ev] # "EV_TIMEOUT"
  /\ nextev # NullEv => queued[nextev] /\ type[nextev] # "EV_TIMEOUT"

\* While sched() waits, timeoutev is one of the queued timeouts with the
\* earliest deadline, and there is one if any timeout is queued: no change of
\* the timeouts is missed by the calctimeout flag.
TimeoutCurrent ==
  pc = "select" =>
    /\ timeoutev = NullEv <=> tevs = <<>>
    /\ timeoutev # NullEv =>
         /\ queued[timeoutev]
         /\ \A i \in 1 .. Len(tevs) : Instant(timeout[timeoutev]) <= Instant(timeout[tevs[i]])

\* select() is given the right time to wait: it is computed from the earliest queued
\* timeout, and all timevals are in the range that SetTimeout and calctimo allow.
TimeoutsSound == TypeOK /\ TimeoutCurrent

\* A pass over evs calls the handler of every event that select() reported (or
\* that is EV_ALWAYS) and that nobody dequeued or blocked meanwhile.  The
\* countdown of nsel is exact only if no event with a reported descriptor is put
\* on the list during the pass, which is what the code's handlers respect.
NoMissedEvent ==
  pc = "walk" /\ ev = NullEv /\ ~refilled =>
    \A e \in stable : type[e] = "EV_ALWAYS" \/ Chan(e) \in ready => e \in done

\* The handler of a descriptor is called only in a pass whose select() reported
\* that descriptor (not after EINTR or a timeout), and with its condition true.
OnlyReadyDispatched ==
  [][pc = "walk" /\ pc' = "handler" =>
       /\ cond[ev]
       /\ type[ev] # "EV_ALWAYS" => Chan(ev) \in ready]_vars

\* The handler of a timeout is never called before its deadline.
NeverEarly ==
  [][pc = "select" /\ pc' = "thandler" => now' >= Instant(timeout[timeoutev])]_vars

\* Every pass over evs comes to its end, although handlers put events on the
\* list behind the place where the walk is.
PassTerminates == pc = "walk" ~> pc = "select"
=============================================================================
