------------------------------- MODULE Output -------------------------------
(***************************************************************************)
(* Output to the displays and its flow control: the output buffer of       *)
(* display.c, the message line that borrows it, and the conditions on      *)
(* which window.c stops reading from windows.                              *)
(*                                                                         *)
(* A display collects its output in obuf.  disp_writeev_fn writes it in    *)
(* blocks when the terminal takes them; Flush writes it all and waits for  *)
(* the terminal.  While a message is on the screen the output that will    *)
(* remove it is kept in obuf, and obuflen and obuffree are 0 so that the   *)
(* next character has to go through Resize_obuf, which removes the message *)
(* first.  A window whose output a display cannot take is not read: its    *)
(* read event gets a condition that points into the display.               *)
(*                                                                         *)
(* Characters are counted, not stored.  What a redraw, a message or the    *)
(* removal of one writes has a fixed length.  A terminal may stop taking   *)
(* output at any time (^S).  Left out are the states of a display that do  *)
(* not come from flow control (blanker), messages on a hardware status     *)
(* line, and the conditions on full input buffers and on w_blocked.        *)
(***************************************************************************)
EXTENDS Integers, Sequences

CONSTANTS
  Displays, Windows,
  Readers,    \* read events: w_readev of windows and p_readev of pseudo windows
  Win,        \* Win[r]: the window that the output of r goes to
  Pseudos,    \* the readers that are a p_readev
  AutoNuke,   \* displays with autonuke
  Bells,      \* displays that show the visual bell as a message
  Messages,   \* displays that other messages come to
  Commands,   \* displays on which the commands obuflimit and nonblock are used
  NoDisplay,  \* null pointer
  GRAIN,      \* what obuf grows by
  OUTPUT_BLOCK_SIZE,
  Chunk,      \* characters a window's output brings to a display
  RedrawLen,  \* characters of a redraw
  MsgLen,     \* characters of a message
  EraseLen,   \* characters that remove it
  CursorLen,  \* characters RemoveStatus adds to them
  Limits,     \* values of obuflimit, the first of them by default
  DefNonblock, \* the first value of nonblock
  MaxUsed     \* bound: no redraw and no clear is asked for with more in obuf

\* nonblock: -1 (wait for the display), 0 (never wait), or a timeout
Nonblocks == {"wait", "skip", "timeout"}

ASSUME OutputAssumption ==
  /\ Win \in [Readers -> Windows]
  /\ Pseudos \subseteq Readers
  /\ AutoNuke \subseteq Displays /\ Bells \subseteq Displays
  /\ Messages \subseteq Displays /\ Commands \subseteq Displays
  /\ NoDisplay \notin Displays
  /\ GRAIN \in Nat \ {0} /\ OUTPUT_BLOCK_SIZE \in Nat \ {0}
  /\ Chunk \subseteq Nat \ {0}
  /\ RedrawLen \in Nat \ {0} /\ MsgLen \in Nat \ {0} /\ EraseLen \in Nat /\ CursorLen \in Nat
  /\ Limits \in Seq(Nat) /\ Limits # <<>>
  /\ DefNonblock \in Nonblocks
  /\ MaxUsed \in Nat

VARIABLES
  live,     \* the displays that exist
  disp,     \* their fields
  shows,    \* the windows that a display shows
  accepts,  \* its terminal takes output
  waits,    \* what a reader's condpos and condneg point to
  flushing  \* the display whose Flush() the server is in, and why

outputVars == <<live, disp, shows, accepts, waits, flushing>>

NoCond == [on |-> "none", d |-> NoDisplay]
NotFlushing == [d |-> NoDisplay, for |-> "none"]

Statuses == {"off", "win", "bell"}
WriteTypes == {"EV_WRITE", "EV_TIMEOUT"}
SavedCounts == [len : Nat, free : Int]

DisplayFields ==
  [used : Nat, free : Int, len : Nat, alloc : Nat, obufmax : Nat, obuflenmax : Int,
   status : Statuses, saved : SavedCounts, blocked : BOOLEAN,
   fuzz : Nat, nonblock : Nonblocks, timer : BOOLEAN, type : WriteTypes]

-----------------------------------------------------------------------------
(* Operations on a display b.  used is obufp - obuf, alloc the size of the *)
(* block obuf points to, saved is status_obuflen with status_obuffree.     *)

NoSaved == [len |-> 0, free |-> -1]

\* what Resize_obuf adds, by GRAIN each time, when AddChar has brought obuffree to f
Growth(f) == IF f > 0 THEN 0 ELSE ((-f) \div GRAIN + 1) * GRAIN

\* n times AddChar when no message is on the screen
Put(b, n) ==
  LET g == Growth(b.free - n)
      c == [b EXCEPT !.used = @ + n, !.free = @ - n + g]
  IN  IF g = 0 THEN c
      ELSE [c EXCEPT !.len = @ + g, !.alloc = b.len + g, !.obuflenmax = b.len + g - b.obufmax]

\* variant: the counts of the time before the message are not restored
RemoveStatusKeepsCounts(b) ==
  IF b.status = "off" THEN b
  ELSE Put([b EXCEPT !.saved = NoSaved, !.status = "off"], CursorLen)

\* variant: what obuf holds is counted as free
RemoveStatusForgets(b) ==
  IF b.status = "off" THEN b
  ELSE LET r == IF b.saved.free >= 0
                THEN [b EXCEPT !.len = b.saved.len, !.free = b.saved.len] ELSE b
       IN  Put([r EXCEPT !.saved = NoSaved, !.status = "off"], CursorLen)

RemoveStatus(b) ==
  IF b.status = "off" THEN b
  ELSE LET r == IF b.saved.free >= 0
                THEN [b EXCEPT !.len = b.saved.len, !.free = b.saved.free] ELSE b
       IN  Put([r EXCEPT !.saved = NoSaved, !.status = "off"], CursorLen)

\* n times AddChar.  With a message on the screen, the character that brings
\* obuffree to zero or below removes it.
AddChars(b, n) ==
  IF b.saved.free < 0 \/ n < b.free THEN Put(b, n)
  ELSE LET m == IF b.free > 0 THEN b.free - 1 ELSE 0
       IN  Put(RemoveStatus([b EXCEPT !.used = @ + m, !.free = @ - m]), n - m)

\* the end of Flush: all is written
Flushed(b) ==
  IF b.used = 0 THEN b
  ELSE [b EXCEPT !.used = 0, !.free = @ + b.used, !.blocked = FALSE, !.fuzz = 0]

\* MakeStatus up to Flush
StartStatus(b, kind) == AddChars([RemoveStatus(b) EXCEPT !.status = kind], MsgLen)

\* MakeStatus after Flush: the output that removes the message is put into obuf
\* and kept there
EndStatus(b) ==
  LET e == Put(Flushed(b), EraseLen)
  IN  [e EXCEPT !.saved = [len |-> e.len, free |-> e.free], !.len = 0, !.free = 0]

\* NukePending, when a display with autonuke is cleared: what obuf holds is thrown away
Clear(d, b) ==
  IF d \in AutoNuke THEN [b EXCEPT !.used = 0, !.free = @ + b.used] ELSE b

\* Activate: the message goes, and everything is drawn
Redraw(d, b) == AddChars(Clear(d, RemoveStatus(b)), RedrawLen)

Over(b) == b.used > b.obufmax + b.fuzz

MakeDisplay ==
  [used |-> 0, free |-> GRAIN, len |-> GRAIN, alloc |-> GRAIN,
   obufmax |-> Limits[1], obuflenmax |-> GRAIN - Limits[1],
   status |-> "off", saved |-> NoSaved, blocked |-> FALSE, fuzz |-> 0,
   nonblock |-> DefNonblock, timer |-> FALSE, type |-> "EV_WRITE"]

OutputInit ==
  /\ live = {}
  /\ disp = [d \in Displays |-> MakeDisplay]
  /\ shows = [d \in Displays |-> {}]
  /\ accepts = [d \in Displays |-> TRUE]
  /\ waits = [r \in Readers |-> NoCond]
  /\ flushing = NotFlushing

Idle == flushing = NotFlushing

-----------------------------------------------------------------------------
(* Windows.                                                                *)

\* the condition of a read event, as sched() evaluates it.  One that points into
\* a display that was freed may have any value.
CondHolds(r) ==
  LET c == waits[r]
  IN  \/ c.on = "none"
      \/ c.d \notin live
      \/ c.on = "status" /\ disp[c.d].status = "off"
      \/ c.on = "obuf" /\ disp[c.d].free > disp[c.d].obuflenmax

Showing(w) == {d \in live : w \in shows[d]}

\* muchpending looks at the displays of the window in turn, until one stops it: it
\* shows a message, or it has too much to write and is not one to be skipped
Stops(b) ==
  \/ b.status = "win"
  \/ ~b.blocked /\ Over(b) /\ b.nonblock # "skip"

\* those it passes by; one with `nonblock' and no timeout is given up at once
Passed(ds) ==
  [d \in Displays |->
     IF d \in ds /\ Over(disp[d]) /\ ~disp[d].blocked
     THEN [disp[d] EXCEPT !.blocked = TRUE] ELSE disp[d]]

\* display d stops reader r: by the message, or by its full buffer, for which a
\* timeout may be set up
StopFor(r, d, passed) ==
  LET b == disp[d]
      on == IF b.status = "win" THEN "status" ELSE "obuf"
  IN  /\ waits' = [waits EXCEPT ![r] = [on |-> on, d |-> d]]
      /\ disp' = IF on = "obuf" /\ b.nonblock = "timeout" THEN [passed EXCEPT ![d].timer = TRUE] ELSE passed

\* win_readev_fn or pseu_readev_fn of r, which muchpending stops
StopReading(r) ==
  /\ Idle
  /\ CondHolds(r)
  /\ \E d \in Showing(Win[r]) :
       /\ Stops(disp[d])
       /\ \E ds \in SUBSET {e \in Showing(Win[r]) : ~Stops(disp[e])} : StopFor(r, d, Passed(ds))
  /\ UNCHANGED <<live, shows, accepts, flushing>>

\* the same, when nothing stops it: what is read from the window goes to all its
\* displays that are not blocked; it may clear them first
ReadWindow(r) ==
  /\ Idle
  /\ CondHolds(r)
  /\ \A d \in Showing(Win[r]) : ~Stops(disp[d])
  /\ waits' = [waits EXCEPT ![r] = NoCond]
  /\ \E n \in Chunk, clear \in BOOLEAN :
       disp' = [d \in Displays |->
                  LET b == Passed(Showing(Win[r]))[d]
                  IN  IF d \notin Showing(Win[r]) \/ b.blocked THEN b
                      ELSE AddChars(IF clear THEN Clear(d, b) ELSE b, n)]
  /\ UNCHANGED <<live, shows, accepts, flushing>>

-----------------------------------------------------------------------------
(* Displays.                                                               *)

Update(d, b) == disp' = [disp EXCEPT ![d] = b]
Only(d, b) == Update(d, b) /\ UNCHANGED <<live, shows, accepts, waits, flushing>>

\* MakeDisplay, and the first picture
Attach(d) ==
  /\ Idle /\ d \notin live
  /\ live' = live \union {d}
  /\ \E ws \in SUBSET Windows \ {{}} : shows' = [shows EXCEPT ![d] = ws]
  /\ accepts' = [accepts EXCEPT ![d] = TRUE]
  /\ Update(d, Redraw(d, MakeDisplay))
  /\ UNCHANGED <<waits, flushing>>

\* Detach up to the Flush in FinitTerm
Detach(d) ==
  /\ Idle /\ d \in live
  /\ flushing' = [d |-> d, for |-> "free"]
  /\ Update(d, Put(RemoveStatus(disp[d]), EraseLen))
  /\ UNCHANGED <<live, shows, accepts, waits>>

\* variant: the conditions of windows are not looked at
FreeDisplayKeepsConds(d) ==
  /\ live' = live \ {d}
  /\ shows' = [shows EXCEPT ![d] = {}]
  /\ Update(d, MakeDisplay)
  /\ UNCHANGED waits

\* FreeDisplay: the conditions that point into d are taken from the windows' read
\* events, not from those of pseudo windows
FreeDisplay(d) ==
  /\ live' = live \ {d}
  /\ shows' = [shows EXCEPT ![d] = {}]
  /\ Update(d, MakeDisplay)
  /\ waits' = [r \in Readers |-> IF r \notin Pseudos /\ waits[r].d = d THEN NoCond ELSE waits[r]]

\* MakeStatus up to its Flush; a blocked display gets no message
Message(d) ==
  /\ Idle /\ d \in live \intersect Messages
  /\ ~disp[d].blocked
  /\ flushing' = [d |-> d, for |-> "message"]
  /\ Update(d, StartStatus(disp[d], "win"))
  /\ UNCHANGED <<live, shows, accepts, waits>>

\* serv_select_fn: a bell that is shown
Bell(d) ==
  /\ Idle /\ d \in live \intersect Bells
  /\ ~disp[d].blocked /\ disp[d].status # "bell"
  /\ flushing' = [d |-> d, for |-> "message"]
  /\ Update(d, StartStatus(disp[d], "bell"))
  /\ UNCHANGED <<live, shows, accepts, waits>>

\* the terminal has taken all that Flush had to write
EndFlush(d) ==
  /\ flushing.d = d
  /\ accepts[d] \/ disp[d].used = 0
  /\ flushing' = NotFlushing
  /\ IF flushing.for = "free" THEN FreeDisplay(d)
     ELSE Update(d, EndStatus(disp[d])) /\ UNCHANGED <<live, shows, waits>>
  /\ UNCHANGED accepts

\* disp_status_fn
StatusTimeout(d) ==
  /\ Idle /\ d \in live
  /\ disp[d].status # "off"
  /\ Only(d, RemoveStatus(disp[d]))

\* disp_readev_fn: a key removes the messages on all displays of the window
Key(d) ==
  /\ Idle /\ d \in live
  /\ \E w \in shows[d] :
       disp' = [e \in Displays |-> IF e \in Showing(w) THEN RemoveStatus(disp[e]) ELSE disp[e]]
  /\ UNCHANGED <<live, shows, accepts, waits, flushing>>

\* another window is selected
Show(d) ==
  /\ Idle /\ d \in live
  /\ disp[d].used <= MaxUsed
  /\ \E ws \in SUBSET Windows \ {{}} : shows' = [shows EXCEPT ![d] = ws]
  /\ Update(d, Redraw(d, disp[d]))
  /\ UNCHANGED <<live, accepts, waits, flushing>>

\* the condition MakeDisplay gives the write event: obuflen > obuffree
CanWrite(b) == b.type = "EV_WRITE" /\ b.len > b.free

\* variant: a display that took all its output stays blocked
WrittenStaysBlocked(d, b, n) ==
  [b EXCEPT !.used = @ - n, !.free = @ + n,
            !.fuzz = IF @ > n THEN @ - n ELSE 0,
            !.timer = @ /\ b.used - n > b.obufmax \div 2]

\* disp_writeev_fn after n characters have been written: a blocked display is
\* drawn again when it has taken everything
Written(d, b, n) ==
  LET w == [b EXCEPT !.used = @ - n, !.free = @ + n,
                     !.fuzz = IF @ > n THEN @ - n ELSE 0,
                     !.timer = @ /\ b.used - n > b.obufmax \div 2]
      r == Redraw(d, [w EXCEPT !.blocked = FALSE])
  IN  IF w.blocked /\ w.used = 0 THEN [r EXCEPT !.fuzz = r.used] ELSE w

Write(d, n) ==
  /\ Idle /\ d \in live
  /\ CanWrite(disp[d]) /\ accepts[d]
  /\ n <= OUTPUT_BLOCK_SIZE /\ n <= disp[d].used
  /\ n = 0 => disp[d].used = 0
  /\ Only(d, Written(d, disp[d], n))

\* variant: the event stays a timeout
WriteAgainNever(d) ==
  /\ Idle /\ d \in live
  /\ CanWrite(disp[d]) /\ ~accepts[d]
  /\ Only(d, [disp[d] EXCEPT !.type = "EV_TIMEOUT"])

\* write() says EAGAIN: disp_writeev_eagain makes the event a write event again
WriteAgain(d) ==
  /\ Idle /\ d \in live
  /\ \/ /\ CanWrite(disp[d]) /\ ~accepts[d]
        /\ Only(d, [disp[d] EXCEPT !.type = "EV_TIMEOUT"])
     \/ /\ disp[d].type = "EV_TIMEOUT"
        /\ Only(d, [disp[d] EXCEPT !.type = "EV_WRITE"])

\* disp_blocked_fn
BlockedTimeout(d) ==
  /\ Idle /\ d \in live
  /\ disp[d].timer
  /\ LET over == Over(disp[d])
     IN  /\ Update(d, [disp[d] EXCEPT !.timer = FALSE, !.blocked = @ \/ over])
         /\ waits' = [r \in Readers |->
                        IF over /\ r \notin Pseudos /\ waits[r] = [on |-> "obuf", d |-> d]
                        THEN NoCond ELSE waits[r]]
  /\ UNCHANGED <<live, shows, accepts, flushing>>

\* the commands nonblock and obuflimit
Nonblock(d) ==
  /\ Idle /\ d \in live \intersect Commands
  /\ \E v \in Nonblocks : Only(d, [disp[d] EXCEPT !.nonblock = v, !.timer = @ /\ v = "timeout"])

Obuflimit(d) ==
  /\ Idle /\ d \in live \intersect Commands
  /\ \E i \in 1 .. Len(Limits) :
       Only(d, [disp[d] EXCEPT !.obufmax = Limits[i], !.obuflenmax = disp[d].len - Limits[i]])

\* the commands clear and reset: WriteString writes to the displays of the window,
\* and muchpending is not asked; the key has removed their messages
ClearCommand(d) ==
  /\ Idle /\ d \in live
  /\ \E w \in shows[d] :
       /\ \A e \in Showing(w) : disp[e].used <= MaxUsed
       /\ \E n \in Chunk, clear \in BOOLEAN :
            disp' = [e \in Displays |->
                       LET b == RemoveStatus(disp[e])
                       IN  IF e \notin Showing(w) THEN disp[e]
                           ELSE IF b.blocked THEN b
                           ELSE AddChars(IF clear THEN Clear(e, b) ELSE b, n)]
  /\ UNCHANGED <<live, shows, accepts, waits, flushing>>

\* the user types ^S and ^Q
Stop(d) ==
  /\ d \in live /\ accepts[d]
  /\ accepts' = [accepts EXCEPT ![d] = FALSE]
  /\ UNCHANGED <<live, disp, shows, waits, flushing>>

Go(d) ==
  /\ d \in live /\ ~accepts[d]
  /\ accepts' = [accepts EXCEPT ![d] = TRUE]
  /\ UNCHANGED <<live, disp, shows, waits, flushing>>

OutputNext ==
  \/ \E r \in Readers : StopReading(r) \/ ReadWindow(r)
  \/ \E d \in Displays :
       \/ Attach(d) \/ Detach(d) \/ Message(d) \/ Bell(d) \/ EndFlush(d)
       \/ StatusTimeout(d) \/ Key(d) \/ Show(d)
       \/ \E n \in 0 .. OUTPUT_BLOCK_SIZE : Write(d, n)
       \/ WriteAgain(d) \/ BlockedTimeout(d)
       \/ Nonblock(d) \/ Obuflimit(d) \/ ClearCommand(d)
       \/ Stop(d) \/ Go(d)

OutputSpec == OutputInit /\ [][OutputNext]_outputVars

\* A pass of sched() gives every event its turn, with its condition looked at once
\* more: a window that waits is served when its condition stays true, and may be
\* passed by for ever when others of the display, before it on the list, make it
\* false each time.  Its handler then reads, or finds a reason to wait again.
ServerFairness ==
  /\ \A r \in Readers :
       WF_outputVars(waits[r].on # "none" /\ (ReadWindow(r) \/ StopReading(r)))
  /\ \A d \in Displays :
       /\ WF_outputVars(EndFlush(d))
       /\ WF_outputVars(\E n \in 0 .. OUTPUT_BLOCK_SIZE : Write(d, n))

\* Timeouts have their turn when select() finds no descriptor ready, which it is
\* taken to do now and then.
TimeoutFairness ==
  \A d \in Displays :
    WF_outputVars(StatusTimeout(d)) /\ WF_outputVars(BlockedTimeout(d)) /\ WF_outputVars(WriteAgain(d))

\* messages and detaches come to an end, a terminal is stopped finitely often, and
\* its user selects and clears windows finitely often
OutsideFairness ==
  /\ <>[]Idle
  /\ \A d \in Displays : <>[]accepts[d]
  /\ <>[][\A d \in Displays : ~Show(d) /\ ~ClearCommand(d)]_outputVars

OutputFairSpec == OutputSpec /\ ServerFairness /\ TimeoutFairness /\ OutsideFairness

-----------------------------------------------------------------------------
(* Properties.                                                             *)

\* Every variable has its type.
OutputTypeOK ==
  /\ live \subseteq Displays
  /\ disp \in [Displays -> DisplayFields]
  /\ shows \in [Displays -> SUBSET Windows]
  /\ accepts \in [Displays -> BOOLEAN]
  /\ waits \in [Readers -> [on : {"none", "status", "obuf"}, d : Displays \union {NoDisplay}]]
  /\ flushing \in [d : Displays \union {NoDisplay}, for : {"none", "free", "message"}]

\* The counts of obuf are exact (the assertions of Flush and Resize_obuf): used and
\* free characters make up the buffer, and while a message is on the screen the
\* buffer looks full and the counts of before wait in status_obuflen.
BufferExact ==
  \A d \in live :
    LET b == disp[d]
    IN  IF b.saved.free >= 0
        THEN b.len = 0 /\ b.free = 0 /\ b.used + b.saved.free = b.saved.len
        ELSE b.used + b.free = b.len /\ b.free > 0

\* Nothing is ever put behind the end of the block that was allocated.
NoOverrun == \A d \in live : disp[d].used <= disp[d].alloc

\* What removes a message stays in obuf, all of it and nothing else, as long as
\* the message is on the screen.
RemovalHeld ==
  \A d \in live : disp[d].saved.free >= 0 => disp[d].used = EraseLen /\ disp[d].status # "off"

\* The buffer is never overrun, and a message never outlives what takes it away.
BufferSafe == NoOverrun /\ RemovalHeld

\* No window's read event has a condition in the memory of a freed display.
\* (Those of pseudo windows may: FreeDisplay does not know them.)
NoDanglingCond ==
  \A r \in Readers \ Pseudos : waits[r].on # "none" => waits[r].d \in live

\* The conditions of the windows, and every other variable, are what they can be.
ConditionsSound == OutputTypeOK /\ NoDanglingCond

\* A display that gets no output because it is blocked has output left to write,
\* so that the write that empties the buffer brings it back.
BlockedComesBack == \A d \in live : disp[d].blocked => disp[d].used > 0

\* A display whose terminal takes output never stops all its windows for good: one
\* that waits for it is read again, or the display is given up for blocked, or other
\* windows of it are read again and again.  (Sharing is not promised: the window
\* that is first on the list may fill the buffer each time before a later one.)
ReadAgain ==
  \A r \in Readers \ Pseudos, d \in Displays :
    \/ []<>(waits[r].d # d \/ disp[d].blocked)
    \/ []<><<\E q \in Readers \ {r} : d \in Showing(Win[q]) /\ ReadWindow(q)>>_outputVars
=============================================================================
