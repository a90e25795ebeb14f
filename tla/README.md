# Verification of tscreen

tscreen is a fork of GNU screen: one server process ("the backend") keeps
windows, each with a pty, a process and an emulated terminal, and shows them on
displays, each of which belongs to an attacher, a front-end process that runs on
a user's terminal. The modules here model the parts of it whose correctness
depends on the order in which things happen, and prove or check what those parts
have to guarantee. All paths below are relative to `src/src/`.

## The system and its components

| component | state | operations | talks to |
|---|---|---|---|
| event loop (`sched.c`) | the lists `evs` and `tevs`, `nextev`, `calctimeout`, the fields of each `struct event` | `evenq`, `evdeq`, `SetTimeout`, `sched()` | calls the handlers of every other part, which call it back |
| attacher (`attacher.c`) | what it has seen of the socket, the flags its signal handlers set | `Attach`, `Attacher`, `AttacherFinit`, `DoLock`, `SigStop`, `LockTerminal` | messages to the server over the socket; signals from the server |
| server socket (`socket.c`) | the socket and its mode, the list of displays | `FindSocket`, `ReceiveMsg`, `CreateTempDisplay`, `FinishAttach`, `FinishDetach`, `PasswordProcessInput`, `RecoverSocket` | answers attachers with signals only |
| life of the server (`screen.c`) | `displays`, `windows`, `GotSigChld`, `InterruptPlease` | `main`, `Detach`, `Hangup`, `Finit`, `SigChldHandler`, `DoWait`, `WindowDied` | children, the event loop |
| displays (`display.c`) | output buffer, cursor and attributes of the real terminal, status line, canvases, layouts | `MakeDisplay`, `FreeDisplay`, `AddCanvas`, `RemCanvas`, `Flush`, `MakeStatus`, `disp_*_fn` | windows (flow control), layers |
| windows (`window.c`) | pty, input buffer, process, pseudo window | `MakeWindow`, `FreeWindow`, `ForkWindow`, `winexec`, `win_readev_fn`, `win_writeev_fn`, `muchpending` | displays |
| layers (`layer.c`, `mark.c`, `search.c`, `help.c`, `input.c`) | per layer a chain down to its window, and the canvases that show it | `InitOverlayPage`, `ExitOverlayPage`, `KillLayerChain` | canvases, windows |
| commands (`process.c`, `comm.c`) | key maps, escape state, other window, fore window | `ProcessInput`, `DoAction`, `SetForeWindow`, `KillWindow`, `Activate` | everything |
| terminal emulator (`ansi.c`), character sets (`encoding.c`), sizes (`resize.c`) | one state machine per window | `WriteString`, `FromUtf8`, `ChangeWindowSize` | layers |
| access control (`acls.c`), start-up files (`fileio.c`), logs (`logfile.c`), accounting (`utmp.c`), terminal capabilities (`termcap.c`, `term.c`, `tty.sh`), ptys (`pty.c`) | tables | | |

What makes the program hard is that everything is driven by callbacks that edit
the structures their caller is iterating over, that memory is freed while
pointers to it are held elsewhere (events in the loop, conditions of events,
canvases, layers), that the attachers are processes of their own which see the
server only through the mode of a file and through signals, and that signals
arrive between a test and the sleep that depends on it. `PROJECT.json` lists the
hazards at their lines, and for each the property that watches over it.

## Modules

| module | models | code |
|---|---|---|
| `Sched` | the event loop | `sched.c`, `sched.h` |
| `Session` | attaching, detaching, locking: attacher and server side | `attacher.c`, `socket.c` 103-302, 735-1398, `screen.c` 1627-1836 |
| `SessionProofs` | its theorems | |
| `Output` | the output of displays and its flow control | `display.c` 209-392, 2404-2580, 3303-3776, `window.c` 1663-1900 |
| `LoopProofs` | the theorems of `Sched` and of `Output`, which is why the definitions of a specification in `Output` have its name in front | |
| `Access` | users, groups, rights, write locks | `acls.c`, `window.c` 1590-1632, the commands in `process.c` |
| `AclRights` | what `Access` implements: rights without bit fields | |
| `AccessProofs` | the theorems of both: the tables stay sound, and `Access` implements `AclRights` | |
| `Windows` | windows, overlays, canvases, displays, layouts and the pointers between them | `layer.c`, `window.c`, `process.c`, `display.c` (canvases, layouts), `resize.c` 196-353 |
| `LayerProofs` | what each operation of `Windows` on layers, canvases, displays and layouts does to the invariant | |
| `WindowsProofs` | the commands of `Windows`, and its theorems | |
| `Children` | the processes in the windows, filters, zombies, the socket's repair | `screen.c` 1364-1625, 2954-2990, `window.c` 575-1580, 1705-1908, `socket.c` |
| `ChildrenProofs` | its theorems | |
| `Lines` | the text of a window and how it is wrapped anew (pure operators) | the `M...` functions of `ansi.c`, `resize.c` 530-980 |
| `Combining` | the table of combined characters | `encoding.c` 624-1065 |
| `Terminal` | the emulated terminal, on top of `Lines` and `Combining` | `ansi.c`, `encoding.c` 687-735 |
| `TerminalProofs` | the theorems about `Combining`, `Lines` and `Terminal` | |
| `Drawing` | what displays send to their terminals, on top of `Lines` | `display.c`, `layer.c`, `window.c` 343-446 |
| `Copy` | copy mode, searches, prompts, on top of `Lines` | `mark.c`, `search.c`, `input.c` |
| `ListProofs` | lemmas the proofs share: least numbers, insertion into and removal from a list; what a fold over a sequence computes, step by step, for any operator | |
| `MC...` | the instances TLC checks, one per module with state | |

The modules with state model layers that meet at narrow places. `Sched` promises
the handlers that they are called when their condition holds and at no other time
(`OnlyReadyDispatched`, `NoMissedEvent`), and the others take one handler as one
step on the strength of it: their guards are the conditions that `Sched` evaluates
(`CondHolds`, `CanWrite`). Where a handler can be interrupted by something that
is not a handler (a signal, a process, a terminal), it is several steps.
`Lines` is shared (with `With`, a LET for what is used several times): what `Terminal` checks of the text of a window is what
`Drawing` shows and `Copy` reads.

In `Access`, `Windows`, `Terminal`, `Drawing`, `Copy` and `Children` a function of
the code that changes several structures and calls others is an operator from records to
records with the function's name; an action applies one of them, or a chain of
them, and is one event, command or key as a whole. This keeps the order of the
code's calls, which matters: `KillWindow` calls `FreeWindow`, which calls
`KillLayerChain`, which calls `ExitOverlayPage`, each relying on globals (`fore`,
`flayer`, `display`) that the others leave behind. These globals are fields.

### Sched

`evs`, `tevs` and `nextev` are the globals of `sched.c`; `queued`, `type`, `cond`
and `timeout` are the fields of the events (`cond` stands for
`*condpos > *condneg`); `pc`, `ev`, `timeoutev`, `set` and `nsel` are the control
point and the locals of `sched()`. `set` is the pair of descriptor sets `r` and
`w` as a set of pairs (descriptor, direction), so `nsel` counts the same bits that
`select()` counts. A list is a sequence; `evdeq` unlinks at a position and moves
`nextev` on when it is the one that goes.

One pass is `Prepare` (calctimo, the descriptor sets), one of `SelectReady`,
`SelectEintr`, `SelectTimeout`, and the walk: `Skip`, `CondFailed`, `Dispatch`
for each event and `EndPass`. Between `Dispatch` and `HandlerReturn` the handler
runs. Handlers are left abstract: they make up to `MaxOps` calls, in any order,
of `evenq`, `evdeq` and `SetTimeout` on any event, and change what the conditions
point to. So what holds here holds for every handler of the
program that keeps to this discipline. Two restrictions are the code's:
`serv_select`, the one `EV_ALWAYS` event, is never dequeued; deadlines come from
`SetTimeout`. The one event whose type changes, a display's write event, does so in
two handlers of its own, which are modelled as the code has them: `WriteEagain`
(what `disp_writeev_fn` does at `EAGAIN`) takes the event, which may still be queued,
off `evs`, makes it a timeout and queues it in `tevs`; `disp_writeev_eagain` does the
reverse. Both name the list by the type of the moment, so the order of their calls
is what keeps the lists apart (`ListsOrdered`, whose mutant omits the first call).

Times are units of which `Usec` make a second. The carry in `SetTimeout` is
`> 1000000`, so the code's timevals may have `tv_usec == 1000000`; the model keeps
that, and `TypeOK` says it gets no worse.

`ready`, `done`, `stable` and `refilled` are history of one pass, read by the
properties only. `refilled` records that a handler queued an event on a
descriptor reported in this pass; the countdown of `nsel` is exact only without
that, and `NoMissedEvent` states the condition.

### Session

Every attacher is a process with a program counter through `FindSocket`,
`Attach`, `Attacher` and its signal handlers. Its two looks at the mode of the
socket (`FindSocket`, `CheckMode`), its one message (`Send`) and the test of a
flag and the following `pause()` (`TestContinue`/`Pause`, `Awake`/`Nap`) are
separate steps, because other processes run in between. Signals sent to it
collect in `pend` and are delivered one at a time, to whatever it is doing:
before `Attacher()` has installed the handlers `SIG_STOP` stops it and `SIG_LOCK`
kills it.

The server serves one event at a time, so each of its actions is a whole handler,
from the message or key it reads to the signals it sends: `Receive*` are the cases
of `ReceiveMsg` with everything they call. Only `accept()` and the following
`recvmsg()` are two steps (`Accept`, then one of `Receive*`), since the server
blocks between them until the attacher has written or closed its connection.
`FinishAttach` may fail (the terminal type cannot be used), by choice.

Displays are a set, but `FinishDetach` walks over a list, and frees what it stands on.
So `FinishDetach` and `FinishAttach` take the displays in any order (`\E list \in
SetToSeqs(...)`), take the one that asks off the list (`Unlinked`), and go through the
loop turn by turn (`Walk`): `next` is read, then `Detach` unlinks the display, marks
the socket when the list has become empty, and signals the attacher (`Turn`). After
the walk `displays = det` leaves the display that asked, or nothing. The instance
checks `Walk` by itself on all lists of up to four displays as well.

A temporary display that asks for the session's password is a display with
`prompt = TRUE`.

Messages carry the type, the sender and `detachfirst`. Names of terminals, sizes,
environment and user names are left out; a terminal is an identity, `tty[a]`, which
two attachers may share. `Guests` are attachers to another user's session,
which wait for `SIGCONT` before they enter their loop. There may be any finite number of
attachers. `-d -r` loses its `-d` when the mode is that of a detached session
(`attacher.c:279`, `dflag` in `CheckMode`): its message then has no `detachfirst`, and
`DetachFirstAlone` is about those that have.

### Output

`disp[d]` is the part of `struct display` that flow control uses: `used` is
`d_obufp - d_obuf`, `alloc` the size of the block that `realloc` returned, and
the other fields have the names of the code; `saved` is `d_status_obuflen` with
`d_status_obuffree`, `status` is `d_status` with `d_status_bell`, `timer` is
`d_blockedev.queued`, `type` the type of `d_writeev`. `waits[r]` is what
`condpos` and `condneg` of a read event point to: nothing, `&const_one` and
`&D_status`, or `&D_obuffree` and `&D_obuflenmax` of a display. Characters are
counted, not kept; `Put` and `AddChars` are `AddChar` and `Resize_obuf` repeated,
in the two situations that differ (no message is shown, a message is shown).

Each action is one handler or command. `muchpending` walks over the displays of a
window; the order of that walk is left open, so `StopReading` chooses the display
that stops the window and those that were passed before it. `Flush`, which makes
the terminal blocking and waits, is the one place where a handler is two steps:
`Message`, `Bell` and `Detach` begin it, `EndFlush` ends it and does the rest of
the handler, and nothing but the terminal moves between the two. `Stop` and `Go`
are the user's `^S` and `^Q`. `ClearCommand` is `clear` and `reset` as a display's user types
them (`process.c:2238`): their output goes to every display of the window by
`WriteString` and so without `muchpending`; the key has removed the messages before.
(Sent with `-X`, there is no key; that is left out.)

The pseudo windows (`Pseudos`) are kept apart because the code does: `FreeDisplay`
and `disp_blocked_fn` go over `w_readev` of all windows and never over `p_readev`.

### Access and AclRights

`acl` is the tables: the users in the order of their list, the number of each
(`id`), the numbers in use, `maxusercount` (`max`), the groups, the umasks, and the bit
fields of commands and windows, each as the set of the numbers whose bit is set. An
added user gets the lowest free number (`FreeId`), and all fields grow by `USER_CHUNK`
when there is none (`GrowBy`). `Lenders` are those a user borrows rights from: the
smallest set that holds his groups and theirs, which is what the recursion of
`AclCheckPermWin` and `AclCheckPermCmd` walks through. `UserDel` takes the
bits back from where the code takes them back (not from umasks, and not from write
locks: a lock then points to memory that is `Freed`, and a user who is added may
get that very memory). An action is a command (`acladd`, `aclchg`, `aclgrp`, `acldel`,
`umask`, `su`), given by a display's user or sent with `-X` and allowed as `DoAction`
allows it (`aclchg` for users who are not there yet, whom `UserAcl` adds first, is two:
`AclAdd`, then `AclChg`), or a step of a display: attach, detach, switch, type, `writelock`, a new
window, a killed one, after which each display that showed it goes to some window its
user may read, or to none of those that are followed (`NoWin`).

`AclRights` states the promise: everybody's rights are his own; a command changes the
rights of those it names. `Access` implements it under the mapping `RightsOf`, which
forgets numbers and fields (`OwnRights`). Every step of the code must be one of `Add`,
`Remove`, `Give`, `Deny`, `Copy`, `Create` (a window) or `Destroy` there, or change
nothing.

Left out: passwords, the bits of monitor and silence notification, and in the
instance the user `nobody`. A user linked to himself is left out of `Links`
(`AclLinkUser` does not see that cycle, `acls.c:446`, and `AclCheckPermWin` would not
return).

### Windows

The record `s` has the windows' numbers and list, for each layer what is below it
(`below`), the window it belongs to, the canvases that show it (`on`), for each canvas
its layer (`cl`) and display, for each window the layer to show with it (`save`,
`w_savelayer`) and how often it is blocked, for each display its canvases, the focused
one, `d_fore`, `d_other` and its layout, and the globals. Overlays are of three kinds:
a page (help and the like), the list of windows, and one that blocks the window below
(copy mode, input). `Unused` takes the first free canvas and layer of a pool, so that
memory is used again as early as possible; what needs more than is left is not done
(`CanvasesLeft`, `LayersLeft`, `WindowsLeft`: only the last of these bounds is the code's).

Actions: `screen`, `kill`, `select`, `select -`, `other`, `split`, `remove`, `only`,
`focus`, to open and to leave overlays, to choose in the list of windows, `layout
new`, `select`, `remove`, to attach and detach, and the end of a window's process. The
sizes of layers count only as far as `ResizeLayer` removes overlays that cannot be
resized.

Left out: group windows; commands sent with `-X` (`RemoteCmds` is empty in the run:
see `MCWindowsOther`), which also leave overlays behind; the removal of a layout that
another display shows or the next attach would load (`RemoveLayout` forgets both,
`display.c:4444`).

### Children

The record `s` holds the list of windows, for each its device, `w_pid`, `w_deadpid`,
whether its read and write events are queued, what its read event waits for, its input
buffer, and its filter (`p_` fields), and the kernel's table of processes, in which
numbers of collected children are given out again. A pty's other end is not yet
opened, open, or closed by all. `sched()` is the variable `phase` (`checked` between
`serv_select_fn` and `select()`, `asleep`, `interrupted`, `awake`) and the set `due`
of reported descriptors that the walk has not come to; signals set `signal` at any
time, as `SigChld` does. `Handle` is one handler: `win_readev_fn`, `win_writeev_fn`,
`pseu_readev_fn`, `pseu_writeev_fn` with everything they call. Users make and kill
windows, start filters with `exec`, type, destroy and resurrect zombies, change the
zombie setting.

`select()` with descriptor -1 is undefined (`FD_SET`): the model lets it work or fail,
and a failure ends the server, as it does in the code (`Panic`).

Left out: plain and telnet windows, groups, utmp, `w_blocked`, the conditions on
displays (in `Output`), and an end of file on which `errno` still says `EAGAIN`
(`window.c:1845`).

### Lines, Combining, Terminal

`Lines` has the lines (cells, and whether the next line goes on with the text), the
operators `MScrollV`, `MScrollH`, `MClearArea`, `MInsChar`, `MPutChar`, `MWrapChar`
and the new wrapping of `ChangeWindowSize`, which is stated over the text: the lines
of text from the last one up, in pieces as long as the new width, until screen and
scrollback are full. When the cursor's row would come to lie above the screen, the rows
from it on are moved down (`Shift`), and then the code, which does not move `oty` along
(`resize.c:705`, `729-741`), ends a line in the row it allocates next in that place,
in the middle of the cursor's line (`BrokenAt`). `Combining` is the table behind combined characters: the entries
in use as a list, the freshest first (`comb_tofront`), and the entry at its end used
again when the table is full. Characters of two cells have a part of the table, and a
list, of their own. As `utf8_isdouble` (`encoding.c:843`) does not know the entries
0xdf00 to 0xdfff, a second mark on such a character is looked for in the other part, and
`comb_tofront` takes the entry it is made of along to the other list. When that has
happened to all of them and the part is full, the entry used again is the head of the
empty list, 0x801, whose `c1` and `c2` are the bounds of the part (`MCTerminalHead`; the
model goes on with the bounds as they were, and nothing is said about what the code does
then). The list of the other part always has the entries of that part, so its head is
never reached: that is in `TableSound`, and proved. `Terminal` is `WriteString`: the decoder of UTF-8, the
state machine (`LIT`, `ESC`, `CSI`, `ASTR`, `STRESC`), the control sequences by name.
`Write` is one call with one chunk, so that sequences are cut at any place; `Resize`,
`Scrollback` and `Reset` come in between.

Left out: renditions, character sets, fonts, other encodings, titles and what strings
do, printing, reports, compacted history, windows one column wide (a double-width
character does not fit in at all), and the resize of a zombie.

### Drawing

The record `s` holds the windows' lines, the display with what it believes of its
terminal (`D_x`, `D_y`, `D_top`, `D_bot`, insert mode, rendition, the character kept
back from the last position), its canvases, and the terminal itself with a screen, a
cursor, a region and its own modes, which does what the capabilities say; the terminal
is not part of the repository and its operators are marked external. A terminal's
capabilities are a record of flags (`cs`, `al`, `ic`, `im`, `lp`, ...), and `moves`
chooses which of the ways of moving the cursor is the cheapest. `Program` is one
control sequence of the program in a window. An `Operation` is what the function of
`ansi.c` does, in its order: a sequence of calls of layer functions and of changes of
the window (`Now`), for what is drawn depends on whether the window has changed yet.
`ForCanvas` is what a layer function calls on a canvas that shows the window, clipped
to it (`LPutChar`, `LScrollV`, `LClearArea`, ... of `layer.c`). The functions of
`display.c` that call one another (scrolling redraws, redrawing wraps, wrapping
scrolls) meet in `Call`, the one recursive operator of the project. `Refresh` draws everything, `Status` shows and
removes a message, `Idle` is `serv_select_fn` between two events, where a canvas
follows the cursor of a window larger than itself.

Left out: colours and background erase, double-width characters, the status line of
the terminal, autonuke, fonts, `D_CCD`.

### Copy

The record `s` is the layer (position in the text, view, marks, margins, count,
pending `f`, `t`, ...), the search and prompt states, the copy buffer and the rows on
the screen. `Type` is one read of the user's keys, processed key by key; `revto_line`
repaints what its code repaints. A search pattern is a sequence of characters;
`is_bm`'s jumps are modelled with its table (`Tab`).

Left out: messages, `WriteFile`, case folding, paste, the limit of the search string.

## What the runs show

| run | instance | properties |
|---|---|---|
| `sched_lists` | five events: `serv_select`, two events on one descriptor with two priorities, one of them with a condition, the write event of a display, a timeout; handlers of two operations | `ListsOrdered`, `WalkOnQueued`, `NoMissedEvent`, `OnlyReadyDispatched` |
| `sched_time` | two timeouts and a read event, 3 units to a second, clock up to 4, so that carry, borrow and `tv_usec == Usec` all occur | `TimeoutsSound`, `NeverEarly`, `PassTerminates` |
| `session` | two attachers with every mix of `-r`, `-x`, `-d -r`, `-d`, one a guest, on two terminals or on one, displays in any order on the list, hangups, locks, suspensions, one return | `SocketModeHonest`, `DisplaysSound`, `NoOrphanAttacher`, `DetachFirstAlone` |
| `session_live` | `-x` and `-d -r` with a password, on two terminals or on one, without autodetach, fair | `FlagsHonoured`, `ServerReturns`, `AttachAnswered` |
| `output` | two displays, one with autonuke and messages, one with a bell shown as a message, showing one window, that window's read event and its pseudo window's; `clear` and `reset`; a buffer of 4 that grows by 4, writes of up to 2 | `BufferExact`, `BufferSafe`, `ConditionsSound`, `BlockedComesBack` |
| `output_live` | two windows in the regions of one display, messages, `obuflimit`, `nonblock`, `clear` and `reset`, fair | `ReadAgain` |
| `access` | an owner, a user, and one who sends `-X`; one window, two displays, three numbers and then six, two commands that change the tables | `UsersSound`, `LockToWriters`, `OwnRights` |
| `windows` | three windows (two at the start), three canvases, three overlays, two displays of up to two regions, one layout, four events | `LayersSound`, `PointersAlive`, `OthersUndisturbed` |
| `terminal` | four starting screens, 2 or 3 columns, 2 or 4 lines, 2 or 3 lines of scrollback, 44 chunks, three events | `CursorInside`, `TableSound`, `HalvesTogether`, `ResizeKeepsText` |
| `drawing` | seven terminals (vt100, vt102, xterm, ansi, one with regions only, one that rewrites, one that can only move its cursor), one or two windows in five arrangements and one window shown twice, five starting screens, two operations | `Shown`, `Believed`, `CursorShown` |
| `copy` | 4 columns, 2 lines, 2 lines of scrollback, two texts, eight situations, two reads of 90 possible keys and sequences of keys | `ScreenExact`, `FindsNearest`, `CopiedIsHighlighted`, `MotionsByWord` |
| `children` | two windows, two process numbers, two filters (one both reads and answers, one takes the output alone), buffers of one unit, four events, fair | `ProcessesSound`, `DeathsAnswered`, `HangupNoticed` |

What is new in each of the later six, in words:

* `access`: what a user may do is changed only by a command that names him, although
  numbers are used again and fields move (`OwnRights`); a write lock is given only to
  one who may write (`LockToWriters`, the comment of `RC_WRITELOCK`); groups never
  lead back to where they started, and no pointer but a lock's outlives its user
  (`UsersSound`).
* `windows`: after every event each canvas is in the list of exactly the layer it
  shows, no overlay is lost, a blocked window is not shown (`LayersSound`); nothing
  points to what was freed (`PointersAlive`); a command of one user changes nothing on
  another's display, and a window that goes takes only its own canvases with it
  (`OthersUndisturbed`).
* `terminal`: the cursor, the saved cursor and the margins stay inside however output
  and resizes alternate (`CursorInside`); the table's entries never go in a circle,
  every combined character in a line has its entry, and the head of the list of
  single-width entries is never used as one (`TableSound`); output never leaves half a character (`HalvesTogether`); a resize
  keeps the text, in order and without gaps, and the cursor after the text it was
  after, when the text fits; and the cursor's line is one line still, when that line and
  those below it have room on the screen (`ResizeKeepsText`).
* `drawing`: after each control sequence every canvas shows its window (`Shown`), what
  the display believes of its terminal is true (`Believed`), and between writes the
  cursor is where the program in the focused window has put it (`CursorShown`).
* `copy`: after each key the screen shows the view, with exactly the region
  highlighted, although only a part is repainted (`ScreenExact`); what is copied is
  what was highlighted (`CopiedIsHighlighted`); words and searches are compared with
  definitions over the whole text (`MotionsByWord`, `FindsNearest`).
* `children`: pids, devices and queued events agree, and whenever the server has
  looked at the signal there is no child left to collect (`ProcessesSound`); a
  collected child closes its own window, and only that, as the zombie setting says
  (`DeathsAnswered`); a window that everybody has hung up is noticed
  (`HangupNoticed`).

Bounds. Two operations per handler let a handler dequeue the event the walk stands
on and the next one, or requeue one behind the walk; longer handlers repeat
these. Five events put two on one descriptor, one on each list and one at each end
of the list. Two attachers are enough for every interference between two
terminals or on one (a third adds only a second innocent display; it was left out
for its state space). `MaxReturns = 1` lets a locked or suspended attacher come
back once and find the terminal taken. `MaxNow` stops the clock.
`GRAIN = 4`, blocks of 2 and a limit of 2 let a buffer be empty, at the limit, above
it and grow, and a partial write leave it at each of these. `MaxUsed` is the one
bound that the code lacks: without it a user who selects or clears windows on a stopped
terminal makes the buffer grow for ever. One read event less or more than two changes
nothing for a display, which knows only what it owes.

In the later runs the bound is a number of events, and depth comes from the states the
runs start in. `access` starts with the users of the start-up file, so two commands
can remove a user and give his number away, or make the fields grow; steps of displays
are not counted. Four events in `windows` split, open two overlays and kill the window
below them; three overlays are one more than any layer chain then needs. In `terminal`
the starting screens have long lines, wide and combined characters, a saved cursor and
the alternate screen, so that three events are a sequence with a resize in its middle;
a table of two entries of each kind is full at once. In `drawing` two operations
follow a starting screen in which the cursor waits after the last position, margins
are set, or insert mode is on; the smallest canvases are as small as the code's
special cases (last column, last line, one line) allow. In `copy` two reads follow a
state with marks, a search or a prompt. In `children` `MaxReady` bounds the
descriptors of one pass that have data; those at end of file are all reported, and
`Size = 1` makes every buffer empty or full, which is what the conditions distinguish;
four events let a process stop, exit, be resurrected and its number be used again.

Fairness. `sched_time` assumes that the loop goes on walking and that handlers return;
nothing about `select()`, which may wait for ever. `session_live` assumes that
attachers execute their own code, that pending signals are delivered, that `alarm(15)`
expires and that the server serves its socket. Nothing is assumed of users (they need
not type, unlock or resume). The scheduler of the operating system and the event loop
(`NoMissedEvent`) justify this. `AttachAnswered` has one exception, which the terminal
that the two may share makes happen: `ReceiveMsg` drops every request from a terminal
whose display is at its password prompt, without a word (`socket.c:1024-1028`,
`BadDisplay`), and an attacher whose `MSG_ATTACH` came then sleeps in its loop. For
`NoOrphanAttacher`, where `MSG_CONT` is dropped as well, shared terminals are left out.

`output_live` assumes of the server (`ServerFairness`, weak fairness throughout) that a
pass of `sched()` gives every event its turn: a window that waits reads, or finds a
reason to wait again, if its condition stays true; a terminal that takes output is
written to. It does not assume that a window is served whose condition comes and goes:
the walk starts at the head of the list, and looks at the condition again when it is
the event's turn (`sched.c:193-207`), so an earlier window that always has output may
fill the buffer in each pass. TLC shows that starvation when the second part of
`ReadAgain` is taken away, and what is left is that the display as a whole does not
stand still. `TimeoutFairness` assumes that timeouts are served, for which `select()` has
to find nothing ready now and then (`sched.c:186`). Of the world (`OutsideFairness`)
the run assumes that messages and detaches come to an end, and that a terminal is
stopped, and a user selects or clears windows, finitely often.

`children` assumes of the server that the loop goes from phase to phase (`Moves`: when
a descriptor is at end of file `select()` returns) and that every reported
descriptor's handler is called in its pass (`Handles`, `NoMissedEvent`). Of processes,
users and signals nothing is assumed.

### Further configurations

These check, with the same modules, a statement that the program does not keep; each
gives TLC's shortest trace. They are kept for whoever changes that code; the runs
above exclude the case by a constant, or state the property with the exception.

| configuration | property | what the trace shows |
|---|---|---|
| `MCSessionMode` | `SocketModeHonest` | with session passwords the socket's mode goes wrong: displays that wait at the prompt are counted as attached (`socket.c:1184`, `screen.c:1821`; comment at `socket.c:271`) |
| `MCSessionRace` | `ResumeOnlyDetached` | `-r` checks the mode before it sends its message and the server does not check again: two `-r` may both attach (`attacher.c:286`; comment at `attacher.c:282`) |
| `MCSessionWait` | `DetachReturns` | `tscreen -d` can lose the `SIGCONT` it waits for between its test and `pause()` (`attacher.c:305`) |
| `MCOutputNuke` | `BufferExact` | a window that clears a display with autonuke while a bell is shown as a message breaks the counts of the output buffer (`display.c:3458`; assertions at `display.c:3313` and `3374`) |
| `MCWindowsOther` | `OtherAlive` | a `kill` sent with `-X` makes `D_other` the window that is freed next (`process.c:5212`, where `fore` is stale) |
| `MCTerminalSight` | `CursorInSight` | a change of the scrollback alone moves the cursor down when its line began in the scrollback (`resize.c:645`: "never lose sight of the line with the cursor on it") |
| `MCTerminalHead` | `HeadsKept` | with one entry for double-width characters, three marks are enough to use the head of its list as an entry (`encoding.c:1042`; comments "full, recycle old entry", `1039`, and "completely full, can't recycle", `1044`) |
| `MCDrawingGhost` | `Shown` | `ClearFromBOS` draws before it changes the window's lines (`ansi.c:1872`), and the text written once more to move the cursor is the old one |
| `MCCopyWords` | `WORDsAsInVi` | `E` does not go to the end of a WORD ("B, E move the cursor WORD by WORD (as in vi)", `texinfo:2928`; `mark.c:219`) |
| `MCCopyUndo` | `UndoneByBackspace` | backspace in an incremental search goes back further, or less far, than one key (`search.c:310-340`) |
| `MCCopyPrompt` | `PromptShown` | keys typed ahead after a backspace are not shown in the prompt (`input.c:262-287`) |
| `MCCopyWide` | `Highlighted` | with double-width characters the highlighting misses, or keeps, halves (`mark.c:1203`, `1335`) |
| `MCCopyRewrite` | `RewritesWhatIsShown` | `MarkRewrite` allows text to be written once more in the wrong rendition (`mark.c:1418-1435`) |
| `MCChildrenZero` | `ExitZeroLeaves` | a process that was stopped once is not recognised when it exits, so `zombie ... onerror` keeps its window (`screen.c:1569`; `texinfo:4562`) |
| `MCChildrenGhost` | `DeadUnread` | a window that becomes a zombie under its filter is queued for reading, with descriptor -1, when the filter goes (`window.c:1578`) |
| `MCChildrenLate` | `DeadCollected` | a `SIGCHLD` between `serv_select_fn` and `select()` waits for the next event (`screen.c:2954`) |
| `MCChildrenFilter` | `FilterReadsAlone` | a zombie that is resurrected under a filter is read by both (`window.c:831`) |

Seen while modelling, and in the models, but promised nowhere: timeouts wait while
descriptors are ready (`sched.c:186`); of the windows that wait for a display the
first on the list may starve the others (`sched.c:193-207`); a request from a terminal
whose display is at the password prompt is dropped, and its attacher not told
(`socket.c:1024-1028`); `obuflimit 0` stops a window for good, since
nothing pending is not fewer than 0 (`window.c:1691`); the pointers of a pseudo window's read event
into a freed display stay (`display.c:384`), and such an event is not re-enabled
when its display is given up (`display.c:3767`); `obuflimit` while a message is shown
takes 0 for the length of the buffer (`process.c:1338`); a `nonblock` of 0 given while a
window waits does not let it go on (`process.c:3776`), which is why `ReadAgain`
accepts it when the display is blocked; a stopped terminal stops the
server when a message is shown on it (`display.c:3322`).

Also seen; where a model reaches one of these, its property allows for it: in
`access`, a user's bits in the umasks of others and in the
monitor fields survive him (`acls.c:328`), defaults set with `umask ?` do not reach
numbers that are already allocated, and `su` does not release an automatic lock; in
`windows`, `RemoveLayout` clears `d_layout` of the current display only
(`display.c:4444`), `ExitOverlayPage` looks for canvases of layouts in a list that is
never filled (`layer.c:979`), and the canvases of a layout that does not fit on the
display are dropped when it is loaded; in `terminal`, entering the alternate screen
twice loses the saved one (`resize.c:959`), a change of width splits wide characters, and breaks the cursor's line in two when its
rows move down while they are copied (`resize.c:705-741`),
auto-wrap off leaves the cursor after the last column behind a double-width character
(`ansi.c:815`), and an entry of the table that is used again is still in the cells it
was in (the FIXME at `encoding.c:1050`); in `drawing`, scrolling sideways on a
terminal whose last position scrolls writes that character one column off
(`display.c:1928`), and `INSERTCHAR` at the last position relies on insert mode
(`display.c:1907`); in `copy`, `C` with a count larger than the width sets a margin
outside the line, and `%` counts one less; in `children`, a filter that is merely
stopped is removed (`WUNTRACED`), and a resurrection whose `fork` fails leaves a
window with a device and no process.

## What is proved

`LoopProofs` proves of `Sched`, with TLAPS and for every set of events, every assignment of
descriptors, priorities, types and delays and every bound, from
`EventsAssumption` alone:

* `TypeCorrect`: `Spec => []TypeOK`
* `ListsCorrect`: `Spec => []ListsSound`
* `OrderCorrect`: `Spec => []PriorityOrder`
* `WalkCorrect`: `Spec => []WalkOnQueued`
* `TimeoutCorrect`: `Spec => []TimeoutCurrent`
* `DispatchCorrect`: `Spec => OnlyReadyDispatched`
* `DeadlineCorrect`: `Spec => NeverEarly`
* and `ListsOrderedCorrect`, `TimeoutsCorrect`: `Spec => []ListsOrdered`, `Spec =>
  []TimeoutsSound`, which is what the runs check

The invariant is `IInv == Links /\ Cursors /\ Times /\ Pass`. `Links` is the lists
and the flags of events together (a list is sorted, has no duplicates, and holds
what `queued` and `type` say): neither part is preserved without the other.
`Cursors` is about `ev`, `nextev` and `timeoutev` at each control point: that
`timeoutev` is still queued as long as `calctimeout` is false is what makes
`SelectTimeout` safe, and that `nextev` is queued even while a handler runs is what
makes the walk safe. `Times` bounds the clock and the timevals; `Pass` says that
`set` is contained in what `select()` reported whenever `nsel` is not zero.
The lemmas `InsertAtShape` and `RemoveAtShape` state what inserting and removing
do to a sequence position by position; `InsertSound`, `UnlinkSound` and
`NextInSound` carry that to the lists, `EvenqKeeps` and `EvdeqKeeps` to the two
operations, and one lemma per action to the specification. `WaitForSound` and
`EarliestSound` are the arithmetic of deadlines.

`LoopProofs` proves of `Output`, for any displays, windows and readers, any lengths of
messages and redraws, any block size, grain and limits (`OutputAssumption`):

* `OutputTypeCorrect`: `OutputSpec => []OutputTypeOK`
* `CondsCorrect`: `OutputSpec => []NoDanglingCond`
* `BlockedCorrect`: `OutputSpec => []BlockedComesBack`
* `ConditionsCorrect`: `OutputSpec => []ConditionsSound`, of the first two
* and, when `AutoNuke \intersect Bells = {}`, which `MCOutputNuke` shows to be needed:
  `CountsCorrect`: `OutputSpec => []BufferExact`, `BlockCorrect`: `OutputSpec => []NoOverrun`,
  `RemovalCorrect`: `OutputSpec => []RemovalHeld`, and of these two `BufferCorrect`: `OutputSpec
  => []BufferSafe`.

The argument has two layers. One lemma per operation on a display (`PutSound`,
`RemoveStatusSound`, `AddCharsSound`, `FlushedSound`, `StartStatusSound`,
`EndStatusSound`, `ClearSound`, `ClearOne`, `RedrawSound`, `WrittenSound`) says what it does to
the counts; `Exact` is what they all preserve: `BufferExact` with the facts about what
is saved, without which `RemoveStatus` could not bring exact counts back. `Base`
(types, `Blocked`, `NoDanglingCond`) is then inductive by itself, with one lemma per
action, and `CInv` is inductive given `Base`: `Exact` for all displays, that a bell is
shown only where bells are messages, and that between the two halves of `MakeStatus`
the counts are not saved yet (`MessageBegun`). The case that needs the hypothesis is
`ReadWindowCounts`: `muchpending` lets a window through to a display that shows a
bell, and that display's counts are saved away, so it must not be one that a window
can clear.

The last part of the proofs about `Sched` is about what a whole pass serves:

* `NoneMissedCorrect`: `OneEventPerChannel => (Spec => []NoMissedEvent)`

`OneEventPerChannel` says that a descriptor has at most one event that reads from it
and one that writes. The code keeps to it but for one case: a telnet window that is
still connecting has `w_telconnev` beside `w_writeev` on one descriptor, and there one
of the two may have to wait for the next pass. The invariant is that the bits of
`select()` the walk has yet to come to are at most `nsel`, and that an event that has
to be served has been, or is ahead of the walk (`NoneMissed`). For the first the
position of the walk has to be compared before and after a handler edits the list, so
the lemmas of this part are about the order of what stays (`InsertOrder`,
`UnlinkOrder`, `NextOrder`) and not, as those before, about what is on the list.

`SessionProofs` proves of `Session`, for any attachers, command lines, terminals, guests
and passwords, and any number of returns:

* `TypeCorrect`: `Spec => []TypeOK`
* `DisplaysCorrect`: `Spec => []DisplaysSound`
* `NobodyForgotten`: `Spec => []NoOrphanAttacher`
* `DetachFirstCorrect`: `Spec => DetachFirstAlone`, for any order of the list of displays
* `ModeCorrect`: `Spec => []SocketModeHonest` where `Passwords = {}` (with passwords the
  mode is not honest, see `MCSessionMode`)

The invariant (`IInv`) says that an attacher has one request and the request is in one
place (`OnePlace`): not made yet, in a message on a connection, a display, or an order
to stop or lock that is pending, noted in a flag, or followed. `OneOrder` says the same
of the signals, `OneConnection` that an attacher has one open connection, exactly while
it looks at the mode of the socket. `NoneForgotten` is the property that matters,
freed of the moments at which it looks. What makes it inductive is that every handler
of the server only moves requests forward; the lemmas `...Effect` say what
`FinishAttach`, `FinishDetach`, `Detach` and `AttachRequest` do to displays and signals,
`Grows` is what they have in common, and `GrowsKeeps` carries it to the invariant. The
walk of `FinishDetach` is a fold over the list; `After(list, m, k)` is what it has come
to after k turns (`TurnIs` is one turn: the list is what was behind, `next` is its
head, though the display it was read from has been unlinked), and `WalkIs` that at its end
it has told everybody who was on the list and has marked the socket, once the list
was empty. With `ListingIs` and `UnlinkedIs` (any listing of the displays, without the
one that asks, is one of the others) `FinishAttachIs` and `FinishDetachIs` bring that to
the handlers.

`ChildrenProofs` proves of `Children`, for any windows, pids, filter patterns and sizes of
buffers:

* `Inductive`: `Spec => []IInv`
* `ProcessesCorrect`: `Spec => []ProcessesSound`

`SoundAt(s, w)` is true of every window at every point of every function: a pid on
record belongs to a child forked for that window (or its filter); the events agree with
the device and the filter; a window that is not in the list has nothing at all. The
last part is what `ProcessesSound` does not say and its proof needs, since a window
that is made gets a place in memory that was used before. `IInv` is that, and that
nobody waits to be collected unless the signal is noted. Each function of the code has
a lemma `...Sound`. `DoWait` collects in a loop, a fold in the model; `FoldLeftSteps`
turns it into a sequence of states, of which each is sound and has one less to collect.

`AccessProofs` proves of `Access` and `AclRights`, for any users, windows, displays,
classes of commands, links, `USER_CHUNK` and bounds (`AccessAssumption`; the one part
that the code does not see to itself is that nobody is linked to himself):

* `Inductive`: `Spec => []IInv`
* `UsersCorrect`: `Spec => []UsersSound`
* `LockCorrect`: `Spec => LockToWriters`
* `RightsCorrect`: `Spec => OwnRights`, which is that `Access` implements `AclRights`

`IInv` joins the tables: no user is listed twice, the numbers of users are distinct and
are those marked as used, no bit is set at or beyond the end of a field, links lead to
users and never back (`Acyclic`), a lock's holder is a user, nobody, or freed memory,
displays belong to users and show windows that are open. Without the ends of the fields
a new number might come with rights that somebody before it had; with them, what is
needed for the refinement is that the bits of a number go with the user (`UserDelSound`)
and that a field which grows gives its new numbers nothing but the defaults
(`GrowSound`, `EnterSound`). The lemmas on links rest on `Lenders` being a least set:
`LinkAcyclic` is that a link from u to v makes no circle when u lends nothing to v, the
test of `AclLinkUser`. For each command one lemma then says that the invariant stays,
that locks go to those who may write, and that the step is one of `AclRights` or changes
nothing there (`StepSound`): one case analysis serves the three theorems.
The initial tables are what the start-up file's `acladd`s make, a fold again.

`TerminalProofs` proves of the table of combined characters, for any alphabet, any
contents and any size of its parts (`TableAssumption`: there is an entry for single-width
characters, and no entry is a wide character; `NoCharacter`: it is none of the others
either, for the entries have the codes of surrogates, which the decoder rejects,
`encoding.c:732`):

* `NoCombinationsIsTable`: `Table` of the empty table
* `CombiningKeepsTable`: after a mark was combined with a character, or with an entry in
  use, `Table` still holds, the cell's entry is in use, and so are all that were.

`Table` is what `TableSound` says of the table itself (`Grounded`: no entries are made of
each other only; `HeadKept`) and what its proof needs: what an entry is made of is in use,
and the used entries for single-width characters are in their list and not in the other.
`DescentOnce` and `DescentEnds` say that following an entry down never meets one twice, by
`Grounded`, and therefore ends before there are no more (a pigeonhole). So the loop of
`comb_tofront`, a fold over as many steps as there are entries, gets to its end, and
`TofrontIs` says what the list is then: the entries the character is made of come first,
the character itself behind them. It is the reason why the code may take the last one of
the list and compare only that one with the character: if the last one is among those
the character is made of, it is the character, and "?" is shown; if it is not, no circle
can arise (`LinkKeeps`). The proof does not go through when what the character is made of
is left behind (`ToFrontAlone`, the mutant of `TableSound`).

And it proves of the emulator, for any alphabet, any sizes of the window (two columns or
more, one line or more, `Sizes`), any scrollback and any chunks (`ChunksOfBytes`: they
are sequences of bytes):

* `WindowKept`: `Spec => []Win(t)`
* `CursorStaysInside`: `Spec => []CursorInside`
* `TableStaysSound`: `Spec => []TableSound`

`Win` is the inductive invariant: a screen is a function from its rows to rows of its
width, the scrollback a sequence of such rows, and a cell holds a character or an entry
in use (`Good`), on the alternate screen as well; the cursor may be after the last
column, the saved cursor and the margins are on the screen, tab stops on the line; the
parser keeps to its arrays; and `Table`. `CursorInside` is not inductive by itself: that
the cursor stays on the screen when the window is resized depends on where its line of
text is wrapped, and thereby on the cells; the cells are what `Combining` is about, and
what is in use changes with every mark (`ScreenGrows`).

There is one lemma per operation of `Lines` and `Terminal`, each saying that it leaves
`Win` alone, most of them bounds of the cursor and lengths of sequences. The hard part is
`ChangeWindowSize`, for the lines of text from the cursor's on must reach the cursor, or
its new row is a negative one: `OffsetIs` says that the cursor is among the cells of its
line of text (each row of it that goes on has all its cells, `SumIsAtLeast`), `WrappedIs`
that this line gets as many rows as its cells need, `BelowIs` that the cursor's row is
one of them, and `PlacedIs` that its number on the screen is one, whether it is moved or
not. A window whose alternate screen has not been made yet (`Gone`) is wrapped too.
`WriteByte`, `WriteString`, the lists of modes and the tabulators are folds, and
`TrailKeeps` goes along them.

`LayerProofs` and `WindowsProofs` prove of `Windows`, for any windows, overlays, displays
and layouts, any pools and any bounds (`WindowsAssumption`: windows, canvases and overlays
are different things; `PoolsAssumption`: windows have different numbers, memory is
given out once, and there are canvases for two displays), and when no command is sent with
`-X` (`RemoteCmds = {}`; `MCWindowsOther` shows that this is needed, for then
`D_other` may be a window that is freed next):

* `AlwaysInv`: `Spec => []IInv`
* `TypeCorrect`: `Spec => []TypeOK`
* `LayersCorrect`: `Spec => []LayersSound`
* `PointersCorrect`: `Spec => []PointersAlive`
* `OthersCorrect`: `Spec => OthersUndisturbed`

`LayersSound` is not inductive: that a canvas and a layer know of each other says nothing of
what is left when the layer goes. `IInv` is `Fine(s)`, with no current display between
two events. The heart of `Fine` is `Core(t, e)`, which holds at every point between two
calls of one command as well, in the middle of a command where one overlay, `e`, is in no
chain any more:

* lists and canvases agree (`Lists`), and a canvas shows a layer of a window, or one on its
  own blank layer (`Homes`);
* chains end (`Ranked`: there is a rank that falls from each overlay to what is below it),
  and an overlay knows the window or the canvas at the end (`Based`);
* what is covered by an overlay is shown nowhere and is below nothing else, unless it is a
  window (`Covered`), and an overlay is shown, kept by a window, or covered (`Kept`);
* the layer to show with a window belongs to it (`Saved`), and a window is blocked exactly
  when one blocking overlay is in that layer's chain (`Blocks`);
* every pointer to a window, a layer or a canvas is to one that exists (`Points`, `Listed`).

`Settled(t, x, w)` adds the displays and layouts, but for the display `x`, whose focus is
being changed, and the window `w`, which is about to be freed and is in no list any more;
with neither, and with every canvas showing something (`Shown`) and the fore window on
some display (`ForeSeen`), it is `Fine`. `KillWindow` passes through all of these
stages: it takes the window off the list, gives each display another one to show,
kills the chains of overlays on it and frees it.
There is a lemma for each operation of the code (`ExitAllSound`, `InitSound`, `SetSound`,
`FreeCanvasSound`, `KillSound`, `KillWindowSound`, and so on), which says what it asks
for, what it leaves true, and which parts of the record it leaves alone; the proofs of the
callers cite these, in the code's order. `Moves(t, d, u)` is what a command on the display
`d` comes to: `Fine` again, no window lost, and on other displays everything as it was
(`Aside`), from which `OthersUndisturbed` follows.

The loops of the code (the canvases of a layer, the displays that show a window, the canvases
of a display, the windows a layout is loaded with, those made at the start) are folds, and the
lemmas on folds are about one operator, a constant of `ListProofs`. So all loops are turns
of one operator, `Turn`, whose first argument says which loop it is, and `ListProofs` is
instantiated once; what holds at the start of a loop and is kept by each turn holds at the
end, or there would be a first turn that loses it.

## What is only model-checked

* Liveness: `PassTerminates`, `FlagsHonoured`, `ServerReturns`, `AttachAnswered`,
  `ReadAgain`, `DeathsAnswered`, `HangupNoticed`. The prover has no rules for fairness
  and `ENABLED` that its backends could use.
* `Drawing` and `Copy` with `Lines`, and of `Terminal` what is in which cell
  (`HalvesTogether`, `ResizeKeepsText`). Some of their
  operators are recursive (the walk through a pattern) or fold over the characters of a
  line, and their properties are about what the result is for every input, an
  induction over data whose library theorems take an operator as a parameter, which
  the installed provers cannot instantiate. `ListProofs` shows the way around it for
  folds: a least counterexample instead of an induction, with the folded operator
  a constant of the module. That serves where an invariant goes through the fold, as in
  `Children`, `Access`, `Windows`, `Combining` and `Terminal`; it does not where the value itself has
  to be known.

## The plan from here

`HalvesTogether` of `Terminal` is the next to prove: the lemmas about rows are there, with
`Whole` in the place of the cells' set.

## Not modelled

The command interpreter (`process.c`: parsing, key maps, message strings, most
commands), start-up files, registers and bindings (`fileio.c`), log files
(`logfile.c`), help texts, termcap tables and generated code, utmp, ptys and load
average: input/output, tables and string handling, sequential, with little that an
interleaving or a boundary could break beyond what a unit test reaches. Telnet windows
(`teln.c`) are compiled in only on request. The sizes of the regions of a display
(`resize`, `fit`, the slices of a canvas) are left out: the regions of `Windows` have
a size only as far as it decides whether an overlay is resized, and those of `Drawing`
do not change. Of the session, `MSG_CREATE`, `MSG_COMMAND`, `MSG_WINCH` and
`MSG_ERROR` (they do not touch displays or attachers), the `-D` variants (the same
paths with `SIG_POWER_BYE`) and the setuid pipe of `multiattach`. What each module
leaves out of its own component is said in its section.
