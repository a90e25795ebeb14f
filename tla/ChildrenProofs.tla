--------------------------- MODULE ChildrenProofs ---------------------------
(* Proofs about Children: the pids, the devices and the events agree.       *)
EXTENDS Children, ListProofs, FiniteSetTheorems

\* A pid on record in window w belongs to the child that was forked for w.
PidSound(q, kid, w) == q \in Pids => kid[q].state # "free" /\ kid[q].of = w /\ ~kid[q].filter

JobSound(v, kid, w) == PidSound(v.pid, kid, w) /\ PidSound(v.deadpid, kid, w)
FilterSound(f, kid, w) ==
  f # None => f.pid \in Pids /\ kid[f.pid].state # "free" /\ kid[f.pid].of = w /\ kid[f.pid].filter

EventSound(v, f) ==
  /\ v.open = v.writeq
  /\ v.open /\ (f = None \/ F_PFRONT(f.pat.fd[1])) => v.readq
  /\ v.awaits => W_WTOP(f)

\* What is true of every window of the server t, and of those that are not there.
SoundAt(t, w) ==
  /\ JobSound(t.win[w], t.kid, w)
  /\ FilterSound(t.filter[w], t.kid, w)
  /\ EventSound(t.win[w], t.filter[w])
  /\ w \notin Alive(t) => t.win[w] = NoWindow /\ t.filter[w] = None

Typed(t) == t \in Servers /\ IsInjective(t.windows)
SoundBut(t, w) == \A v \in Windows \ {w} : SoundAt(t, v)
Sound(t) == Typed(t) /\ \A w \in Windows : SoundAt(t, w)
Holds(t, w, p) == HasJob(t, w, p) \/ HasFilter(t, w, p)

\* DoWait folds Collect over the children.
SoundServers == {t \in Servers : Sound(t)}
CollectIn(par, v, x) == Collect(v, x)
F == INSTANCE ListProofs WITH op <- CollectIn

-----------------------------------------------------------------------------
(* The operations change one window with its filter, or one child.          *)

With(t, w, r, f) == [t EXCEPT !.win[w] = r, !.filter[w] = f]
WithKid(t, p, k) == [t EXCEPT !.kid[p] = k]

\* The fields of a server after the change of a window.
LEMMA WithIs ==
  ASSUME NEW t, Typed(t), NEW w \in Windows,
         NEW r \in WindowRecords, NEW f \in FilterRecords \union {None}
  PROVE  LET u == With(t, w, r, f) IN
         /\ Typed(u) /\ u.windows = t.windows /\ u.kid = t.kid /\ u.win[w] = r /\ u.filter[w] = f
         /\ \A v \in Windows \ {w} : u.win[v] = t.win[v] /\ u.filter[v] = t.filter[v]
BY DEF With, Typed, Servers

\* The fields of a server after the change of a child.
LEMMA WithKidIs ==
  ASSUME NEW t, Typed(t), NEW p \in Pids, NEW k \in ChildRecords
  PROVE  LET u == WithKid(t, p, k) IN
         /\ Typed(u) /\ u.windows = t.windows /\ u.win = t.win /\ u.filter = t.filter
         /\ u.kid[p] = k /\ \A q \in Pids \ {p} : u.kid[q] = t.kid[q]
BY DEF WithKid, Typed, Servers

\* The fields have the right types.
LEMMA Fields ==
  ASSUME NEW t, Typed(t)
  PROVE  /\ \A w \in Windows : t.win[w] \in WindowRecords /\ t.filter[w] \in FilterRecords \union {None}
         /\ \A p \in Pids : t.kid[p] \in ChildRecords
         /\ Alive(t) \subseteq Windows
<1>1. t.windows \in Seq(Windows)
  BY DEF Typed, Servers
<1>2. Alive(t) \subseteq Windows
  BY <1>1, ElementOfSeq, LenProperties DEF Alive, ToSet
<1>3. QED
  BY <1>2 DEF Typed, Servers

-----------------------------------------------------------------------------
(* What an operation on another window leaves alone.                        *)

\* A window stays sound while its records do not change, and its children do not.
LEMMA Kept ==
  ASSUME NEW t \in Servers, NEW u \in Servers, NEW w \in Windows, SoundAt(t, w),
         u.win[w] = t.win[w], u.filter[w] = t.filter[w], w \in Alive(t) => w \in Alive(u),
         \A p \in Pids : Holds(t, w, p) =>
           u.kid[p].state # "free" /\ u.kid[p].of = t.kid[p].of /\ u.kid[p].filter = t.kid[p].filter
  PROVE  SoundAt(u, w)
<1>1. JobSound(u.win[w], u.kid, w)
  BY DEF SoundAt, JobSound, PidSound, Holds, HasJob
<1>2. FilterSound(u.filter[w], u.kid, w)
  BY DEF SoundAt, FilterSound, Holds, HasFilter
<1>3. QED
  BY <1>1, <1>2 DEF SoundAt

\* A process is held by the window it was forked for.
LEMMA HeldBy ==
  ASSUME NEW t, NEW w \in Windows, NEW p \in Pids, SoundAt(t, w), Holds(t, w, p)
  PROVE  t.kid[p].of = w /\ t.kid[p].state # "free" /\ (t.kid[p].filter <=> ~HasJob(t, w, p))
BY DEF SoundAt, JobSound, PidSound, FilterSound, Holds, HasJob, HasFilter

\* One window is changed: the others stay sound.
LEMMA WithBut ==
  ASSUME NEW t, Typed(t), NEW w \in Windows, SoundBut(t, w),
         NEW r \in WindowRecords, NEW f \in FilterRecords \union {None}
  PROVE  SoundBut(With(t, w, r, f), w)
<1>1. PICK u : u = With(t, w, r, f)
  OBVIOUS
<1>2. /\ Typed(u) /\ u.windows = t.windows /\ u.kid = t.kid
      /\ \A v \in Windows \ {w} : u.win[v] = t.win[v] /\ u.filter[v] = t.filter[v]
  BY <1>1, WithIs
<1>3. ASSUME NEW v \in Windows \ {w} PROVE SoundAt(u, v)
  <2>1. SoundAt(t, v) /\ t \in Servers /\ u \in Servers
    BY <1>2 DEF SoundBut, Typed
  <2>2. \A p \in Pids : Holds(t, v, p) => t.kid[p].state # "free"
    BY <2>1, HeldBy
  <2>3. QED
    BY <1>2, <2>1, <2>2, Kept DEF Alive
<1>4. QED
  BY <1>1, <1>3 DEF SoundBut

\* One window is changed, and is sound.
LEMMA WithSound ==
  ASSUME NEW t, Typed(t), NEW w \in Alive(t), SoundBut(t, w),
         NEW r \in WindowRecords, NEW f \in FilterRecords \union {None},
         JobSound(r, t.kid, w), FilterSound(f, t.kid, w), EventSound(r, f)
  PROVE  Sound(With(t, w, r, f)) /\ With(t, w, r, f).kid = t.kid
<1>0. w \in Windows
  BY Fields
<1>1. PICK u : u = With(t, w, r, f)
  OBVIOUS
<1>2. Typed(u) /\ u.windows = t.windows /\ u.kid = t.kid /\ u.win[w] = r /\ u.filter[w] = f
  BY <1>0, <1>1, WithIs
<1>3. SoundAt(u, w)
  BY <1>2 DEF SoundAt, Alive
<1>4. SoundBut(u, w)
  BY <1>0, <1>1, WithBut
<1>5. QED
  BY <1>1, <1>2, <1>3, <1>4 DEF Sound, SoundBut

\* One child is changed: the windows that hold it must find it the same.
LEMMA WithKidSound ==
  ASSUME NEW t, Typed(t), NEW p \in Pids, NEW k \in ChildRecords, NEW w \in Windows, SoundAt(t, w),
         Holds(t, w, p) => k.state # "free" /\ k.of = t.kid[p].of /\ k.filter = t.kid[p].filter
  PROVE  SoundAt(WithKid(t, p, k), w)
<1>1. PICK u : u = WithKid(t, p, k)
  OBVIOUS
<1>2. /\ Typed(u) /\ u.windows = t.windows /\ u.win = t.win /\ u.filter = t.filter
      /\ u.kid[p] = k /\ \A q \in Pids \ {p} : u.kid[q] = t.kid[q]
  BY <1>1, WithKidIs
<1>3. t \in Servers /\ u \in Servers
  BY <1>2 DEF Typed
<1>4. \A q \in Pids : Holds(t, w, q) => t.kid[q].state # "free"
  BY HeldBy
<1>5. ASSUME NEW q \in Pids, Holds(t, w, q)
      PROVE  u.kid[q].state # "free" /\ u.kid[q].of = t.kid[q].of /\ u.kid[q].filter = t.kid[q].filter
  BY <1>2, <1>4, <1>5
<1>6. SoundAt(u, w)
  BY <1>2, <1>3, <1>5, Kept DEF Alive
<1>7. QED
  BY <1>1, <1>6

-----------------------------------------------------------------------------
(* Windows and filters go.                                                  *)

\* A server that has ended is sound, and has no children to wait for.
LEMMA EndedSound == Sound(Ended) /\ Waiting(Ended) = {}
<1>1. Typed(Ended)
  <2>1. <<>> \in Seq(Windows) /\ DOMAIN <<>> = {}
    OBVIOUS
  <2>2. IsInjective(<<>>)
    BY <2>1 DEF IsInjective
  <2>3. NoWindow \in WindowRecords /\ NoChild \in ChildRecords
    BY ChildrenAssumption DEF NoWindow, NoChild, WindowRecords, ChildRecords, Ends
  <2>4. QED
    BY <2>1, <2>2, <2>3 DEF Typed, Servers, Ended
<1>2. ASSUME NEW w \in Windows PROVE SoundAt(Ended, w)
  BY ChildrenAssumption DEF SoundAt, JobSound, PidSound, FilterSound, EventSound, Ended, NoWindow
<1>3. Waiting(Ended) = {}
  BY DEF Waiting, Ended, NoChild
<1>4. QED
  BY <1>1, <1>2, <1>3 DEF Sound

\* What Forget does to the records.
LEMMA ForgetFields ==
  ASSUME NEW t, Typed(t), NEW w \in Windows
  PROVE  LET u == Forget(t, w) IN
         /\ Typed(u) /\ u.windows = t.windows /\ u.kid = t.kid
         /\ u.win[w] = NoWindow /\ u.filter[w] = None
         /\ \A v \in Windows \ {w} : u.win[v] = t.win[v] /\ u.filter[v] = t.filter[v]
<1>1. NoWindow \in WindowRecords
  BY ChildrenAssumption DEF NoWindow, WindowRecords, Ends
<1>2. QED
  BY <1>1 DEF Forget, Typed, Servers

\* A window is killed: the others stay as they are.
LEMMA KillWindowSound ==
  ASSUME NEW t, Typed(t), NEW w \in Alive(t), SoundBut(t, w)
  PROVE  /\ Sound(KillWindow(t, w))
         /\ KillWindow(t, w).kid = t.kid \/ KillWindow(t, w) = Ended
<1> DEFINE left == RemoveFirst(t.windows, w)
           k == [t EXCEPT !.windows = left]
           u == Forget(k, w)
<1>1. t.windows \in Seq(Windows) /\ IsInjective(t.windows)
  BY DEF Typed, Servers
<1>2. w \in Windows
  BY <1>1, ElementOfSeq, LenProperties DEF Alive, ToSet
<1>3. left \in Seq(Windows) /\ IsInjective(left) /\ ToSet(left) = Alive(t) \ {w}
  BY <1>1, ListRemoved DEF Alive
<1>4. CASE left = <<>>
  BY <1>4, EndedSound DEF KillWindow
<1>5. CASE left # <<>>
  <2>1. KillWindow(t, w) = u
    BY <1>5 DEF KillWindow
  <2> HIDE DEF left
  <2>2. /\ Typed(k) /\ k.windows = left /\ k.kid = t.kid
        /\ \A v \in Windows : k.win[v] = t.win[v] /\ k.filter[v] = t.filter[v]
    BY <1>3 DEF Typed, Servers
  <2> HIDE DEF k
  <2>3. /\ Typed(u) /\ u.windows = left /\ u.kid = t.kid
        /\ u.win[w] = NoWindow /\ u.filter[w] = None
        /\ \A v \in Windows \ {w} : u.win[v] = t.win[v] /\ u.filter[v] = t.filter[v]
    BY <1>2, <2>2, ForgetFields
  <2> HIDE DEF u
  <2>4. SoundAt(u, w)
    BY <2>3, ChildrenAssumption DEF SoundAt, JobSound, PidSound, FilterSound, EventSound, NoWindow
  <2>5. ASSUME NEW v \in Windows \ {w} PROVE SoundAt(u, v)
    <3>1. SoundAt(t, v) /\ t \in Servers /\ u \in Servers
      BY <2>3 DEF SoundBut, Typed
    <3>2. v \in Alive(t) => v \in Alive(u)
      BY <1>3, <2>3 DEF Alive
    <3>3. \A p \in Pids : Holds(t, v, p) => t.kid[p].state # "free"
      BY <3>1, HeldBy
    <3>4. QED
      BY <2>3, <3>1, <3>2, <3>3, Kept
  <2>6. QED
    BY <2>1, <2>3, <2>4, <2>5 DEF Sound
<1>6. QED
  BY <1>4, <1>5

Bury(t, w, p) == [t EXCEPT !.win[w].deadpid = p, !.win[w].pid = None]

\* Two fields at once.
LEMMA Buried ==
  ASSUME NEW t \in Servers, NEW w \in Windows, NEW p
  PROVE  Bury(t, w, p)
           = With(t, w, [t.win[w] EXCEPT !.deadpid = p, !.pid = None], t.filter[w])
BY DEF Servers, With, Bury

\* A device is closed, its process becomes the dead one: the window stays as a zombie, or goes.
LEMMA WindowDiedSound ==
  ASSUME NEW t, Typed(t), NEW w \in Alive(t), SoundBut(t, w), NEW status,
         PidSound(t.win[w].pid, t.kid, w), FilterSound(t.filter[w], t.kid, w),
         t.win[w].awaits => W_WTOP(t.filter[w])
  PROVE  /\ Sound(WindowDied(t, w, status))
         /\ WindowDied(t, w, status).kid = t.kid \/ WindowDied(t, w, status) = Ended
<1>1. CASE ~Zombied(status)
  BY <1>1, KillWindowSound DEF WindowDied
<1>2. CASE Zombied(status)
  <2> DEFINE closed == [t.win[w] EXCEPT !.open = FALSE, !.readq = FALSE, !.writeq = FALSE]
             dead == [closed EXCEPT !.deadpid = t.win[w].pid, !.pid = None]
             c == CloseDevice(t, w)
  <2>1. w \in Windows /\ t.win[w] \in WindowRecords /\ t.filter[w] \in FilterRecords \union {None}
    BY Fields
  <2>2. c = With(t, w, closed, t.filter[w])
    BY <2>1 DEF CloseDevice, With, Typed, Servers
  <2>3. closed \in WindowRecords
    BY <2>1 DEF WindowRecords
  <2>4. dead \in WindowRecords
    BY <2>1 DEF WindowRecords
  <2>5. JobSound(dead, t.kid, w) /\ EventSound(dead, t.filter[w])
    BY <2>1, ChildrenAssumption DEF JobSound, PidSound, EventSound, WindowRecords
  <2>6. /\ Typed(c) /\ c.windows = t.windows /\ c.kid = t.kid
        /\ c.win[w] = closed /\ c.filter[w] = t.filter[w] /\ SoundBut(c, w)
    BY <2>1, <2>2, <2>3, WithIs, WithBut
  <2>7. WindowDied(t, w, status) = Bury(c, w, t.win[w].pid)
    BY <1>2 DEF WindowDied, Bury
  <2> HIDE DEF c
  <2>8. WindowDied(t, w, status) = With(c, w, dead, c.filter[w])
    <3>1. c \in Servers
      BY <2>6 DEF Typed
    <3>2. Bury(c, w, t.win[w].pid) = With(c, w, [c.win[w] EXCEPT !.deadpid = t.win[w].pid, !.pid = None], c.filter[w])
      BY <2>1, <3>1, Buried
    <3>3. QED
      BY <2>6, <2>7, <3>2
  <2> HIDE DEF dead
  <2>9. w \in Alive(c)
    BY <2>6 DEF Alive
  <2>10. QED
    BY <2>1, <2>4, <2>5, <2>6, <2>8, <2>9, WithSound
<1>3. QED
  BY <1>1, <1>2

\* The filter goes, the window is read again.
LEMMA FreePseudowinSound ==
  ASSUME NEW t, Typed(t), NEW w \in Alive(t), SoundBut(t, w),
         JobSound(t.win[w], t.kid, w), t.win[w].open = t.win[w].writeq
  PROVE  Sound(FreePseudowin(t, w)) /\ FreePseudowin(t, w).kid = t.kid
<1> DEFINE r == [t.win[w] EXCEPT !.awaits = FALSE, !.readq = TRUE]
<1>1. w \in Windows /\ t.win[w] \in WindowRecords
  BY Fields
<1>2. r \in WindowRecords
  BY <1>1 DEF WindowRecords
<1>3. JobSound(r, t.kid, w) /\ FilterSound(None, t.kid, w) /\ EventSound(r, None)
  BY <1>1 DEF JobSound, FilterSound, EventSound, WindowRecords
<1>4. FreePseudowin(t, w) = With(t, w, r, None)
  BY <1>1 DEF FreePseudowin, With, Typed, Servers
<1> HIDE DEF r
<1>5. QED
  BY <1>2, <1>3, <1>4, WithSound

-----------------------------------------------------------------------------
(* SIGCHLD.                                                                 *)

\* Only p has changed, and waits no more.
LEMMA WaitsNoMore ==
  ASSUME NEW t, NEW u, NEW p \in Pids,
         u.kid[p].state \notin {"ttystop", "stop", "exited"},
         \A q \in Pids \ {p} : u.kid[q] = t.kid[q]
  PROVE  Waiting(u) \subseteq Waiting(t) \ {p}
BY DEF Waiting

\* A child is reported: the windows that do not hold it stay sound, and so do all if it lives on.
LEMMA ReportedSound ==
  ASSUME NEW t, Sound(t), NEW p \in Pids
  PROVE  LET u == Reported(t, p) IN
         /\ Typed(u) /\ u.windows = t.windows /\ u.win = t.win /\ u.filter = t.filter
         /\ \A q \in Pids \ {p} : u.kid[q] = t.kid[q]
         /\ u.kid[p].state \in {"free", "stopped"}
         /\ t.kid[p].state # "exited" =>
              u.kid[p].state = "stopped" /\ u.kid[p].of = t.kid[p].of /\ u.kid[p].filter = t.kid[p].filter
         /\ \A w \in Windows : ~Holds(t, w, p) => SoundAt(u, w)
<1> DEFINE k == IF t.kid[p].state = "exited" THEN NoChild ELSE [t.kid[p] EXCEPT !.state = "stopped"]
<1>1. Typed(t) /\ t.kid[p] \in ChildRecords
  BY Fields DEF Sound
<1>2. k \in ChildRecords
  BY <1>1 DEF ChildRecords, NoChild
<1>3. Reported(t, p) = WithKid(t, p, k)
  BY <1>1 DEF Reported, WithKid, Typed, Servers
<1>4. /\ k.state \in {"free", "stopped"}
      /\ t.kid[p].state # "exited" =>
           k.state = "stopped" /\ k.of = t.kid[p].of /\ k.filter = t.kid[p].filter
  BY <1>1 DEF ChildRecords, NoChild
<1> HIDE DEF k
<1>5. \A w \in Windows : ~Holds(t, w, p) => SoundAt(WithKid(t, p, k), w)
  BY <1>1, <1>2, WithKidSound DEF Sound
<1>6. QED
  BY <1>1, <1>2, <1>3, <1>4, <1>5, WithKidIs

\* The window of a process that is reported is sound afterwards.
LEMMA JobReportedSound ==
  ASSUME NEW t, Sound(t), NEW w \in Alive(t), NEW p \in Pids, HasJob(t, w, p)
  PROVE  LET u == JobReported(t, w, p) IN Sound(u) /\ Waiting(u) \subseteq Waiting(t) \ {p}
<1>1. PICK r : r = Reported(t, p)
  OBVIOUS
<1>2. /\ Typed(r) /\ r.windows = t.windows /\ r.win = t.win /\ r.filter = t.filter
      /\ \A q \in Pids \ {p} : r.kid[q] = t.kid[q]
      /\ r.kid[p].state \in {"free", "stopped"}
      /\ t.kid[p].state # "exited" =>
           r.kid[p].state = "stopped" /\ r.kid[p].of = t.kid[p].of /\ r.kid[p].filter = t.kid[p].filter
      /\ \A v \in Windows : ~Holds(t, v, p) => SoundAt(r, v)
  BY <1>1, ReportedSound
<1>3. w \in Windows /\ Typed(t) /\ \A v \in Windows : SoundAt(t, v)
  BY Fields DEF Sound
<1>4. t.kid[p].of = w /\ t.kid[p].state # "free" /\ ~t.kid[p].filter
  BY <1>3, HeldBy DEF Holds
<1>5. SoundBut(r, w)
  <2>1. ASSUME NEW v \in Windows \ {w} PROVE ~Holds(t, v, p)
    BY <1>3, <1>4, HeldBy
  <2>2. QED
    BY <1>2, <2>1 DEF SoundBut
<1>6. r.win[w] \in WindowRecords /\ r.filter[w] \in FilterRecords \union {None}
  BY <1>2, <1>3, Fields
<1> DEFINE v == [r.win[w] EXCEPT !.pid = None]
<1>7. PICK told : told = With(r, w, v, r.filter[w])
  OBVIOUS
<1>8. v \in WindowRecords /\ v.pid = None /\ v.deadpid = t.win[w].deadpid
      /\ v.open = t.win[w].open /\ v.writeq = t.win[w].writeq /\ v.readq = t.win[w].readq
      /\ v.awaits = t.win[w].awaits
  BY <1>2, <1>6 DEF WindowRecords
<1>9. [r EXCEPT !.win[w].pid = None] = told
  BY <1>2, <1>3, <1>7 DEF With, Typed, Servers
<1> HIDE DEF v
<1>10. /\ Typed(told) /\ told.windows = t.windows /\ told.kid = r.kid
       /\ told.win[w] = v /\ told.filter[w] = t.filter[w] /\ SoundBut(told, w)
  BY <1>2, <1>3, <1>5, <1>6, <1>7, <1>8, WithIs, WithBut
<1>11. FilterSound(t.filter[w], r.kid, w)
  BY <1>2, <1>3, <1>4 DEF SoundAt, FilterSound
<1>12. EventSound(v, t.filter[w])
  BY <1>3, <1>8 DEF SoundAt, EventSound
<1>13. \A u : u.kid = r.kid => Waiting(u) \subseteq Waiting(t) \ {p}
  BY <1>2, WaitsNoMore
<1>14. ASSUME t.kid[p].state # "exited" PROVE JobSound(v, r.kid, w)
  <2>1. PidSound(v.pid, r.kid, w)
    BY <1>8, ChildrenAssumption DEF PidSound
  <2>2. PidSound(t.win[w].deadpid, t.kid, w)
    BY <1>3 DEF SoundAt, JobSound
  <2>3. PidSound(v.deadpid, r.kid, w)
    BY <1>2, <1>4, <1>8, <1>14, <2>2 DEF PidSound
  <2>4. QED
    BY <2>1, <2>3 DEF JobSound
<1>15. t.kid[p].state # "exited" => Sound(told)
  BY <1>2, <1>3, <1>5, <1>6, <1>7, <1>8, <1>11, <1>12, <1>14, WithSound DEF Alive
<1>16. CASE t.kid[p].state = "ttystop"
  <2>1. JobReported(t, w, p) = told
    BY <1>1, <1>9, <1>16 DEF JobReported
  <2>2. QED
    BY <1>10, <1>13, <1>15, <1>16, <2>1
<1>17. CASE t.kid[p].state = "stop"
  <2> DEFINE k == [told.kid[p] EXCEPT !.state = "running"]
  <2>1. told.kid[p] \in ChildRecords /\ Typed(told)
    BY <1>10, Fields
  <2>2. k \in ChildRecords /\ k.state = "running" /\ k.of = told.kid[p].of /\ k.filter = told.kid[p].filter
    BY <2>1 DEF ChildRecords
  <2>3. JobReported(t, w, p) = [told EXCEPT !.kid[p].state = "running"]
    BY <1>1, <1>9, <1>17 DEF JobReported
  <2>4. [told EXCEPT !.kid[p].state = "running"] = WithKid(told, p, k)
    BY <2>1 DEF WithKid, Typed, Servers
  <2> HIDE DEF k
  <2>5. Sound(WithKid(told, p, k))
    <3>1. \A x \in Windows : SoundAt(told, x)
      BY <1>15, <1>17 DEF Sound
    <3>2. Typed(WithKid(told, p, k))
      BY <2>1, <2>2, WithKidIs
    <3>3. \A x \in Windows : SoundAt(WithKid(told, p, k), x)
      BY <2>1, <2>2, <3>1, WithKidSound
    <3>4. QED
      BY <3>2, <3>3 DEF Sound
  <2>6. Waiting(WithKid(told, p, k)) \subseteq Waiting(t) \ {p}
    <3>1. PICK u : u = WithKid(told, p, k)
      OBVIOUS
    <3>2. u.kid[p] = k /\ \A q \in Pids \ {p} : u.kid[q] = t.kid[q]
      BY <1>2, <1>10, <2>1, <2>2, <3>1, WithKidIs, SMTT(30)
    <3>3. QED
      BY <2>2, <3>1, <3>2, WaitsNoMore
  <2>7. QED
    BY <2>3, <2>4, <2>5, <2>6
<1>18. CASE t.kid[p].state \notin {"ttystop", "stop"}
  <2>1. PICK status : JobReported(t, w, p) = WindowDied(told, w, status)
    BY <1>1, <1>9, <1>18 DEF JobReported
  <2>2. PidSound(told.win[w].pid, told.kid, w)
    BY <1>8, <1>10, ChildrenAssumption DEF PidSound
  <2>3. w \in Alive(told) /\ FilterSound(told.filter[w], told.kid, w)
    BY <1>10, <1>11 DEF Alive
  <2>4. told.win[w].awaits => W_WTOP(told.filter[w])
    BY <1>10, <1>12 DEF EventSound
  <2>5. /\ Sound(WindowDied(told, w, status))
        /\ WindowDied(told, w, status).kid = r.kid \/ WindowDied(told, w, status) = Ended
    BY <1>10, <2>2, <2>3, <2>4, WindowDiedSound
  <2>6. QED
    BY <1>13, <2>1, <2>5, EndedSound
<1>19. QED
  BY <1>16, <1>17, <1>18

\* One round of DoWait's loop.
LEMMA CollectSound ==
  ASSUME NEW t, Sound(t), NEW p \in Pids
  PROVE  Sound(Collect(t, p)) /\ Waiting(Collect(t, p)) \subseteq Waiting(t) \ {p}
<1> DEFINE I == {i \in 1 .. Len(t.windows) : Holds(t, t.windows[i], p)}
           at == IF I # {} THEN Min(I) ELSE 0
           w == t.windows[at]
<1>1. /\ t.windows \in Seq(Windows) /\ Typed(t) /\ \A v \in Windows : SoundAt(t, v)
      /\ Alive(t) = {t.windows[i] : i \in 1 .. Len(t.windows)}
  BY LenProperties DEF Sound, Typed, Servers, Alive, ToSet
<1>2. Collect(t, p) = CASE at = 0 -> Reported(t, p)
                        [] at # 0 /\ HasJob(t, w, p) -> JobReported(t, w, p)
                        [] OTHER -> FreePseudowin(Reported(t, p), w)
  BY DEF Collect, SelectInSeq, Holds
<1>3. I # {} => Min(I) \in I
  <2>1. I \in SUBSET Nat
    BY <1>1, LenProperties
  <2> HIDE DEF I
  <2>2. SUFFICES ASSUME I # {} PROVE Min(I) \in I
    OBVIOUS
  <2>3. PICK m \in I : \A i \in I : m <= i
    BY <2>1, <2>2, LeastNumber
  <2>4. QED
    BY <2>3 DEF Min
<1>4. (at = 0 => I = {}) /\ (at # 0 => at \in I)
  BY <1>3
<1>5. PICK r : r = Reported(t, p)
  OBVIOUS
<1>6. /\ Typed(r) /\ r.windows = t.windows /\ r.win = t.win /\ r.filter = t.filter
      /\ \A q \in Pids \ {p} : r.kid[q] = t.kid[q]
      /\ r.kid[p].state \in {"free", "stopped"}
      /\ \A v \in Windows : ~Holds(t, v, p) => SoundAt(r, v)
  BY <1>5, ReportedSound
<1>7. \A u : u.kid = r.kid => Waiting(u) \subseteq Waiting(t) \ {p}
  BY <1>6 DEF Waiting
<1> HIDE DEF at
<1>8. CASE at = 0
  <2>1. \A v \in Alive(t) : ~Holds(t, v, p)
    BY <1>1, <1>4, <1>8
  <2>2. \A v \in Windows \ Alive(t) : ~Holds(t, v, p)
    BY <1>1, ChildrenAssumption DEF SoundAt, Holds, HasJob, HasFilter, NoWindow
  <2>3. QED
    BY <1>2, <1>5, <1>6, <1>7, <1>8, <2>1, <2>2 DEF Sound
<1>9. CASE at # 0
  <2>1. w \in Alive(t) /\ w \in Windows /\ Holds(t, w, p)
    BY <1>1, <1>4, <1>9, Fields
  <2> HIDE DEF w
  <2>2. CASE HasJob(t, w, p)
    BY <1>2, <1>9, <2>1, <2>2, JobReportedSound
  <2>3. CASE ~HasJob(t, w, p)
    <3>1. HasFilter(t, w, p) /\ t.kid[p].of = w /\ t.kid[p].filter
      BY <1>1, <2>1, <2>3, HeldBy DEF Holds
    <3>2. ASSUME NEW v \in Windows \ {w} PROVE ~Holds(t, v, p)
      BY <1>1, <3>1, HeldBy
    <3>3. SoundBut(r, w)
      BY <1>6, <3>2 DEF SoundBut
    <3>4. JobSound(r.win[w], r.kid, w) /\ r.win[w].open = r.win[w].writeq
      <4>1. SoundAt(t, w)
        BY <1>1, <2>1
      <4>2. JobSound(t.win[w], t.kid, w) /\ t.win[w].open = t.win[w].writeq
        BY <4>1 DEF SoundAt, EventSound
      <4>3. QED
        BY <1>6, <2>3, <4>2 DEF JobSound, PidSound, HasJob
    <3>5. w \in Alive(r)
      BY <1>6, <2>1 DEF Alive
    <3>6. Sound(FreePseudowin(r, w)) /\ FreePseudowin(r, w).kid = r.kid
      BY <1>6, <3>3, <3>4, <3>5, FreePseudowinSound
    <3>7. Collect(t, p) = FreePseudowin(r, w)
      BY <1>2, <1>5, <1>9, <2>3
    <3>8. QED
      BY <1>7, <3>6, <3>7
  <2>4. QED
    BY <2>2, <2>3
<1>10. QED
  BY <1>8, <1>9

\* An order in which all children of a finite set are collected leaves none out.
LEMMA OrderCovers ==
  ASSUME NEW S, IsFiniteSet(S), NEW order \in Orders(S)
  PROVE  /\ Cardinality(S) \in Nat /\ order \in [1 .. Cardinality(S) -> S]
         /\ \A p \in S : \E i \in 1 .. Cardinality(S) : order[i] = p
<1> DEFINE n == Cardinality(S)
<1>1. n \in Nat
  BY FS_CardinalityType
<1>2. order \in [1 .. n -> S] /\ IsInjective(order)
  BY DEF Orders
<1>3. IsFiniteSet(1 .. n) /\ Cardinality(1 .. n) = n
  BY <1>1, FS_Interval
<1> DEFINE T == {order[i] : i \in 1 .. n}
<1>4. order \in Injection(1 .. n, T) /\ order \in Surjection(1 .. n, T)
  BY <1>2 DEF Injection, Surjection, IsInjective
<1>5. order \in Bijection(1 .. n, T)
  BY <1>4 DEF Bijection
<1>6. IsFiniteSet(T) /\ Cardinality(T) = n
  BY <1>3, <1>5, FS_Bijection DEF ExistsBijection
<1>7. T \subseteq S
  BY <1>2
<1>8. T = S
  BY <1>6, <1>7, FS_Subset
<1>9. QED
  BY <1>1, <1>2, <1>8

\* The whole loop of DoWait: nobody is left.
LEMMA DoWaitSound ==
  ASSUME NEW t, Sound(t), NEW order \in Orders(Waiting(t))
  PROVE  Sound(DoWait(t, order)) /\ Waiting(DoWait(t, order)) = {}
<1> DEFINE n == Cardinality(Waiting(t))
<1>1. Waiting(t) \subseteq Pids /\ IsFiniteSet(Waiting(t))
  <2>1. Waiting(t) \subseteq Pids
    BY DEF Waiting
  <2>2. QED
    BY <2>1, ChildrenAssumption, FS_Subset
<1>2. /\ n \in Nat /\ order \in [1 .. n -> Waiting(t)]
      /\ \A p \in Waiting(t) : \E i \in 1 .. n : order[i] = p
  BY <1>1, OrderCovers
<1>3. order \in Seq(Pids) /\ Len(order) = n
  <2>1. order \in [1 .. n -> Pids]
    BY <1>1, <1>2
  <2> HIDE DEF n
  <2>2. QED
    BY <1>2, <2>1, IsASeq, LenProperties
<1>4. t \in SoundServers
  BY DEF SoundServers, Sound, Typed
<1>5. \A u \in SoundServers, p \in Pids : Collect(u, p) \in SoundServers /\ Waiting(Collect(u, p)) \subseteq Waiting(u) \ {p}
  BY CollectSound DEF SoundServers, Sound, Typed
<1>6. F!Folded({}, t, order) = DoWait(t, order)
  BY DEF F!Folded, CollectIn, F!FoldLeft, DoWait, FoldLeft, F!MapThenFoldSet, MapThenFoldSet, F!Max, Max
<1> HIDE DEF n
<1>7. PICK trail :
        /\ trail[0] = t
        /\ \A k \in 1 .. n : trail[k] = Collect(trail[k - 1], order[k])
        /\ trail[n] = DoWait(t, order)
  <2>1. Len(order) \in Nat /\ DOMAIN order = 1 .. Len(order)
    BY <1>2, <1>3
  <2>2. \E trail :
          /\ trail[0] = t
          /\ \A k \in 1 .. Len(order) : trail[k] = Collect(trail[k - 1], order[k])
          /\ trail[Len(order)] = F!Folded({}, t, order)
    BY <2>1, F!FoldLeftSteps DEF CollectIn
  <2>3. QED
    BY <1>3, <1>6, <2>2
<1> DEFINE T == {k \in 0 .. n : /\ trail[k] \in SoundServers
                              /\ Waiting(trail[k]) \subseteq Waiting(t)
                              /\ \A i \in 1 .. k : order[i] \notin Waiting(trail[k])}
<1>8. 0 \in T
  BY <1>2, <1>4, <1>7
<1>9. ASSUME NEW k \in 0 .. n - 1, k \in T PROVE k + 1 \in T
  <2>1. k + 1 \in 1 .. n /\ (k + 1) - 1 = k /\ k + 1 \in 0 .. n /\ k \in 0 .. n
    BY <1>2
  <2>2. trail[k + 1] = Collect(trail[k], order[k + 1])
    BY <1>7, <2>1
  <2>3. trail[k] \in SoundServers /\ order[k + 1] \in Pids
    BY <1>1, <1>2, <1>9, <2>1
  <2>4. trail[k + 1] \in SoundServers /\ Waiting(trail[k + 1]) \subseteq Waiting(trail[k]) \ {order[k + 1]}
    BY <1>5, <2>2, <2>3
  <2>5. \A i \in 1 .. k + 1 : order[i] \notin Waiting(trail[k + 1])
    <3>1. \A i \in 1 .. k + 1 : i \in 1 .. k \/ i = k + 1
      BY <1>2
    <3>2. QED
      BY <1>9, <2>4, <3>1
  <2>6. QED
    BY <1>9, <2>1, <2>4, <2>5
<1>10. n \in T
  <2> HIDE DEF T
  <2>1. QED
    BY <1>2, <1>8, <1>9, UpTo
<1>11. Waiting(trail[n]) = {}
  BY <1>2, <1>10
<1>12. trail[n] \in SoundServers
  BY <1>10
<1>13. QED
  BY <1>7, <1>11, <1>12 DEF SoundServers

-----------------------------------------------------------------------------
(* What the server does otherwise makes nobody wait.                        *)

Keeps(t, u) == Sound(u) /\ Waiting(u) \subseteq Waiting(t)

\* It is enough that the children stay as they are.
LEMMA KeepsKids ==
  ASSUME NEW t, NEW u, Sound(u), u.kid = t.kid \/ u = Ended
  PROVE  Keeps(t, u)
BY EndedSound DEF Keeps, Waiting

\* A change of one sound window.
LEMMA WithKeeps ==
  ASSUME NEW t, Sound(t), NEW w \in Alive(t),
         NEW r \in WindowRecords, NEW f \in FilterRecords \union {None},
         JobSound(r, t.kid, w), FilterSound(f, t.kid, w), EventSound(r, f)
  PROVE  Keeps(t, With(t, w, r, f))
<1>1. Typed(t) /\ SoundBut(t, w)
  BY DEF Sound, SoundBut
<1>2. QED
  BY <1>1, WithSound, KeepsKids

\* What Sound says of one window.
LEMMA AtWindow ==
  ASSUME NEW t, Sound(t), NEW w \in Alive(t)
  PROVE  /\ Typed(t) /\ SoundBut(t, w) /\ w \in Windows
         /\ t.win[w] \in WindowRecords /\ t.filter[w] \in FilterRecords \union {None}
         /\ JobSound(t.win[w], t.kid, w) /\ FilterSound(t.filter[w], t.kid, w)
         /\ EventSound(t.win[w], t.filter[w])
BY Fields DEF Sound, SoundBut, SoundAt

\* The window's pty is read.
LEMMA ReadSound ==
  ASSUME NEW t, Sound(t), NEW w \in Alive(t)
  PROVE  Keeps(t, win_readev_fn(t, w))
<1> DEFINE f == t.filter[w]
           waits == [t.win[w] EXCEPT !.awaits = TRUE]
           goes == [t.win[w] EXCEPT !.awaits = FALSE]
           u == win_readev_fn(t, w)
           more == [f EXCEPT !.inlen = f.inlen + 1]
<1>1. /\ Typed(t) /\ SoundBut(t, w) /\ w \in Windows
      /\ t.win[w] \in WindowRecords /\ f \in FilterRecords \union {None}
      /\ JobSound(t.win[w], t.kid, w) /\ FilterSound(f, t.kid, w) /\ EventSound(t.win[w], f)
  BY AtWindow
<1>2. /\ waits \in WindowRecords /\ JobSound(waits, t.kid, w)
      /\ goes \in WindowRecords /\ JobSound(goes, t.kid, w) /\ EventSound(goes, f)
      /\ W_WTOP(f) => EventSound(waits, f)
  BY <1>1 DEF WindowRecords, JobSound, EventSound
<1>3. /\ [t EXCEPT !.win[w].awaits = TRUE] = With(t, w, waits, f)
      /\ [t EXCEPT !.win[w].awaits = FALSE] = With(t, w, goes, f)
  BY <1>1 DEF With, Typed, Servers
<1> DEFINE quiet == [t EXCEPT !.win[w].awaits = FALSE]
<1>4. Keeps(t, quiet)
  <2> HIDE DEF waits, goes, f
  <2>1. Keeps(t, With(t, w, goes, f))
    BY <1>1, <1>2, WithKeeps
  <2>2. QED
    BY <1>3, <2>1
<1>5. CASE W_WTOP(f) /\ f.inlen = Size
  <2>1. u = [t EXCEPT !.win[w].awaits = TRUE]
    BY <1>5, ChildrenAssumption DEF win_readev_fn
  <2> HIDE DEF waits, goes, f
  <2>2. Keeps(t, With(t, w, waits, f))
    BY <1>1, <1>2, <1>5, WithKeeps
  <2>3. QED
    BY <1>3, <2>1, <2>2
<1>6. CASE W_WTOP(f) /\ f.inlen < Size /\ t.win[w].tty = "open"
  <2>1. f \in FilterRecords /\ f # None
    BY <1>1, <1>6 DEF W_WTOP
  <2>2. f.inlen \in 0 .. Size /\ Size \in Nat
    BY <2>1, ChildrenAssumption DEF FilterRecords
  <2>3. more \in FilterRecords
    BY <1>6, <2>1, <2>2 DEF FilterRecords
  <2>4. more.pid = f.pid /\ more.pat = f.pat
    BY <2>1 DEF FilterRecords
  <2>5. FilterSound(more, t.kid, w)
    BY <1>1, <2>1, <2>4 DEF FilterSound
  <2>6. EventSound(goes, f)
    BY <1>2
  <2> HIDE DEF waits, goes
  <2>7. EventSound(goes, more)
    BY <2>1, <2>3, <2>4, <2>6, NoneAssumption DEF EventSound, W_WTOP
  <2>8. u = [t EXCEPT !.win[w].awaits = FALSE, !.filter[w].inlen = @ + 1]
    BY <1>6, <2>2 DEF win_readev_fn
  <2>9. [t EXCEPT !.win[w].awaits = FALSE, !.filter[w].inlen = @ + 1] = With(t, w, goes, more)
    BY <1>1 DEF With, Typed, Servers, goes
  <2> HIDE DEF more, f
  <2>10. Keeps(t, With(t, w, goes, more))
    BY <1>1, <1>2, <2>3, <2>5, <2>7, WithKeeps
  <2>11. QED
    BY <2>8, <2>9, <2>10
<1>7. CASE /\ t.win[w].tty = "hup" /\ ~(W_WTOP(f) /\ f.inlen = Size)
  <2>1. u = WindowDied(quiet, w, "unknown")
    BY <1>7 DEF win_readev_fn
  <2>2. PICK q : q = quiet
    OBVIOUS
  <2>3. q = With(t, w, goes, f) /\ goes.awaits = FALSE
    BY <1>1, <1>3, <2>2 DEF WindowRecords
  <2> HIDE DEF waits, goes, f, quiet
  <2>4. Typed(q) /\ q.windows = t.windows /\ q.kid = t.kid /\ q.win[w] = goes /\ Sound(q)
    <3>1. Sound(q)
      BY <1>4, <2>2 DEF Keeps
    <3>2. QED
      BY <1>1, <1>2, <2>3, <3>1, WithIs
  <2>5. w \in Alive(q)
    BY <2>4 DEF Alive
  <2>6. SoundBut(q, w) /\ JobSound(q.win[w], q.kid, w) /\ FilterSound(q.filter[w], q.kid, w)
    BY <2>4, <2>5, AtWindow
  <2>7. /\ Sound(WindowDied(q, w, "unknown"))
        /\ WindowDied(q, w, "unknown").kid = q.kid \/ WindowDied(q, w, "unknown") = Ended
    BY <2>3, <2>4, <2>5, <2>6, WindowDiedSound DEF JobSound
  <2>8. QED
    BY <2>1, <2>2, <2>4, <2>7, KeepsKids
<1>8. CASE /\ ~(W_WTOP(f) /\ f.inlen = Size)
           /\ ~(W_WTOP(f) /\ f.inlen < Size /\ t.win[w].tty = "open")
           /\ ~(t.win[w].tty = "hup" /\ ~(W_WTOP(f) /\ f.inlen = Size))
  <2>1. u = quiet
    BY <1>8 DEF win_readev_fn
  <2>2. QED
    BY <1>4, <2>1
<1>9. QED
  BY <1>5, <1>6, <1>7, <1>8

\* The filter's pty is read.
LEMMA FilterReadSound ==
  ASSUME NEW t, Sound(t), NEW w \in Alive(t), t.filter[w] # None
  PROVE  Keeps(t, pseu_readev_fn(t, w))
<1> DEFINE f == t.filter[w]
           v == t.win[w]
           u == pseu_readev_fn(t, w)
           waits == [f EXCEPT !.awaits = TRUE]
           goes == [f EXCEPT !.awaits = FALSE]
           more == [v EXCEPT !.inlen = v.inlen + 1]
<1>1. /\ Typed(t) /\ SoundBut(t, w) /\ w \in Windows
      /\ v \in WindowRecords /\ f \in FilterRecords /\ f # None
      /\ JobSound(v, t.kid, w) /\ FilterSound(f, t.kid, w) /\ EventSound(v, f)
  BY AtWindow
<1>2. /\ waits \in FilterRecords /\ waits.pid = f.pid /\ waits.pat = f.pat
      /\ goes \in FilterRecords /\ goes.pid = f.pid /\ goes.pat = f.pat
  BY <1>1 DEF FilterRecords
<1>3. /\ [t EXCEPT !.filter[w].awaits = TRUE] = With(t, w, v, waits)
      /\ [t EXCEPT !.filter[w].awaits = FALSE] = With(t, w, v, goes)
  BY <1>1 DEF With, Typed, Servers
<1>4. v.inlen \in 0 .. Size /\ Size \in Nat
  BY <1>1, ChildrenAssumption DEF WindowRecords
<1>5. v.inlen < Size => more \in WindowRecords
  BY <1>1, <1>4 DEF WindowRecords
<1>6. /\ more.pid = v.pid /\ more.deadpid = v.deadpid /\ more.open = v.open /\ more.writeq = v.writeq
      /\ more.readq = v.readq /\ more.awaits = v.awaits
  BY <1>1 DEF WindowRecords
<1>7. [t EXCEPT !.filter[w].awaits = FALSE, !.win[w].inlen = @ + 1] = With(t, w, more, goes)
  BY <1>1 DEF With, Typed, Servers
<1>8. Keeps(t, FreePseudowin(t, w))
  BY <1>1, FreePseudowinSound, KeepsKids DEF EventSound
<1>9. \/ u = [t EXCEPT !.filter[w].awaits = TRUE]
      \/ u = [t EXCEPT !.filter[w].awaits = FALSE]
      \/ v.inlen < Size /\ u = [t EXCEPT !.filter[w].awaits = FALSE, !.win[w].inlen = @ + 1]
      \/ u = FreePseudowin(t, w)
  BY DEF pseu_readev_fn
<1> HIDE DEF u, waits, goes, more, v
<1>10. \A g \in {waits, goes} :
         /\ g \in FilterRecords \union {None} /\ FilterSound(g, t.kid, w)
         /\ EventSound(v, g) /\ EventSound(more, g)
  BY <1>1, <1>2, <1>6, NoneAssumption DEF FilterSound, EventSound, W_WTOP
<1>11. JobSound(more, t.kid, w)
  BY <1>1, <1>6 DEF JobSound
<1>12. Keeps(t, With(t, w, v, waits)) /\ Keeps(t, With(t, w, v, goes))
  BY <1>1, <1>10, WithKeeps
<1>13. v.inlen < Size => Keeps(t, With(t, w, more, goes))
  BY <1>5, <1>10, <1>11, WithKeeps
<1>14. \/ u = With(t, w, v, waits) \/ u = With(t, w, v, goes)
       \/ v.inlen < Size /\ u = With(t, w, more, goes)
       \/ u = FreePseudowin(t, w)
  BY <1>3, <1>7, <1>9
<1>15. Keeps(t, u)
  BY <1>8, <1>12, <1>13, <1>14
<1>16. QED
  BY <1>15 DEF u

\* Somebody writes to a pty, or has less of the window's input to write.
LEMMA InlenSound ==
  ASSUME NEW t, Sound(t), NEW w \in Alive(t), NEW n \in 0 .. Size
  PROVE  /\ Keeps(t, [t EXCEPT !.win[w].inlen = n])
         /\ t.filter[w] # None => Keeps(t, [t EXCEPT !.filter[w].inlen = n])
<1> DEFINE f == t.filter[w]
           v == t.win[w]
           vn == [v EXCEPT !.inlen = n]
           fn == [f EXCEPT !.inlen = n]
<1>1. /\ Typed(t) /\ SoundBut(t, w) /\ w \in Windows
      /\ v \in WindowRecords /\ f \in FilterRecords \union {None}
      /\ JobSound(v, t.kid, w) /\ FilterSound(f, t.kid, w) /\ EventSound(v, f)
  BY AtWindow
<1>2. [t EXCEPT !.win[w].inlen = n] = With(t, w, vn, f)
  BY <1>1 DEF With, Typed, Servers
<1>3. [t EXCEPT !.filter[w].inlen = n] = With(t, w, v, fn)
  BY <1>1 DEF With, Typed, Servers
<1>4. /\ vn \in WindowRecords /\ JobSound(vn, t.kid, w) /\ EventSound(vn, f)
  BY <1>1 DEF WindowRecords, JobSound, EventSound
<1>5. f # None => fn \in FilterRecords /\ fn.pid = f.pid /\ fn.pat = f.pat
  BY <1>1 DEF FilterRecords
<1> HIDE DEF v, vn, fn
<1>6. f # None => FilterSound(fn, t.kid, w) /\ EventSound(v, fn)
  BY <1>1, <1>5, NoneAssumption DEF FilterSound, EventSound, W_WTOP
<1>7. Keeps(t, With(t, w, vn, f))
  BY <1>1, <1>4, WithKeeps
<1>8. f # None => Keeps(t, With(t, w, v, fn))
  BY <1>1, <1>5, <1>6, WithKeeps
<1>9. QED
  BY <1>2, <1>3, <1>7, <1>8

\* Every event handler of a window and its filter.
LEMMA HandledSound ==
  ASSUME NEW t, Sound(t), NEW e \in Events, Listens(t, e[1], e[2]), NEW u \in Handled(t, e[1], e[2])
  PROVE  Keeps(t, u)
<1> DEFINE w == e[1]
           what == e[2]
<1>1. w \in Windows /\ what \in {"read", "write", "pread", "pwrite"}
  BY DEF Events
<1>2. w \in Alive(t)
  <2>1. SoundAt(t, w)
    BY <1>1 DEF Sound
  <2>2. SUFFICES ASSUME t.win[w] = NoWindow, t.filter[w] = None PROVE FALSE
    BY <2>1 DEF SoundAt
  <2>3. ~NoWindow.readq /\ ~NoWindow.writeq
    BY DEF NoWindow
  <2>4. QED
    BY <1>1, <2>2, <2>3 DEF Listens
<1>3. Size \in Nat
  BY ChildrenAssumption
<1>4. CASE what = "read"
  BY <1>2, <1>4, ReadSound DEF Handled
<1>5. CASE what = "write"
  <2>1. PICK n \in 0 .. t.win[w].inlen - 1 : u = [t EXCEPT !.win[w].inlen = n]
    BY <1>5 DEF Handled, win_writeev_fn
  <2>2. t.win[w].inlen \in 0 .. Size
    BY <1>2, AtWindow DEF WindowRecords
  <2>3. n \in 0 .. Size
    BY <1>3, <2>2
  <2>4. QED
    BY <1>2, <2>1, <2>3, InlenSound
<1>6. CASE what = "pread"
  <2>1. t.filter[w] # None
    BY <1>6 DEF Listens
  <2>2. QED
    BY <1>2, <1>6, <2>1, FilterReadSound DEF Handled
<1>7. CASE what = "pwrite"
  <2>1. t.filter[w] # None
    BY <1>7 DEF Listens
  <2>2. PICK n \in 0 .. t.filter[w].inlen - 1 : u = [t EXCEPT !.filter[w].inlen = n]
    BY <1>7 DEF Handled, pseu_writeev_fn
  <2>3. t.filter[w].inlen \in 0 .. Size
    BY <1>2, <2>1, AtWindow DEF FilterRecords
  <2>4. n \in 0 .. Size
    BY <1>3, <2>3
  <2>5. QED
    BY <1>2, <2>1, <2>2, <2>4, InlenSound
<1>8. QED
  BY <1>1, <1>4, <1>5, <1>6, <1>7

-----------------------------------------------------------------------------
(* Processes and devices come.                                              *)

\* A free entry of the kernel's table is held by no window.
LEMMA FreeUnheld ==
  ASSUME NEW t, Sound(t), NEW p \in Pids, t.kid[p].state = "free", NEW w \in Windows
  PROVE  ~Holds(t, w, p)
BY HeldBy DEF Sound

\* A process is forked: all windows stay sound, and nobody waits.
LEMMA ForkSound ==
  ASSUME NEW t, Sound(t), NEW w \in Alive(t), NEW p \in Pids, t.kid[p].state = "free",
         NEW b \in BOOLEAN
  PROVE  LET u == Fork(t, w, p, b) IN
         /\ Keeps(t, u) /\ u.windows = t.windows /\ u.win = t.win /\ u.filter = t.filter
         /\ u.kid[p].state = "running" /\ u.kid[p].of = w /\ u.kid[p].filter = b
         /\ \A q \in Pids \ {p} : u.kid[q] = t.kid[q]
<1> DEFINE k == [NoChild EXCEPT !.state = "running", !.of = w, !.filter = b]
<1>1. Typed(t) /\ w \in Windows
  BY AtWindow
<1>2. k \in ChildRecords /\ k.state = "running" /\ k.of = w /\ k.filter = b
  BY <1>1 DEF ChildRecords, NoChild
<1>3. Fork(t, w, p, b) = WithKid(t, p, k)
  BY DEF Fork, WithKid
<1> HIDE DEF k
<1>4. PICK u : u = WithKid(t, p, k)
  OBVIOUS
<1>5. /\ Typed(u) /\ u.windows = t.windows /\ u.win = t.win /\ u.filter = t.filter
      /\ u.kid[p] = k /\ \A q \in Pids \ {p} : u.kid[q] = t.kid[q]
  BY <1>1, <1>2, <1>4, WithKidIs
<1>6. ASSUME NEW v \in Windows PROVE SoundAt(u, v)
  <2>1. SoundAt(t, v) /\ ~Holds(t, v, p)
    BY FreeUnheld DEF Sound
  <2>2. QED
    BY <1>1, <1>2, <1>4, <2>1, WithKidSound
<1>7. Waiting(u) \subseteq Waiting(t)
  BY <1>2, <1>5, WaitsNoMore
<1>8. Keeps(t, u)
  BY <1>5, <1>6, <1>7 DEF Keeps, Sound
<1>9. QED
  BY <1>2, <1>3, <1>4, <1>5, <1>8

WithJob(t, w, j) == [t EXCEPT !.job[w] = j]

\* The history of jobs is not looked at.
LEMMA WithJobSound ==
  ASSUME NEW t, Sound(t), NEW w \in Windows, NEW j \in Pids \union {None}
  PROVE  LET u == WithJob(t, w, j) IN
         /\ Keeps(t, u) /\ u.windows = t.windows /\ u.win = t.win
         /\ u.filter = t.filter /\ u.kid = t.kid
<1>1. PICK u : u = WithJob(t, w, j)
  OBVIOUS
<1>2. /\ Typed(u) /\ u.windows = t.windows /\ u.win = t.win
      /\ u.filter = t.filter /\ u.kid = t.kid
  BY <1>1 DEF WithJob, Sound, Typed, Servers
<1>3. ASSUME NEW v \in Windows PROVE SoundAt(u, v)
  BY <1>2 DEF Sound, SoundAt, Alive
<1>4. QED
  BY <1>1, <1>2, <1>3, KeepsKids DEF Sound

\* Two steps that keep.
LEMMA KeepsTwice ==
  ASSUME NEW t, NEW u, NEW v, Keeps(t, u), Keeps(u, v)
  PROVE  Keeps(t, v)
BY DEF Keeps

\* A device is opened for a window, and its process forked or not.
LEMMA OpenForkSound ==
  ASSUME NEW t, Sound(t), NEW w \in Alive(t), NEW try,
         try = Failed \/ (try \in Pids /\ t.kid[try].state = "free")
  PROVE  LET u == ForkWindow(OpenDevice(t, w), w, try) IN
         /\ Keeps(t, u) /\ u.windows = t.windows /\ u.filter = t.filter
         /\ u.win[w].open /\ u.win[w].readq
         /\ \A q \in Pids : q # try => u.kid[q] = t.kid[q]
<1> DEFINE r == [t.win[w] EXCEPT !.open = TRUE, !.readq = TRUE, !.writeq = TRUE,
                                 !.tty = "new", !.deadpid = None]
           d == OpenDevice(t, w)
           rp == [r EXCEPT !.pid = try]
           f == t.filter[w]
<1>1. /\ Typed(t) /\ SoundBut(t, w) /\ w \in Windows
      /\ t.win[w] \in WindowRecords /\ f \in FilterRecords \union {None}
      /\ JobSound(t.win[w], t.kid, w) /\ FilterSound(f, t.kid, w) /\ EventSound(t.win[w], f)
  BY AtWindow
<1>2. d = With(t, w, r, f)
  BY <1>1 DEF OpenDevice, With, Typed, Servers
<1>3. /\ r \in WindowRecords /\ r.open /\ r.readq /\ r.writeq /\ r.pid = t.win[w].pid
      /\ r.deadpid = None /\ r.awaits = t.win[w].awaits
  BY <1>1 DEF WindowRecords, Ends
<1>4. rp \in WindowRecords
  BY <1>1 DEF WindowRecords, Ends
<1>5. /\ rp.open /\ rp.readq /\ rp.writeq /\ rp.pid = try
      /\ rp.deadpid = None /\ rp.awaits = t.win[w].awaits
  BY <1>1 DEF WindowRecords
<1>6. JobSound(r, t.kid, w) /\ EventSound(r, f) /\ EventSound(rp, f)
  <2> HIDE DEF r, rp
  <2>1. QED
    BY <1>1, <1>3, <1>5, ChildrenAssumption DEF JobSound, PidSound, EventSound
<1>7. ForkWindow(d, w, try) = IF try = Failed THEN WithJob([d EXCEPT !.win[w].pid = Failed], w, None)
                              ELSE WithJob([Fork(d, w, try, FALSE) EXCEPT !.win[w].pid = try], w, try)
  BY DEF ForkWindow, WithJob
<1>8. ASSUME NEW e, Typed(e), e.win[w] = r, e.filter[w] = f
      PROVE  [e EXCEPT !.win[w].pid = try] = With(e, w, rp, f)
  <2>1. rp = [e.win[w] EXCEPT !.pid = try]
    BY <1>8
  <2> HIDE DEF r, rp, f
  <2>2. QED
    BY <1>1, <1>8, <2>1 DEF With, Typed, Servers
<1> HIDE DEF r, rp
<1>9. /\ Typed(d) /\ d.windows = t.windows /\ d.kid = t.kid /\ d.win[w] = r /\ d.filter[w] = f
      /\ Keeps(t, d)
  BY <1>1, <1>2, <1>3, <1>6, WithIs, WithKeeps
<1>10. d.filter = t.filter
  BY DEF OpenDevice, Sound, Typed, Servers
<1> HIDE DEF d, f
<1>11. Sound(d) /\ w \in Alive(d)
  BY <1>9 DEF Keeps, Alive
<1>12. CASE try = Failed
  <2> DEFINE e == With(d, w, rp, f)
  <2>1. JobSound(rp, d.kid, w) /\ FilterSound(f, d.kid, w)
    BY <1>1, <1>5, <1>9, <1>12, ChildrenAssumption DEF JobSound, PidSound
  <2>2. Keeps(d, e) /\ e.windows = t.windows /\ e.kid = t.kid /\ e.win[w] = rp /\ Typed(e)
    BY <1>1, <1>4, <1>6, <1>9, <1>11, <2>1, WithIs, WithKeeps
  <2>3. e.filter = t.filter
    BY <1>1, <1>9, <1>10 DEF With, Typed, Servers
  <2>4. ForkWindow(d, w, try) = WithJob(e, w, None)
    BY <1>7, <1>8, <1>9, <1>12
  <2> HIDE DEF e
  <2>5. /\ Keeps(e, WithJob(e, w, None)) /\ WithJob(e, w, None).windows = e.windows
        /\ WithJob(e, w, None).win = e.win /\ WithJob(e, w, None).filter = e.filter
        /\ WithJob(e, w, None).kid = e.kid
    BY <1>1, <2>2, WithJobSound DEF Keeps
  <2>6. Keeps(t, WithJob(e, w, None))
    BY <1>9, <2>2, <2>5 DEF Keeps
  <2>7. QED
    BY <1>5, <2>2, <2>3, <2>4, <2>5, <2>6 DEF d
<1>13. CASE try # Failed
  <2>1. try \in Pids /\ d.kid[try].state = "free"
    BY <1>9, <1>13
  <2>2. PICK no \in BOOLEAN : no = FALSE
    OBVIOUS
  <2>forked. PICK g : g = Fork(d, w, try, no)
    OBVIOUS
  <2>3. /\ Keeps(d, g) /\ g.windows = d.windows /\ g.win = d.win /\ g.filter = d.filter
        /\ g.kid[try].state = "running" /\ g.kid[try].of = w /\ g.kid[try].filter = FALSE
        /\ \A q \in Pids \ {try} : g.kid[q] = d.kid[q]
    BY <1>11, <2>1, <2>2, <2>forked, ForkSound
  <2>4. Sound(g) /\ w \in Alive(g)
    BY <1>11, <2>3 DEF Keeps, Alive
  <2>5. Typed(g) /\ FilterSound(f, g.kid, w)
    BY <1>9, <2>3, <2>4, AtWindow
  <2>6. JobSound(rp, g.kid, w)
    BY <1>5, <2>3, ChildrenAssumption DEF JobSound, PidSound
  <2> DEFINE e == With(g, w, rp, f)
  <2>7. Keeps(g, e) /\ e.windows = t.windows /\ e.kid = g.kid /\ e.win[w] = rp /\ Typed(e)
    BY <1>1, <1>4, <1>6, <1>9, <2>3, <2>4, <2>5, <2>6, WithIs, WithKeeps
  <2>8. e.filter = t.filter
    BY <1>1, <1>9, <1>10, <2>3, <2>5 DEF With, Typed, Servers
  <2>9. ForkWindow(d, w, try) = WithJob(e, w, try)
    BY <1>7, <1>8, <1>9, <1>13, <2>2, <2>forked, <2>3, <2>5
  <2> HIDE DEF e
  <2>10. /\ Keeps(e, WithJob(e, w, try)) /\ WithJob(e, w, try).windows = e.windows
         /\ WithJob(e, w, try).win = e.win /\ WithJob(e, w, try).filter = e.filter
         /\ WithJob(e, w, try).kid = e.kid
    BY <1>1, <2>1, <2>7, WithJobSound DEF Keeps
  <2>11. Keeps(t, WithJob(e, w, try))
    BY <1>9, <2>3, <2>7, <2>10 DEF Keeps
  <2>12. QED
    BY <1>5, <1>9, <2>3, <2>7, <2>8, <2>9, <2>10, <2>11 DEF d
<1>14. QED
  BY <1>12, <1>13

\* A new window comes first in the list.
LEMMA Pushed ==
  ASSUME NEW t, Sound(t), NEW w \in Windows \ Alive(t)
  PROVE  LET u == [t EXCEPT !.windows = <<w>> \o @] IN
         /\ Keeps(t, u) /\ Alive(u) = Alive(t) \union {w}
         /\ u.win = t.win /\ u.filter = t.filter /\ u.kid = t.kid
<1> DEFINE list == t.windows
           longer == <<w>> \o list
           n == Len(list)
<1>1. /\ Typed(t) /\ list \in Seq(Windows) /\ IsInjective(list) /\ DOMAIN list = 1 .. n /\ n \in Nat
      /\ \A i \in 1 .. n : list[i] # w
  BY LenProperties DEF Sound, Typed, Servers, Alive, ToSet
<1>2. <<w>> \in Seq(Windows) /\ Len(<<w>>) = 1 /\ <<w>>[1] = w
  OBVIOUS
<1>3. /\ longer \in Seq(Windows) /\ Len(longer) = n + 1
      /\ \A i \in 1 .. n + 1 : longer[i] = IF i = 1 THEN w ELSE list[i - 1]
  BY <1>1, <1>2, ConcatProperties
<1>4. DOMAIN longer = 1 .. n + 1
  BY <1>3, LenProperties
<1> HIDE DEF longer, list, n
<1>shift. \A i \in 1 .. n + 1 : (i = 1 /\ longer[i] = w) \/ (i - 1 \in 1 .. n /\ longer[i] = list[i - 1])
  BY <1>1, <1>3
<1>5. IsInjective(longer)
  <2>1. ASSUME NEW i \in 1 .. n + 1, NEW j \in 1 .. n + 1, longer[i] = longer[j] PROVE i = j
    <3>1. \/ i = 1 /\ j = 1
          \/ i - 1 \in 1 .. n /\ j - 1 \in 1 .. n /\ list[i - 1] = list[j - 1]
      BY <1>1, <1>shift, <2>1
    <3>2. CASE i - 1 \in 1 .. n /\ j - 1 \in 1 .. n /\ list[i - 1] = list[j - 1]
      <4>1. i - 1 = j - 1
        BY <1>1, <3>2 DEF IsInjective
      <4>2. QED
        BY <1>1, <4>1
    <3>3. QED
      BY <3>1, <3>2
  <2>2. QED
    BY <1>4, <2>1 DEF IsInjective
<1>6. ToSet(longer) = ToSet(list) \union {w}
  <2>1. ASSUME NEW i \in 1 .. n PROVE list[i] \in ToSet(longer)
    <3>1. i + 1 \in 1 .. n + 1 /\ longer[i + 1] = list[i]
      BY <1>1, <1>3
    <3>2. QED
      BY <1>4, <3>1 DEF ToSet
  <2>2. w \in ToSet(longer)
    BY <1>1, <1>3, <1>4 DEF ToSet
  <2>3. ASSUME NEW i \in 1 .. n + 1 PROVE longer[i] \in ToSet(list) \union {w}
    BY <1>1, <1>shift DEF ToSet
  <2>4. QED
    BY <1>1, <1>4, <2>1, <2>2, <2>3 DEF ToSet
<1>7. PICK u : u = [t EXCEPT !.windows = longer]
  OBVIOUS
<1>8. /\ Typed(u) /\ u.windows = longer /\ u.win = t.win /\ u.filter = t.filter /\ u.kid = t.kid
  BY <1>1, <1>3, <1>5, <1>7 DEF Typed, Servers
<1>9. Alive(u) = Alive(t) \union {w}
  BY <1>6, <1>8 DEF Alive, list
<1>10. ASSUME NEW v \in Windows PROVE SoundAt(u, v)
  BY <1>8, <1>9 DEF Sound, SoundAt
<1>11. Keeps(t, u)
  BY <1>8, <1>10, KeepsKids DEF Sound
<1>12. QED
  BY <1>7, <1>8, <1>9, <1>11 DEF longer, list

\* A window is made, or not.
LEMMA MakeWindowSound ==
  ASSUME NEW t, Sound(t), NEW w \in Windows \ Alive(t), NEW try \in Tries(t)
  PROVE  LET u == MakeWindow(t, w, try) IN
         /\ Keeps(t, u)
         /\ try \notin {"nodevice", Failed} =>
              /\ Alive(u) = Alive(t) \union {w} /\ u.filter = t.filter /\ u.win[w].open
              /\ \A q \in Pids : q # try => u.kid[q] = t.kid[q]
<1>1. CASE try \in {"nodevice", Failed}
  BY <1>1, KeepsKids DEF MakeWindow
<1>2. CASE try \notin {"nodevice", Failed}
  <2>1. try \in Pids /\ t.kid[try].state = "free"
    BY <1>2 DEF Tries
  <2>2. PICK k : k = [t EXCEPT !.windows = <<w>> \o @]
    OBVIOUS
  <2>3. /\ Keeps(t, k) /\ Alive(k) = Alive(t) \union {w}
        /\ k.win = t.win /\ k.filter = t.filter /\ k.kid = t.kid
    BY <2>2, Pushed
  <2>4. PICK u : u = ForkWindow(OpenDevice(k, w), w, try)
    OBVIOUS
  <2>5. /\ Keeps(k, u) /\ u.windows = k.windows /\ u.filter = k.filter /\ u.win[w].open
        /\ \A q \in Pids : q # try => u.kid[q] = k.kid[q]
    BY <2>1, <2>3, <2>4, OpenForkSound DEF Keeps
  <2>6. MakeWindow(t, w, try) = u
    BY <1>2, <2>2, <2>4 DEF MakeWindow
  <2>7. Keeps(t, u)
    BY <2>3, <2>5, KeepsTwice
  <2>8. QED
    BY <2>3, <2>5, <2>6, <2>7 DEF Alive
<1>3. QED
  BY <1>1, <1>2

\* A zombie is resurrected, or not.
LEMMA RemakeWindowSound ==
  ASSUME NEW t, Sound(t), NEW w \in Alive(t), NEW try \in Tries(t)
  PROVE  Keeps(t, RemakeWindow(t, w, try))
<1>1. CASE try = "nodevice"
  BY <1>1, KeepsKids DEF RemakeWindow
<1>2. CASE try # "nodevice"
  <2>1. try = Failed \/ (try \in Pids /\ t.kid[try].state = "free")
    BY <1>2 DEF Tries
  <2>2. Keeps(t, ForkWindow(OpenDevice(t, w), w, try))
    BY <2>1, OpenForkSound
  <2>3. QED
    BY <1>2, <2>2 DEF RemakeWindow
<1>3. QED
  BY <1>1, <1>2

\* exec puts a filter before the window, or not.
LEMMA WinexecSound ==
  ASSUME NEW t, Sound(t), NEW w \in Alive(t), t.filter[w] = None, t.win[w].open,
         NEW pat \in PatternSet, NEW try \in Tries(t)
  PROVE  Keeps(t, winexec(t, w, pat, try))
<1> DEFINE front == F_PFRONT(pat.fd[1])
           r == [t.win[w] EXCEPT !.readq = FALSE]
           quiet == IF front THEN t ELSE [t EXCEPT !.win[w].readq = FALSE]
           frec == [ pid |-> try, pat |-> pat, readq |-> F_PFRONT(pat.fd[2]) \/ F_PFRONT(pat.fd[3]),
                     awaits |-> FALSE, inlen |-> 0, tty |-> "new" ]
<1>1. /\ Typed(t) /\ SoundBut(t, w) /\ w \in Windows
      /\ t.win[w] \in WindowRecords
      /\ JobSound(t.win[w], t.kid, w) /\ EventSound(t.win[w], None)
  BY AtWindow
<1>2. /\ r \in WindowRecords /\ r.pid = t.win[w].pid /\ r.deadpid = t.win[w].deadpid
      /\ r.open = t.win[w].open /\ r.writeq = t.win[w].writeq /\ r.awaits = t.win[w].awaits
  BY <1>1 DEF WindowRecords
<1>3. [t EXCEPT !.win[w].readq = FALSE] = With(t, w, r, t.filter[w])
  BY <1>1 DEF With, Typed, Servers
<1> DEFINE v == IF front THEN t.win[w] ELSE r
<1>4. quiet = IF front THEN t ELSE With(t, w, r, t.filter[w])
  BY <1>3
<1>5. /\ winexec(t, w, pat, try) =
           CASE try = "nodevice" -> t
             [] try = Failed -> FreePseudowin(quiet, w)
             [] OTHER -> [Fork(quiet, w, try, TRUE) EXCEPT !.filter[w] = frec]
  BY DEF winexec
<1> HIDE DEF r
<1>6. /\ v \in WindowRecords /\ JobSound(v, t.kid, w) /\ v.open = v.writeq /\ v.awaits = FALSE
      /\ front => v.readq
  BY <1>1, <1>2 DEF JobSound, EventSound, W_WTOP, WindowRecords
<1>7. PICK q : q = quiet
  OBVIOUS
<1>8. /\ Typed(q) /\ q.windows = t.windows /\ q.kid = t.kid /\ q.win[w] = v /\ q.filter[w] = None
      /\ SoundBut(q, w)
  <2>1. q = IF front THEN t ELSE With(t, w, r, t.filter[w])
    BY <1>4, <1>7
  <2> HIDE DEF quiet
  <2>2. CASE front
    BY <1>1, <2>1, <2>2
  <2>3. CASE ~front
    <3>1. q = With(t, w, r, None) /\ v = r
      BY <2>1, <2>3
    <3>2. QED
      BY <1>1, <1>2, <3>1, WithIs, WithBut
  <2>4. QED
    BY <2>2, <2>3
<1> HIDE DEF quiet, v
<1>9. w \in Alive(q)
  BY <1>8 DEF Alive
<1>10. CASE try = "nodevice" /\ try # Failed
  BY <1>5, <1>10, KeepsKids
<1>11. CASE try = Failed
  <2>1. Sound(FreePseudowin(q, w)) /\ FreePseudowin(q, w).kid = q.kid
    BY <1>6, <1>8, <1>9, FreePseudowinSound
  <2>2. winexec(t, w, pat, try) \in {t, FreePseudowin(q, w)}
    BY <1>5, <1>7, <1>11
  <2>3. QED
    BY <1>8, <2>1, <2>2, KeepsKids
<1>12. CASE try # "nodevice" /\ try # Failed
  <2>1. try \in Pids /\ t.kid[try].state = "free"
    BY <1>12 DEF Tries
  <2>2. winexec(t, w, pat, try) = [Fork(q, w, try, TRUE) EXCEPT !.filter[w] = frec]
    BY <1>5, <1>7, <1>12
  <2>3. /\ frec \in FilterRecords /\ frec.pid = try /\ frec.pat = pat
    BY <2>1, ChildrenAssumption DEF FilterRecords, Ends, F_PFRONT
  <2> HIDE DEF frec
  <2> DEFINE k == [NoChild EXCEPT !.state = "running", !.of = w, !.filter = TRUE]
  <2>4. k \in ChildRecords /\ k.state = "running" /\ k.of = w /\ k.filter
    BY <1>1 DEF ChildRecords, NoChild
  <2>5. Fork(q, w, try, TRUE) = WithKid(q, try, k)
    BY DEF Fork, WithKid
  <2> HIDE DEF k
  <2>6. PICK g : g = WithKid(q, try, k)
    OBVIOUS
  <2>7. /\ Typed(g) /\ g.windows = t.windows /\ g.win = q.win /\ g.filter = q.filter
        /\ g.kid[try] = k /\ \A p \in Pids \ {try} : g.kid[p] = t.kid[p]
    BY <1>8, <2>1, <2>4, <2>6, WithKidIs
  <2>8. SoundBut(g, w)
    <3>1. ASSUME NEW x \in Windows \ {w} PROVE SoundAt(g, x)
      <4>1. SoundAt(q, x)
        BY <1>8 DEF SoundBut
      <4>2. ~Holds(q, x, try)
        BY <1>8, <2>1, <4>1, HeldBy
      <4>3. QED
        BY <1>8, <2>1, <2>4, <2>6, <4>1, <4>2, WithKidSound
    <3>2. QED
      BY <3>1 DEF SoundBut
  <2>9. JobSound(v, g.kid, w)
    BY <1>6, <2>1, <2>7 DEF JobSound, PidSound
  <2>10. FilterSound(frec, g.kid, w)
    BY <2>1, <2>3, <2>4, <2>7 DEF FilterSound
  <2>11. EventSound(v, frec)
    BY <1>6, <2>3, NoneAssumption DEF EventSound
  <2>12. w \in Alive(g)
    BY <1>9, <1>8, <2>7 DEF Alive
  <2>13. [g EXCEPT !.filter[w] = frec] = With(g, w, v, frec)
    BY <1>1, <1>8, <2>7 DEF With, Typed, Servers
  <2>14. Sound(With(g, w, v, frec)) /\ With(g, w, v, frec).kid = g.kid
    BY <1>6, <2>3, <2>7, <2>8, <2>9, <2>10, <2>11, <2>12, WithSound
  <2>15. Waiting(g) \subseteq Waiting(t)
    BY <2>1, <2>4, <2>7, WaitsNoMore
  <2>16. Keeps(g, With(g, w, v, frec))
    BY <2>14, KeepsKids
  <2>17. Keeps(t, With(g, w, v, frec))
    BY <2>15, <2>16 DEF Keeps
  <2>18. QED
    BY <2>2, <2>5, <2>6, <2>13, <2>17
<1>13. QED
  BY <1>10, <1>11, <1>12

WithTty(t, w, x) == [t EXCEPT !.win[w].tty = x]

\* A process opens its side of a window's pty, or closes it.
LEMMA TtySound ==
  ASSUME NEW t, Sound(t), NEW w \in Alive(t), NEW x \in Ends
  PROVE  LET u == WithTty(t, w, x) IN
         /\ Keeps(t, u) /\ u.windows = t.windows /\ u.filter[w] = t.filter[w]
         /\ u.kid = t.kid /\ u.win[w].open = t.win[w].open
<1> DEFINE f == t.filter[w]
           v == t.win[w]
           vx == [v EXCEPT !.tty = x]
<1>1. /\ Typed(t) /\ SoundBut(t, w) /\ w \in Windows
      /\ v \in WindowRecords /\ f \in FilterRecords \union {None}
      /\ JobSound(v, t.kid, w) /\ FilterSound(f, t.kid, w) /\ EventSound(v, f)
  BY AtWindow
<1>2. WithTty(t, w, x) = With(t, w, vx, f)
  BY <1>1 DEF WithTty, With, Typed, Servers
<1>3. /\ vx \in WindowRecords /\ JobSound(vx, t.kid, w) /\ EventSound(vx, f) /\ vx.open = v.open
  BY <1>1 DEF WindowRecords, JobSound, EventSound
<1> HIDE DEF v, vx, f
<1>4. Keeps(t, With(t, w, vx, f))
  BY <1>1, <1>3, WithKeeps
<1>5. PICK u : u = With(t, w, vx, f)
  OBVIOUS
<1>6. u.windows = t.windows /\ u.filter[w] = f /\ u.kid = t.kid /\ u.win[w] = vx
  BY <1>1, <1>3, <1>5, WithIs
<1>7. QED
  BY <1>2, <1>3, <1>4, <1>5, <1>6 DEF f, v

\* A filter opens its pty, or closes it.
LEMMA FilterTtySound ==
  ASSUME NEW t, Sound(t), NEW w \in Alive(t), NEW x \in Ends, t.filter[w] # None
  PROVE  Keeps(t, [t EXCEPT !.filter[w].tty = x])
<1> DEFINE f == t.filter[w]
           v == t.win[w]
           fx == [f EXCEPT !.tty = x]
<1>1. /\ Typed(t) /\ SoundBut(t, w) /\ w \in Windows
      /\ v \in WindowRecords /\ f \in FilterRecords /\ f # None
      /\ JobSound(v, t.kid, w) /\ FilterSound(f, t.kid, w) /\ EventSound(v, f)
  BY AtWindow
<1>2. [t EXCEPT !.filter[w].tty = x] = With(t, w, v, fx)
  BY <1>1 DEF With, Typed, Servers
<1>3. fx \in FilterRecords /\ fx.pid = f.pid /\ fx.pat = f.pat
  BY <1>1 DEF FilterRecords
<1> HIDE DEF v, fx
<1>4. FilterSound(fx, t.kid, w) /\ EventSound(v, fx)
  BY <1>1, <1>3, NoneAssumption DEF FilterSound, EventSound, W_WTOP
<1>5. QED
  BY <1>1, <1>2, <1>3, <1>4, WithKeeps

\* The descriptors of a pattern stay descriptors.
LEMMA ParseType == \A pat \in Patterns : Parse(pat) \in PatternSet
<1> TAKE pat \in Patterns
<1>1. pat \in PatternSet
  BY PatternsAssumption
<1>2. pat.fd \in [1 .. 3 -> Descriptor] /\ "!" \in Descriptor /\ 1 \in 1 .. 3
  BY <1>1 DEF PatternSet, Descriptor
<1>3. [pat.fd EXCEPT ![1] = "!"] \in [1 .. 3 -> Descriptor]
  BY <1>2
<1>4. QED
  BY <1>1, <1>3 DEF Parse, PatternSet

-----------------------------------------------------------------------------
(* The invariant.                                                           *)

Switches ==
  /\ zombie \in {"off", "on", "onerror"} /\ socket \in BOOLEAN /\ signal \in BOOLEAN
  /\ phase \in {"checked", "asleep", "interrupted", "awake"}
  /\ due \subseteq Events

IInv == Sound(s) /\ Switches /\ (~signal => Waiting(s) = {})

\* What a step of the server may do to the record, when it does not look at the signal.
LEMMA KeepsInv ==
  ASSUME IInv, NEW t, Keeps(s, t), s' = t, signal' = signal, Switches'
  PROVE  IInv'
<1>1. Sound(t) /\ Waiting(t) \subseteq Waiting(s)
  BY DEF Keeps
<1>2. Sound(s')
  BY <1>1
<1>3. ~signal' => Waiting(s') = {}
  BY <1>1 DEF IInv
<1>4. QED
  BY <1>2, <1>3 DEF IInv

\* A server can start with one window, with two, or with a filter.
LEMMA InitSound == Init => IInv
<1> SUFFICES ASSUME Init PROVE IInv
  OBVIOUS
<1>1. PICK w \in Windows : w = CHOOSE x \in Windows : TRUE
  BY ChildrenAssumption
<1>2. PICK p \in Pids : p = CHOOSE x \in Pids : TRUE
  BY ChildrenAssumption
<1>3. PICK first : first = MakeWindow(Ended, w, p)
  OBVIOUS
<1>4. PICK second : second = Opened(first, w)
  OBVIOUS
<1>5. \/ s = first \/ s = second
      \/ \E v \in Windows \ {w}, q \in Pids \ {p} : s = MakeWindow(second, v, q)
      \/ \E pat \in Patterns, q \in Pids \ {p} : s = winexec(second, w, Parse(pat), q)
  BY <1>1, <1>2, <1>3, <1>4 DEF Init, Started
<1>6. /\ Sound(Ended) /\ Alive(Ended) = {} /\ Waiting(Ended) = {} /\ Ended.filter[w] = None
      /\ \A q \in Pids : Ended.kid[q].state = "free"
  <2>1. ToSet(<<>>) = {}
    BY DEF ToSet
  <2>2. QED
    BY <2>1, EndedSound DEF Ended, Alive, NoChild
<1>7. p \in Tries(Ended) /\ p \notin {"nodevice", Failed}
  BY <1>6, ChildrenAssumption DEF Tries
<1>8. /\ Sound(first) /\ Waiting(first) = {} /\ Alive(first) = {w}
      /\ first.filter[w] = None /\ first.win[w].open
      /\ \A q \in Pids : q # p => first.kid[q].state = "free"
  BY <1>3, <1>6, <1>7, MakeWindowSound DEF Keeps
<1>9. /\ Keeps(first, second) /\ second.windows = first.windows /\ second.filter[w] = None
      /\ second.kid = first.kid /\ second.win[w].open
  <2>1. PICK x \in Ends : x = "open"
    BY DEF Ends
  <2>2. second = WithTty(first, w, x)
    BY <1>4, <2>1 DEF Opened, WithTty
  <2>3. w \in Alive(first)
    BY <1>8
  <2>4. PICK u : u = WithTty(first, w, x)
    OBVIOUS
  <2>5. Sound(first)
    BY <1>8
  <2>6. /\ Keeps(first, u) /\ u.windows = first.windows /\ u.filter[w] = first.filter[w]
        /\ u.kid = first.kid /\ u.win[w].open = first.win[w].open
    BY <2>3, <2>4, <2>5, TtySound
  <2>7. QED
    BY <1>8, <2>2, <2>4, <2>6
<1>10. Sound(second) /\ Waiting(second) = {} /\ Alive(second) = {w}
  BY <1>8, <1>9 DEF Keeps, Alive
<1>11. \A q \in Pids \ {p} : q \in Tries(second)
  BY <1>8, <1>9 DEF Tries
<1>12. s = first \/ Keeps(second, s)
  <2>1. CASE s = second
    BY <1>10, <2>1, KeepsKids
  <2>2. CASE \E v \in Windows \ {w}, q \in Pids \ {p} : s = MakeWindow(second, v, q)
    BY <1>10, <1>11, <2>2, MakeWindowSound
  <2>3. CASE \E pat \in Patterns, q \in Pids \ {p} : s = winexec(second, w, Parse(pat), q)
    BY <1>9, <1>10, <1>11, <2>3, ParseType, WinexecSound
  <2>4. QED
    BY <1>5, <2>1, <2>2, <2>3
<1>13. Sound(s) /\ Waiting(s) = {}
  BY <1>8, <1>10, <1>12 DEF Keeps
<1>14. Switches
  BY DEF Init, Switches
<1>15. QED
  BY <1>13, <1>14 DEF IInv

\* A child stops, goes on or exits; the signal is pending then.
LEMMA KidStep ==
  ASSUME IInv, NEW p \in Pids, NEW k \in ChildRecords, s.kid[p].state # "free",
         k.state # "free", k.of = s.kid[p].of, k.filter = s.kid[p].filter,
         s' = WithKid(s, p, k), SigChld, UNCHANGED <<zombie, due, socket>>
  PROVE  IInv'
<1>1. Sound(s) /\ Typed(s)
  BY DEF IInv, Sound
<1>2. Typed(WithKid(s, p, k))
  BY <1>1, WithKidIs
<1>3. \A w \in Windows : SoundAt(WithKid(s, p, k), w)
  BY <1>1, WithKidSound DEF Sound
<1>4. Sound(WithKid(s, p, k))
  BY <1>2, <1>3 DEF Sound
<1>5. Sound(s')
  BY <1>4
<1>6. Switches' /\ signal' = TRUE
  BY DEF IInv, Switches, SigChld, Events
<1>7. QED
  BY <1>5, <1>6 DEF IInv

\* A command of a user: what it does to the record keeps.
LEMMA CommandStep ==
  ASSUME IInv, NEW t, Keeps(s, t), Command(t)
  PROVE  IInv'
<1>1. s' = t /\ UNCHANGED <<zombie, due, socket, signal, phase>>
  BY DEF Command, InPass
<1>2. Switches'
  BY <1>1 DEF IInv, Switches, Events
<1>3. QED
  BY <1>1, <1>2, KeepsInv

\* A process opens its pty, or closes it.
LEMMA TerminalStep ==
  ASSUME IInv, NEW p \in Pids, NEW from \in Ends, NEW to \in Ends, Terminal(p, from, to)
  PROVE  IInv'
<1>1. UNCHANGED <<zombie, due, socket, signal, phase>>
  BY DEF Terminal, Outside
<1>2. Switches'
  BY <1>1 DEF IInv, Switches, Events
<1>3. Sound(s) /\ Typed(s)
  BY DEF IInv, Sound
<1> DEFINE w == s.kid[p].of
<1>4. CASE IsJob(p) /\ s' = [s EXCEPT !.win[w].tty = to]
  <2>1. w \in Alive(s)
    BY <1>4 DEF IsJob
  <2>2. s' = WithTty(s, w, to)
    BY <1>4 DEF WithTty
  <2> HIDE DEF w
  <2>3. Keeps(s, WithTty(s, w, to))
    BY <1>3, <2>1, TtySound
  <2>4. QED
    BY <1>1, <1>2, <2>2, <2>3, KeepsInv
<1>5. CASE IsFilter(p) /\ s' = [s EXCEPT !.filter[w].tty = to]
  <2>1. CASE w \notin Windows
    <3>1. s' = s
      BY <1>3, <1>5, <2>1 DEF Typed, Servers
    <3>2. Keeps(s, s)
      BY <1>3, KeepsKids
    <3>3. QED
      BY <1>1, <1>2, <3>1, <3>2, KeepsInv
  <2>2. CASE w \in Windows
    <3>1. s.filter[w] # None
      BY <1>5 DEF IsFilter, HasFilter
    <3>2. w \in Alive(s)
      BY <1>3, <2>2, <3>1 DEF Sound, SoundAt
    <3> HIDE DEF w
    <3>3. Keeps(s, [s EXCEPT !.filter[w].tty = to])
      BY <1>3, <3>1, <3>2, FilterTtySound
    <3>4. QED
      BY <1>1, <1>2, <1>5, <3>3, KeepsInv
  <2>3. QED
    BY <2>1, <2>2
<1>6. QED
  BY <1>4, <1>5 DEF Terminal

\* The steps of the processes and of the kernel.
LEMMA ChildSteps ==
  ASSUME IInv, NEW p \in Pids
  PROVE  /\ OpenTty(p) \/ CloseTty(p) \/ Continue(p) => IInv'
         /\ \A ok \in BOOLEAN : Exit(p, ok) => IInv'
         /\ \A how \in {"ttystop", "stop"} : Stop(p, how) => IInv'
<1>1. Typed(s) /\ s.kid[p] \in ChildRecords
  BY Fields DEF IInv, Sound
<1>2. ASSUME OpenTty(p) PROVE IInv'
  BY <1>2, TerminalStep DEF OpenTty, Ends
<1>3. ASSUME CloseTty(p) PROVE IInv'
  BY <1>3, TerminalStep DEF CloseTty, Ends
<1>4. ASSUME Continue(p) PROVE IInv'
  <2> DEFINE k == [s.kid[p] EXCEPT !.state = "running"]
  <2>1. k \in ChildRecords /\ k.state # "free" /\ k.of = s.kid[p].of /\ k.filter = s.kid[p].filter
    BY <1>1 DEF ChildRecords
  <2>2. s' = WithKid(s, p, k) /\ s.kid[p].state # "free"
    BY <1>1, <1>4 DEF Continue, WithKid, Typed, Servers
  <2>3. SigChld /\ UNCHANGED <<zombie, due, socket>>
    BY <1>4 DEF Continue, Outside
  <2> HIDE DEF k
  <2>4. QED
    BY <2>1, <2>2, <2>3, KidStep
<1>5. ASSUME NEW ok \in BOOLEAN, Exit(p, ok) PROVE IInv'
  <2> DEFINE k == [s.kid[p] EXCEPT !.state = "exited", !.ok = ok]
  <2>1. k \in ChildRecords /\ k.state # "free" /\ k.of = s.kid[p].of /\ k.filter = s.kid[p].filter
    BY <1>1 DEF ChildRecords
  <2>2. s' = WithKid(s, p, k) /\ s.kid[p].state # "free"
    BY <1>1, <1>5 DEF Exit, WithKid, Typed, Servers
  <2>3. SigChld /\ UNCHANGED <<zombie, due, socket>>
    BY <1>5 DEF Exit, Outside
  <2> HIDE DEF k
  <2>4. QED
    BY <2>1, <2>2, <2>3, KidStep
<1>6. ASSUME NEW how \in {"ttystop", "stop"}, Stop(p, how) PROVE IInv'
  <2> DEFINE k == [s.kid[p] EXCEPT !.state = how, !.stopped = TRUE]
  <2>1. k \in ChildRecords /\ k.state # "free" /\ k.of = s.kid[p].of /\ k.filter = s.kid[p].filter
    BY <1>1 DEF ChildRecords
  <2>2. s' = WithKid(s, p, k) /\ s.kid[p].state # "free"
    BY <1>1, <1>6 DEF Stop, WithKid, Typed, Servers
  <2>3. SigChld /\ UNCHANGED <<zombie, due, socket>>
    BY <1>6 DEF Stop, Outside
  <2> HIDE DEF k
  <2>4. QED
    BY <2>1, <2>2, <2>3, KidStep
<1>7. QED
  BY <1>2, <1>3, <1>4, <1>5, <1>6

\* The commands of the users.
LEMMA CommandSteps ==
  ASSUME IInv, NEW w \in Windows, Screen(w) \/ Kill(w) \/ Type(w) \/ Destroy(w) \/ Resurrect(w)
  PROVE  IInv'
<1>1. Sound(s)
  BY DEF IInv
<1>2. ASSUME Screen(w) PROVE IInv'
  <2>1. PICK try \in Tries(s) : Command(MakeWindow(s, w, try))
    BY <1>2 DEF Screen
  <2>2. w \in Windows \ Alive(s)
    BY <1>2 DEF Screen
  <2>3. Keeps(s, MakeWindow(s, w, try))
    BY <1>1, <2>2, MakeWindowSound
  <2>4. QED
    BY <2>1, <2>3, CommandStep
<1>3. ASSUME w \in Alive(s) PROVE Keeps(s, KillWindow(s, w))
  <2>1. Typed(s) /\ SoundBut(s, w)
    BY <1>1, <1>3, AtWindow
  <2>2. Sound(KillWindow(s, w)) /\ (KillWindow(s, w).kid = s.kid \/ KillWindow(s, w) = Ended)
    BY <1>3, <2>1, KillWindowSound
  <2>3. QED
    BY <2>2, KeepsKids
<1>4. ASSUME Kill(w) PROVE IInv'
  <2>1. w \in Alive(s)
    BY <1>4 DEF Kill
  <2>2. Keeps(s, FreePseudowin(s, w))
    <3>1. Typed(s) /\ SoundBut(s, w) /\ JobSound(s.win[w], s.kid, w) /\ s.win[w].open = s.win[w].writeq
      BY <1>1, <2>1, AtWindow DEF EventSound
    <3>2. QED
      BY <2>1, <3>1, FreePseudowinSound, KeepsKids
  <2>3. Command(FreePseudowin(s, w)) \/ Command(KillWindow(s, w))
    BY <1>4 DEF Kill
  <2>4. QED
    BY <1>3, <2>1, <2>2, <2>3, CommandStep
<1>5. ASSUME Type(w) PROVE IInv'
  <2>1. w \in Alive(s) /\ Size \in Nat
    BY <1>5, ChildrenAssumption DEF Type
  <2>2. /\ s.win[w] \in WindowRecords /\ Typed(s) /\ w \in Windows
        /\ s.filter[w] # None => s.filter[w] \in FilterRecords
    BY <1>1, <2>1, AtWindow
  <2>3. CASE W_UWP(s.filter[w])
    <3>1. s.filter[w] # None /\ s.filter[w].inlen \in 0 .. Size
      BY <2>2, <2>3 DEF W_UWP, FilterRecords
    <3>2. PICK n : n = s.filter[w].inlen + 1
      OBVIOUS
    <3>3. n \in 0 .. Size /\ Command([s EXCEPT !.filter[w].inlen = n])
      BY <1>5, <2>1, <2>3, <3>1, <3>2 DEF Type
    <3>4. QED
      BY <1>1, <2>1, <3>1, <3>3, InlenSound, CommandStep
  <2>4. CASE ~W_UWP(s.filter[w])
    <3>1. s.win[w].inlen \in 0 .. Size
      BY <2>2 DEF WindowRecords
    <3>2. PICK n : n = s.win[w].inlen + 1
      OBVIOUS
    <3>3. n \in 0 .. Size /\ Command([s EXCEPT !.win[w].inlen = n])
      BY <1>5, <2>1, <2>4, <3>1, <3>2 DEF Type
    <3>4. QED
      BY <1>1, <2>1, <3>3, InlenSound, CommandStep
  <2>5. QED
    BY <2>3, <2>4
<1>6. ASSUME Destroy(w) PROVE IInv'
  BY <1>3, <1>6, CommandStep DEF Destroy
<1>7. ASSUME Resurrect(w) PROVE IInv'
  BY <1>1, <1>7, RemakeWindowSound, CommandStep DEF Resurrect
<1>8. QED
  BY <1>2, <1>4, <1>5, <1>6, <1>7

\* exec.
LEMMA ExecStep ==
  ASSUME IInv, NEW w \in Windows, NEW pat \in Patterns, Exec(w, pat)
  PROVE  IInv'
<1>1. /\ Sound(s) /\ w \in Alive(s) /\ s.filter[w] = None /\ s.win[w].open
      /\ Parse(pat) \in PatternSet
  BY ParseType DEF IInv, Exec
<1>2. PICK try \in Tries(s) : Command(winexec(s, w, Parse(pat), try))
  BY DEF Exec
<1>3. Keeps(s, winexec(s, w, Parse(pat), try))
  BY <1>1, WinexecSound
<1>4. QED
  BY <1>2, <1>3, CommandStep

\* The steps of the server's loop.
LEMMA LoopSteps ==
  ASSUME IInv, Wake \/ serv_select_fn \/ Select \/ \E e \in Events : Handle(e)
  PROVE  IInv'
<1>1. Sound(s) /\ Switches /\ Keeps(s, s)
  BY KeepsKids DEF IInv
<1>2. ASSUME Wake PROVE IInv'
  <2>1. s' = s /\ UNCHANGED <<zombie, socket, signal>> /\ phase' = "awake"
    BY <1>2 DEF Wake
  <2>2. due' \subseteq Events
    <3>1. EndsOfFile(s) \subseteq Events /\ MayBeReady(s) \subseteq Events
      BY DEF EndsOfFile, MayBeReady
    <3>2. PICK ready \in SUBSET MayBeReady(s) : due' = EndsOfFile(s) \union ready
      BY <1>2 DEF Wake
    <3>3. QED
      BY <3>1, <3>2
  <2>3. Switches'
    BY <1>1, <2>1, <2>2 DEF Switches, Events
  <2>4. QED
    BY <1>1, <2>1, <2>3, KeepsInv
<1>3. ASSUME NEW e \in Events, Handle(e) PROVE IInv'
  <2>1. PICK t \in IF Listens(s, e[1], e[2]) THEN Handled(s, e[1], e[2]) ELSE {s} : InPass(t)
    BY <1>3 DEF Handle
  <2>2. Keeps(s, t)
    BY <1>1, HandledSound
  <2>3. s' = t /\ UNCHANGED <<zombie, socket, signal, phase>> /\ due' = due \ {e}
    BY <1>3, <2>1 DEF Handle, InPass
  <2>4. Switches'
    BY <1>1, <2>3 DEF Switches, Events
  <2>5. QED
    BY <2>2, <2>3, <2>4, KeepsInv
<1>4. ASSUME serv_select_fn PROVE IInv'
  <2>1. UNCHANGED <<zombie, due>> /\ phase' = "checked" /\ signal' = FALSE
    BY <1>4 DEF serv_select_fn
  <2>2. CASE ~signal
    <3>1. s' = s /\ UNCHANGED socket
      BY <1>4, <2>2 DEF serv_select_fn
    <3>2. Waiting(s') = {}
      BY <2>2, <3>1 DEF IInv
    <3>3. Switches'
      BY <1>1, <2>1, <3>1 DEF Switches, Events
    <3>4. Sound(s')
      BY <1>1, <3>1
    <3>5. QED
      BY <3>2, <3>3, <3>4 DEF IInv
  <2>3. CASE signal
    <3>1. PICK order \in Orders(Waiting(s)) :
            IF socket THEN s' = DoWait(s, order) /\ UNCHANGED socket ELSE RecoverSocket(DoWait(s, order))
      BY <1>4, <2>3 DEF serv_select_fn, SigChldHandler
    <3>2. (s' = DoWait(s, order) \/ s' = Ended) /\ socket' \in BOOLEAN
      BY <1>1, <3>1 DEF RecoverSocket, Switches
    <3>3. Sound(DoWait(s, order)) /\ Waiting(DoWait(s, order)) = {}
      BY <1>1, DoWaitSound
    <3>4. Sound(s') /\ Waiting(s') = {}
      BY <3>2, <3>3, EndedSound
    <3>5. Switches'
      BY <1>1, <2>1, <3>2 DEF Switches, Events
    <3>6. QED
      BY <3>4, <3>5 DEF IInv
  <2>4. QED
    BY <2>2, <2>3
<1>5. ASSUME Select PROVE IInv'
  <2>1. UNCHANGED <<zombie, socket, signal, due>> /\ phase' = "asleep" /\ (s' = s \/ s' = Ended)
    BY <1>5 DEF Select
  <2>2. Switches'
    BY <1>1, <2>1 DEF Switches, Events
  <2>3. Keeps(s, Ended)
    BY EndedSound, KeepsKids
  <2>4. QED
    BY <1>1, <2>1, <2>2, <2>3, KeepsInv
<1>6. QED
  BY <1>2, <1>3, <1>4, <1>5

\* Every step preserves the invariant.
LEMMA StepSound == IInv /\ [Next]_vars => IInv'
<1> SUFFICES ASSUME IInv, [Next]_vars PROVE IInv'
  OBVIOUS
<1>1. CASE UNCHANGED vars
  BY <1>1 DEF vars, IInv, Switches, Events
<1>2. CASE \E p \in Pids : OpenTty(p) \/ CloseTty(p) \/ Continue(p)
  BY <1>2, ChildSteps
<1>3. CASE \E p \in Pids, ok \in BOOLEAN : Exit(p, ok)
  BY <1>3, ChildSteps
<1>4. CASE \E p \in Pids, how \in {"ttystop", "stop"} : Stop(p, how)
  BY <1>4, ChildSteps
<1>5. CASE SocketVanishes
  <2>1. s' = s /\ UNCHANGED <<zombie, due, signal, phase>> /\ socket' = FALSE /\ Keeps(s, s)
    BY <1>5, KeepsKids DEF SocketVanishes, Outside, IInv
  <2>2. Switches'
    BY <2>1 DEF IInv, Switches, Events
  <2>3. QED
    BY <2>1, <2>2, KeepsInv
<1>6. CASE UserSignals
  <2>1. s' = s /\ SigChld /\ UNCHANGED <<zombie, due, socket>>
    BY <1>6 DEF UserSignals, Outside
  <2>2. Switches' /\ signal' = TRUE
    BY <2>1 DEF IInv, Switches, SigChld, Events
  <2>3. Sound(s')
    BY <2>1 DEF IInv
  <2>4. QED
    BY <2>2, <2>3 DEF IInv
<1>7. CASE Wake \/ serv_select_fn \/ Select \/ \E e \in Events : Handle(e)
  BY <1>7, LoopSteps
<1>8. CASE \E w \in Windows : Screen(w) \/ Kill(w) \/ Type(w) \/ Destroy(w) \/ Resurrect(w)
  BY <1>8, CommandSteps
<1>9. CASE \E w \in Windows, p \in Patterns : Exec(w, p)
  BY <1>9, ExecStep
<1>10. CASE \E policy \in {"off", "on", "onerror"} : Zombie(policy)
  <2>1. /\ s' = s /\ UNCHANGED <<due, socket, signal, phase>>
        /\ zombie' \in {"off", "on", "onerror"} /\ Keeps(s, s)
    BY <1>10, KeepsKids DEF Zombie, InPass, IInv
  <2>2. Switches'
    BY <2>1 DEF IInv, Switches, Events
  <2>3. QED
    BY <2>1, <2>2, KeepsInv
<1>11. QED
  BY <1>1, <1>2, <1>3, <1>4, <1>5, <1>6, <1>7, <1>8, <1>9, <1>10 DEF Next

\* The invariant is inductive: it holds in the states a server starts in, and every step of the
\* processes, the kernel, the users and the server's loop preserves it.
THEOREM Inductive == Spec => []IInv
BY InitSound, StepSound, PTL DEF Spec

\* The invariant says what the property says.
LEMMA InvImplies == IInv => ProcessesSound
<1> SUFFICES ASSUME IInv PROVE ProcessesSound
  OBVIOUS
<1>1. TypeOK
  BY DEF IInv, Sound, Typed, Switches, TypeOK
<1>2. \A w \in Windows :
        /\ JobSound(s.win[w], s.kid, w) /\ FilterSound(s.filter[w], s.kid, w)
        /\ EventSound(s.win[w], s.filter[w]) /\ s.win[w] \in WindowRecords
  BY Fields DEF IInv, Sound, SoundAt
<1>3. PidsCurrent
  BY <1>2 DEF JobSound, PidSound, FilterSound, PidsCurrent, WindowRecords
<1>4. EventsFollow
  BY <1>2 DEF EventSound, EventsFollow
<1>5. NoneLeft
  BY DEF IInv, NoneLeft
<1>6. QED
  BY <1>1, <1>3, <1>4, <1>5 DEF ProcessesSound

\* The pids on record are those of the windows' own children and filters, each device has its read
\* and write events, and while no signal is pending no child waits to be collected.
THEOREM ProcessesCorrect == Spec => []ProcessesSound
BY Inductive, InvImplies, PTL
=============================================================================
