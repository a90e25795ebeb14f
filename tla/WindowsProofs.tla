--------------------------- MODULE WindowsProofs ----------------------------
(* Proofs about Windows, the second part: the focus of displays, layouts,    *)
(* the steps of the specification, and the theorems: the lists of canvases   *)
(* and the chains of layers agree, and nothing points to what was freed.     *)
EXTENDS LayerProofs

-----------------------------------------------------------------------------
(* The focus of a display.                                                   *)

Focusing(t, d, c, w, o, y, a, f, l) ==
  [t EXCEPT !.forecv[d] = c, !.dfore[d] = w, !.dother[d] = o, !.dlayout[d] = y, !.display = a, !.fore = f, !.flayer = l]

FocusingFacts(t, d, c, w, o, y, a, f, l, u) ==
  /\ u.forecv = [t.forecv EXCEPT ![d] = c] /\ u.dfore = [t.dfore EXCEPT ![d] = w] /\ u.dother = [t.dother EXCEPT ![d] = o]
  /\ u.dlayout = [t.dlayout EXCEPT ![d] = y] /\ u.display = a /\ u.fore = f /\ u.flayer = l /\ SameLayers(t, u)
  /\ u.start = t.start /\ u.displays = t.displays /\ u.layouts = t.layouts /\ u.lay = t.lay /\ u.cvs = t.cvs
  /\ u.last = t.last /\ u.detachwin = t.detachwin /\ u.detachotherwin = t.detachotherwin
  /\ u.kind = t.kind /\ u.size = t.size /\ Whole(u)

\* Setting the pointers of a display, field by field.
LEMMA FocusingFields ==
  ASSUME NEW t \in Screens, NEW d, NEW c, NEW w, NEW o, NEW y, NEW a, NEW f, NEW l,
         NEW u, u = Focusing(t, d, c, w, o, y, a, f, l)
  PROVE  FocusingFacts(t, d, c, w, o, y, a, f, l, u)
<1> DEFINE forecv == [t.forecv EXCEPT ![d] = c]
           dfore == [t.dfore EXCEPT ![d] = w]
           dother == [t.dother EXCEPT ![d] = o]
           dlayout == [t.dlayout EXCEPT ![d] = y]
<1>1. u = [t EXCEPT !.forecv = forecv, !.dfore = dfore, !.dother = dother, !.dlayout = dlayout, !.display = a,
                    !.fore = f, !.flayer = l]
  BY DEF Focusing, Screens
<1> HIDE DEF forecv, dfore, dother, dlayout
<1>2. u.forecv = forecv /\ u.dfore = dfore /\ u.dother = dother /\ u.dlayout = dlayout
  BY <1>1 DEF Screens
<1>3. u.display = a /\ u.fore = f /\ u.flayer = l
  BY <1>1 DEF Screens
<1>4. SameLayers(t, u)
  BY <1>1 DEF Screens, SameLayers
<1>5. u.start = t.start /\ u.displays = t.displays /\ u.layouts = t.layouts /\ u.lay = t.lay /\ u.cvs = t.cvs
  BY <1>1 DEF Screens
<1>6. u.last = t.last /\ u.detachwin = t.detachwin /\ u.detachotherwin = t.detachotherwin /\ u.kind = t.kind /\ u.size = t.size
  BY <1>1 DEF Screens
<1>7. Whole(u)
  BY <1>1 DEF Screens, Whole
<1>8. QED
  BY <1>2, <1>3, <1>4, <1>5, <1>6, <1>7 DEF FocusingFacts, forecv, dfore, dother, dlayout

\* The focus of the display d and the globals change.
Refocused(t, d, u) ==
  /\ Settled(u, d, None) /\ (Shown(t) <=> Shown(u)) /\ SameLayers(t, u) /\ u.cvs = t.cvs /\ u.displays = t.displays
  /\ u.layouts = t.layouts /\ u.lay = t.lay /\ u.last = t.last /\ Existing(u) = Existing(t) /\ OnOthers(u) = OnOthers(t)
  /\ Alive(u) = Alive(t) /\ \A c : Shows(u, c) = Shows(t, c)
  /\ u.detachwin = t.detachwin /\ u.detachotherwin = t.detachotherwin

\* Setting the pointers of a display to something alive.
LEMMA FocusingSound ==
  ASSUME NEW t, NEW d \in Displays, Settled(t, d, None), NEW c \in Maybe(Canvases), NEW w \in Maybe(Existing(t)),
         NEW o \in Maybe(Existing(t)), NEW y \in Maybe(ToSet(t.layouts)), NEW a \in Maybe(Displays),
         NEW f \in Maybe(Existing(t)), NEW l \in Maybe(Alive(t)),
         NEW u, u = Focusing(t, d, c, w, o, y, a, f, l)
  PROVE  /\ Refocused(t, d, u) /\ Aside(t, u, d)
         /\ u.forecv[d] = c /\ u.dfore[d] = w /\ u.dother[d] = o /\ u.dlayout[d] = y /\ u.display = a /\ u.fore = f
         /\ u.flayer = l
<1>1. t \in Screens /\ Core(t, None) /\ LayersTyped(t) /\ LooksTyped(t) /\ OthersTyped(t)
  BY SettledFew, Types
<1>2. FocusingFacts(t, d, c, w, o, y, a, f, l, u)
  BY <1>1, FocusingFields
<1>3. SameLayers(t, u)
  BY <1>2 DEF FocusingFacts
<1>4. /\ t.forecv \in [Displays -> Maybe(Canvases)] /\ t.dfore \in [Displays -> Maybe(Windows)]
      /\ t.dother \in [Displays -> Maybe(Windows)] /\ t.dlayout \in [Displays -> Maybe(Layouts)] /\ t.layouts \in Seq(Layouts)
  BY <1>1 DEF OthersTyped
<1>5. /\ u.forecv[d] = c /\ u.dfore[d] = w /\ u.dother[d] = o /\ u.dlayout[d] = y /\ u.display = a /\ u.fore = f /\ u.flayer = l
      /\ \A e \in Displays : e # d => u.forecv[e] = t.forecv[e] /\ u.dfore[e] = t.dfore[e] /\ u.dother[e] = t.dother[e]
                                      /\ u.dlayout[e] = t.dlayout[e]
  BY <1>2, <1>4 DEF FocusingFacts
<1>6. w \in Maybe(Windows) /\ o \in Maybe(Windows) /\ f \in Maybe(Windows) /\ y \in Maybe(Layouts) /\ l \in Maybe(Layers)
  <2>1. ToSet(t.layouts) \subseteq Layouts
    BY <1>4, ListsJoined, ElementOfSeq, LenProperties DEF ToSet
  <2>2. l \in Maybe(Layers)
    BY <1>1, BottomAlive DEF Maybe
  <2>3. QED
    BY <2>1, <2>2 DEF Existing, Maybe
<1>7. u \in Screens
  <2>1. LayersTyped(u) /\ LooksTyped(u)
    BY <1>1, <1>2, <1>6 DEF FocusingFacts, SameLayers, LayersTyped, LooksTyped
  <2>2. /\ u.forecv \in [Displays -> Maybe(Canvases)] /\ u.dfore \in [Displays -> Maybe(Windows)]
        /\ u.dother \in [Displays -> Maybe(Windows)] /\ u.dlayout \in [Displays -> Maybe(Layouts)]
    BY <1>2, <1>4, <1>6 DEF FocusingFacts
  <2>3. OthersTyped(u)
    BY <1>1, <1>2, <1>6, <2>2 DEF FocusingFacts, SameLayers, OthersTyped
  <2>4. QED
    BY <1>2, <2>1, <2>3, IsScreen DEF FocusingFacts
<1>8. /\ Existing(u) = Existing(t) /\ OnOthers(u) = OnOthers(t) /\ Alive(u) = Alive(t)
      /\ \A x : Layer2Window(u, x) = Layer2Window(t, x)
  BY <1>3, SameSound
<1>9. Points(u)
  <2>1. Points(t)
    BY <1>1 DEF Core
  <2>2. u.fore \in Maybe(Existing(u)) /\ u.flayer \in Maybe(Alive(u))
    BY <1>5, <1>8
  <2>3. ASSUME NEW e \in Displays PROVE u.dfore[e] \in Maybe(Existing(u)) /\ u.dother[e] \in Maybe(Existing(u))
    BY <1>5, <1>8, <2>1 DEF Points
  <2>4. QED
    BY <2>2, <2>3 DEF Points
<1>10. Core(u, None)
  BY <1>1, <1>3, <1>7, <1>9, SameSound
<1>11. \A x : Shows(u, x) = Shows(t, x)
  BY <1>3, <1>8 DEF Shows, SameLayers
<1>12. u.cvs = t.cvs /\ u.displays = t.displays /\ u.layouts = t.layouts /\ u.lay = t.lay /\ u.last = t.last
  BY <1>2 DEF FocusingFacts
<1>13. u.owner = t.owner /\ u.cl = t.cl /\ u.mru = t.mru
  BY <1>3 DEF SameLayers
<1>14. LayoutsKept(u)
  <2>1. \A e \in Displays : u.dlayout[e] \in Maybe(ToSet(u.layouts))
    BY <1>5, <1>12 DEF Settled, LayoutsKept
  <2>2. QED
    BY <1>8, <1>12, <2>1 DEF Settled, LayoutsKept
<1>15. ASSUME NEW e \in Displays PROVE Region(u, e) /\ (e # d => Focused(u, e))
  <2>1. Region(u, e)
    BY <1>12, <1>13 DEF Settled, Region
  <2>2. ASSUME e # d PROVE Focused(u, e)
    <3>1. Focused(t, e)
      BY <2>2 DEF Settled
    <3>2. QED
      BY <1>5, <1>11, <1>12, <2>2, <3>1 DEF Focused
  <2>3. QED
    BY <2>1, <2>2
<1>16. Settled(u, d, None)
  BY Apart, <1>8, <1>10, <1>13, <1>14, <1>15 DEF Settled
<1>17. (Shown(t) <=> Shown(u)) /\ Aside(t, u, d)
  BY <1>11, <1>12, <1>13 DEF Shown, Aside
<1>18. u.detachwin = t.detachwin /\ u.detachotherwin = t.detachotherwin
  BY <1>2 DEF FocusingFacts
<1>19. QED
  BY <1>3, <1>5, <1>8, <1>11, <1>12, <1>16, <1>17, <1>18 DEF Refocused

-----------------------------------------------------------------------------
(* Events on a display: it is current, and its focus.                        *)

Current(t, d) ==
  /\ Fine(t) /\ d \in Displays /\ d \in ToSet(t.displays) /\ t.display = d
  /\ t.fore = t.dfore[d] /\ t.flayer = t.cl[t.forecv[d]] /\ t.flayer # None

\* What holds when a display is the current one.
LEMMA CurrentFacts ==
  ASSUME NEW t, NEW d, Current(t, d)
  PROVE  /\ Settled(t, None, None) /\ Shown(t) /\ ForeSeen(t) /\ Core(t, None) /\ t \in Screens /\ d \in Displays /\ d # None
         /\ d \in ToSet(t.displays) /\ t.display = d
         /\ t.forecv[d] \in Canvases /\ t.owner[t.forecv[d]] = d /\ t.forecv[d] \in ToSet(t.cvs[d])
         /\ t.dfore[d] = Shows(t, t.forecv[d])
<1>1. Settled(t, None, None) /\ Shown(t) /\ ForeSeen(t) /\ d \in Displays /\ d # None /\ d \in ToSet(t.displays) /\ t.display = d
  BY Apart DEF Current, Fine
<1>2. Core(t, None) /\ t \in Screens
  BY <1>1, SettledFew
<1>3. t.forecv[d] \in Canvases /\ t.owner[t.forecv[d]] = d /\ t.dfore[d] = Shows(t, t.forecv[d])
  BY <1>1, FineFocus
<1>4. t.forecv[d] \in ToSet(t.cvs[d])
  BY <1>1, <1>3, SettledOwner
<1>5. QED
  BY <1>1, <1>2, <1>3, <1>4

\* Only the globals changed, to what exists.
LEMMA PointedFine ==
  ASSUME NEW t, Settled(t, None, None), Shown(t), NEW a \in Maybe(Displays), NEW x \in Maybe(Existing(t)),
         NEW y \in Maybe(Alive(t)), NEW u, u = Pointing(t, a, x, y)
  PROVE  /\ Settled(u, None, None) /\ Shown(u) /\ (\A d : Aside(t, u, d)) /\ Existing(u) = Existing(t) /\ Pointed(t, u)
         /\ u.display = a /\ u.fore = x /\ u.flayer = y /\ OnOthers(u) = OnOthers(t)
         /\ \A c : Shows(u, c) = Shows(t, c)
<1>1. t \in Screens /\ Core(t, None)
  BY SettledFew
<1>2. /\ Core(u, None) /\ Pointed(t, u) /\ u.display = a /\ u.fore = x /\ u.flayer = y /\ OnOthers(u) = OnOthers(t)
      /\ Existing(u) = Existing(t) /\ \A c : Shows(u, c) = Shows(t, c)
  BY <1>1, PointersSet
<1>3. Settled(u, None, None) /\ \A d : Aside(t, u, d)
  BY <1>2, SettledStill DEF Pointed
<1>4. Shown(u)
  BY <1>2 DEF Pointed, SameLayers, Shown
<1>5. QED
  BY <1>2, <1>3, <1>4

\* ProcessInput2.
LEMMA KeySound ==
  ASSUME Fine(s), NEW d \in Displays, d \in ToSet(s.displays), NEW t, t = Key(d)
  PROVE  Current(t, d) /\ Aside(s, t, d) /\ Existing(t) = Existing(s) /\ Pointed(s, t) /\ OnOthers(t) = OnOthers(s)
<1>1. Settled(s, None, None) /\ Shown(s) /\ s \in Screens /\ Core(s, None)
  BY SettledFew DEF Fine
<1>2. s.forecv[d] \in Canvases /\ s.owner[s.forecv[d]] = d /\ d # None
  BY <1>1, FineFocus, Apart
<1>3. s.cl[s.forecv[d]] \in Alive(s) /\ s.cl[s.forecv[d]] # None /\ s.dfore[d] \in Maybe(Existing(s))
  BY <1>1, <1>2 DEF Shown, Core, Homes, Points
<1>4. t = Pointing(s, d, s.dfore[d], s.cl[s.forecv[d]])
  <2>1. [s EXCEPT !.display = d, !.flayer = s.cl[s.forecv[d]], !.fore = s.dfore[d]]
           = Pointing(s, d, s.dfore[d], s.cl[s.forecv[d]])
    <3>1. PICK x, y : x = s.dfore[d] /\ y = s.cl[s.forecv[d]]
      OBVIOUS
    <3>2. [s EXCEPT !.display = d, !.flayer = y, !.fore = x] = Pointing(s, d, x, y)
      BY <1>1 DEF Screens, Pointing
    <3>3. QED
      BY <3>1, <3>2, Zenon
  <2>2. QED
    BY <2>1, Zenon DEF Key
<1>5. d \in Maybe(Displays) /\ s.cl[s.forecv[d]] \in Maybe(Alive(s))
  BY <1>3 DEF Maybe
<1>6. /\ Settled(t, None, None) /\ Shown(t) /\ (\A e : Aside(s, t, e)) /\ Existing(t) = Existing(s) /\ Pointed(s, t)
      /\ t.display = d /\ t.fore = s.dfore[d] /\ t.flayer = s.cl[s.forecv[d]] /\ OnOthers(t) = OnOthers(s)
  BY <1>1, <1>3, <1>4, <1>5, PointedFine
<1>7. t.displays = s.displays /\ t.dfore = s.dfore /\ t.forecv = s.forecv /\ t.cl = s.cl
  BY <1>6 DEF Pointed, SameLayers, Still, Framed
<1>8. Fine(t)
  BY <1>6, <1>7 DEF Fine, ForeSeen
<1>9. QED
  BY <1>3, <1>6, <1>7, <1>8 DEF Current

\* The end of an event.
LEMMA EndSound ==
  ASSUME NEW t, Fine(t), NEW u, u = [t EXCEPT !.display = None]
  PROVE  Fine(u) /\ u.display = None /\ Existing(u) = Existing(t) /\ u.displays = t.displays /\ u.cvs = t.cvs
         /\ \A d : Aside(t, u, d)
         /\ \A c : Shows(u, c) = Shows(t, c)
<1>1. Settled(t, None, None) /\ Shown(t) /\ ForeSeen(t) /\ t \in Screens /\ Core(t, None)
  BY SettledFew DEF Fine
<1>2. u = Pointing(t, None, t.fore, t.flayer) /\ None \in Maybe(Displays) /\ t.fore \in Maybe(Existing(t)) /\ t.flayer \in Maybe(Alive(t))
  BY <1>1, PointIs DEF Core, Points, Maybe
<1>3. /\ Settled(u, None, None) /\ Shown(u) /\ (\A d : Aside(t, u, d)) /\ Existing(u) = Existing(t) /\ Pointed(t, u)
      /\ u.display = None /\ u.fore = t.fore /\ \A c : Shows(u, c) = Shows(t, c)
  BY <1>1, <1>2, PointedFine
<1>4. u.displays = t.displays /\ u.dfore = t.dfore /\ u.cvs = t.cvs
  BY <1>3 DEF Pointed, Still, Framed
<1>5. ForeSeen(u)
  BY <1>1, <1>3, <1>4 DEF ForeSeen
<1>6. QED
  BY <1>3, <1>4, <1>5 DEF Fine

\* ResizeLayersToCanvases leaves settled screens settled.
LEMMA RefitSettled ==
  ASSUME NEW t, NEW x, NEW w, Settled(t, x, w), Shown(t), NEW d \in Displays, NEW u, u = ResizeLayersToCanvases(t, d)
  PROVE  Settled(u, x, w) /\ Shown(u) /\ Calm(t, u) /\ Resized(t, u) /\ Existing(u) = Existing(t) /\ \A e : Aside(t, u, e)
<1>1. Core(u, None) /\ Calm(t, u) /\ Resized(t, u)
  BY SettledFew, RefitAll
<1>2. Still(t, u)
  BY <1>1 DEF Calm, Still, Framed
<1>3. Existing(u) = Existing(t) /\ \A c \in Canvases : Shows(u, c) = Shows(t, c)
  BY <1>1 DEF Resized, Steady
<1>4. Settled(u, x, w) /\ \A e : Aside(t, u, e)
  BY <1>1, <1>2, <1>3, SettledStill
<1>5. Shown(u)
  BY <1>1 DEF Resized, Steady, Shown, Calm
<1>6. QED
  BY <1>1, <1>3, <1>4, <1>5

\* The focus of d is right again.
LEMMA FocusBack ==
  ASSUME NEW t, NEW d \in Displays, Settled(t, d, None), Focused(t, d), Filed(t)
  PROVE  Settled(t, None, None)
<1>1. Core(t, None) /\ ToSet(t.mru) = Existing(t) \ {None} /\ LayoutsKept(t)
  BY DEF Settled
<1>2. \A e \in Displays : Region(t, e) /\ (e # None => Focused(t, e))
  BY DEF Settled
<1>3. QED
  BY <1>1, <1>2 DEF Settled

\* The saved layouts are the same.
LEMMA FiledSame ==
  ASSUME NEW t, NEW u, Settled(t, None, None), u.layouts = t.layouts, u.lay = t.lay
  PROVE  Filed(u)
BY DEF Settled, Filed

\* The focus of a settled display may be changed.
LEMMA FocusLeft ==
  ASSUME NEW t, Settled(t, None, None), NEW d \in Displays
  PROVE  Settled(t, d, None)
BY Apart DEF Settled

\* The end of only, remove and the like.
LEMMA RefitActivate ==
  ASSUME NEW t, Settled(t, None, None), Shown(t), NEW d \in Displays, d \in ToSet(t.displays), t.display = d,
         NEW u, u = Activate(ResizeLayersToCanvases(t, d))
  PROVE  Moves(t, d, u) /\ Existing(u) = Existing(t)
<1>1. PICK v : v = ResizeLayersToCanvases(t, d)
  OBVIOUS
<1>2. Settled(v, None, None) /\ Shown(v) /\ Calm(t, v) /\ Existing(v) = Existing(t) /\ Aside(t, v, d)
  BY <1>1, RefitSettled
<1>3. v.display = d /\ v.displays = t.displays /\ d # None
  BY <1>2, Apart DEF Calm
<1>4. Settled(u, None, None) /\ Shown(u) /\ ForeSeen(u) /\ Activated(v, d, u) /\ Aside(v, u, d)
  BY <1>1, <1>2, <1>3, ActivateSettled
<1>5. Existing(u) = Existing(v)
  BY <1>4 DEF Activated, Resized, Steady
<1>6. Aside(t, u, d)
  BY <1>2, <1>4, AsideJoins
<1>7. QED
  BY <1>2, <1>4, <1>5, <1>6 DEF Moves, Fine

\* only
LEMMA OneCanvasSound ==
  ASSUME NEW t, NEW d, Current(t, d), NEW u, u = Activate(OneCanvas(t, d))
  PROVE  Moves(t, d, u) /\ Existing(u) = Existing(t)
<1> DEFINE cv == t.forecv[d]
           C == Others(t, d, cv)
<1>1. /\ Settled(t, None, None) /\ Shown(t) /\ d \in Displays /\ d \in ToSet(t.displays) /\ t.display = d
      /\ cv \in Canvases /\ t.owner[cv] = d /\ t.dfore[d] = Shows(t, cv)
  BY CurrentFacts
<1>2. PICK v : v = FreeOthers(t, d, cv)
  OBVIOUS
<1>3. FreedSome(t, d, v, C)
  BY <1>1, <1>2, FocusLeft, FreeOthersSound
<1>4. cv \notin C
  BY DEF Others
<1> HIDE DEF cv, C
<1>5. /\ Settled(v, d, None) /\ Shown(v) /\ Aside(t, v, d) /\ Beside(t, v) /\ v.display = d /\ Existing(v) = Existing(t)
      /\ v.owner[cv] = d /\ Shows(v, cv) = Shows(t, cv) /\ v.dfore[d] = t.dfore[d]
  BY <1>1, <1>3, <1>4 DEF FreedSome
<1>6. v.forecv[d] = cv
  BY <1>3, <1>4 DEF FreedSome, cv
<1>7. v.displays = t.displays
  BY <1>5 DEF Beside
<1>8. Focused(v, d)
  <2>1. cv \in ToSet(v.cvs[d])
    BY <1>1, <1>5, SettledOwner
  <2>2. QED
    BY <1>1, <1>5, <1>6, <1>7, <2>1 DEF Focused
<1>9. Settled(v, None, None)
  BY <1>1, <1>5, <1>8, FocusBack, FiledSame DEF Beside
<1>10. Moves(v, d, u) /\ Existing(u) = Existing(v)
  BY <1>1, <1>2, <1>5, <1>7, <1>9, RefitActivate DEF OneCanvas, cv
<1>11. QED
  BY <1>5, <1>10, MovesJoins

\* Setting a field to what it is.
LEMMA SameFields ==
  ASSUME NEW t \in Screens, NEW d \in Displays
  PROVE  /\ [t.forecv EXCEPT ![d] = t.forecv[d]] = t.forecv /\ [t.dfore EXCEPT ![d] = t.dfore[d]] = t.dfore
         /\ [t.dother EXCEPT ![d] = t.dother[d]] = t.dother /\ [t.dlayout EXCEPT ![d] = t.dlayout[d]] = t.dlayout
<1>1. /\ t.forecv \in [Displays -> Maybe(Canvases)] /\ t.dfore \in [Displays -> Maybe(Windows)]
      /\ t.dother \in [Displays -> Maybe(Windows)] /\ t.dlayout \in [Displays -> Maybe(Layouts)]
  BY Types DEF OthersTyped
<1>2. QED
  BY <1>1

\* Setting D_forecv only.
LEMMA FocusCanvas ==
  ASSUME NEW t \in Screens, NEW d \in Displays, NEW c
  PROVE  [t EXCEPT !.forecv[d] = c]
           = Focusing(t, d, c, t.dfore[d], t.dother[d], t.dlayout[d], t.display, t.fore, t.flayer)
<1>1. /\ [t.forecv EXCEPT ![d] = t.forecv[d]] = t.forecv /\ [t.dfore EXCEPT ![d] = t.dfore[d]] = t.dfore
      /\ [t.dother EXCEPT ![d] = t.dother[d]] = t.dother /\ [t.dlayout EXCEPT ![d] = t.dlayout[d]] = t.dlayout
  BY SameFields
<1>2. QED
  BY <1>1 DEF Focusing, Screens

WithWindow(t, d, w, l) == [t EXCEPT !.dfore[d] = w, !.flayer = l]

\* Setting D_fore and flayer only.
LEMMA FocusWindow ==
  ASSUME NEW t \in Screens, NEW d \in Displays, NEW w, NEW l
  PROVE  WithWindow(t, d, w, l) = Focusing(t, d, t.forecv[d], w, t.dother[d], t.dlayout[d], t.display, t.fore, l)
<1>1. /\ [t.forecv EXCEPT ![d] = t.forecv[d]] = t.forecv /\ [t.dfore EXCEPT ![d] = t.dfore[d]] = t.dfore
      /\ [t.dother EXCEPT ![d] = t.dother[d]] = t.dother /\ [t.dlayout EXCEPT ![d] = t.dlayout[d]] = t.dlayout
  BY SameFields
<1>2. QED
  BY <1>1, ZenonT(40) DEF WithWindow, Focusing, Screens

WithFocus(t, d, c, w, o, l) == [t EXCEPT !.forecv[d] = c, !.dfore[d] = w, !.fore = w, !.dother[d] = o, !.flayer = l]

\* Setting D_forecv, D_fore, D_other, fore and flayer.
LEMMA FocusAll ==
  ASSUME NEW t \in Screens, NEW d \in Displays, NEW c, NEW w, NEW o, NEW l
  PROVE  WithFocus(t, d, c, w, o, l) = Focusing(t, d, c, w, o, t.dlayout[d], t.display, w, l)
<1>1. /\ [t.forecv EXCEPT ![d] = t.forecv[d]] = t.forecv /\ [t.dfore EXCEPT ![d] = t.dfore[d]] = t.dfore
      /\ [t.dother EXCEPT ![d] = t.dother[d]] = t.dother /\ [t.dlayout EXCEPT ![d] = t.dlayout[d]] = t.dlayout
  BY SameFields
<1>2. QED
  BY <1>1, ZenonT(40) DEF WithFocus, Focusing, Screens

\* Setting D_layout only.
LEMMA FocusLayout ==
  ASSUME NEW t \in Screens, NEW d \in Displays, NEW y
  PROVE  [t EXCEPT !.dlayout[d] = y]
           = Focusing(t, d, t.forecv[d], t.dfore[d], t.dother[d], y, t.display, t.fore, t.flayer)
<1>1. /\ [t.forecv EXCEPT ![d] = t.forecv[d]] = t.forecv /\ [t.dfore EXCEPT ![d] = t.dfore[d]] = t.dfore
      /\ [t.dother EXCEPT ![d] = t.dother[d]] = t.dother /\ [t.dlayout EXCEPT ![d] = t.dlayout[d]] = t.dlayout
  BY SameFields
<1>2. QED
  BY <1>1 DEF Focusing, Screens

\* Setting D_other only.
LEMMA FocusOther ==
  ASSUME NEW t \in Screens, NEW d \in Displays, NEW o
  PROVE  [t EXCEPT !.dother[d] = o]
           = Focusing(t, d, t.forecv[d], t.dfore[d], o, t.dlayout[d], t.display, t.fore, t.flayer)
<1>1. /\ [t.forecv EXCEPT ![d] = t.forecv[d]] = t.forecv /\ [t.dfore EXCEPT ![d] = t.dfore[d]] = t.dfore
      /\ [t.dother EXCEPT ![d] = t.dother[d]] = t.dother /\ [t.dlayout EXCEPT ![d] = t.dlayout[d]] = t.dlayout
  BY SameFields
<1>2. QED
  BY <1>1 DEF Focusing, Screens

\* What a canvas of a display shows, exists.
LEMMA CanvasAlive ==
  ASSUME NEW t, Core(t, None), NEW c \in Canvases
  PROVE  Shows(t, c) \in Maybe(Existing(t)) /\ t.cl[c] \in Maybe(Alive(t))
<1>1. CASE t.cl[c] = None
  BY <1>1, Apart DEF Shows, Layer2Window, Bottom, IsOverlay, Maybe
<1>2. CASE t.cl[c] # None
  <2>1. t.cl[c] \in Alive(t)
    BY <1>2 DEF Core, Homes
  <2>2. Bottom(t, t.cl[c]) \in Existing(t) \union Owned(t)
    BY <2>1, BottomAlive
  <2>3. Bottom(t, t.cl[c]) \in Windows => Bottom(t, t.cl[c]) \in Existing(t)
    BY <2>2, Apart DEF Owned
  <2>4. QED
    BY <2>1, <2>3 DEF Shows, Layer2Window, Maybe
<1>3. QED
  BY <1>1, <1>2

\* focus
LEMMA FocusSoundOn ==
  ASSUME NEW t, NEW d, Current(t, d), NEW c \in ToSet(t.cvs[d]), NEW u, u = FocusOn(t, d, c)
  PROVE  Moves(t, d, u) /\ Existing(u) = Existing(t)
<1> DEFINE w == Shows(t, c)
           o == IF t.dother[d] = w THEN None ELSE t.dother[d]
<1>1. /\ Settled(t, None, None) /\ Shown(t) /\ d \in Displays /\ d \in ToSet(t.displays) /\ t.display = d /\ Core(t, None)
      /\ t \in Screens
  BY CurrentFacts
<1>2. c \in Canvases /\ t.owner[c] = d /\ d # None
  BY <1>1, SettledOwner, Apart
<1>3. /\ t.cl[c] \in Maybe(Alive(t)) /\ w \in Maybe(Existing(t)) /\ t.dother[d] \in Maybe(Existing(t))
      /\ t.dlayout[d] \in Maybe(ToSet(t.layouts))
  BY <1>1, <1>2, CanvasAlive DEF Core, Points, Settled, LayoutsKept
<1>4. o \in Maybe(Existing(t)) /\ c \in Maybe(Canvases) /\ d \in Maybe(Displays)
  BY <1>1, <1>2, <1>3 DEF Maybe
<1>5. u = Focusing(t, d, c, w, o, t.dlayout[d], t.display, w, t.cl[c])
  <2>1. WithFocus(t, d, c, w, o, t.cl[c]) = Focusing(t, d, c, w, o, t.dlayout[d], t.display, w, t.cl[c])
    BY <1>1, FocusAll
  <2>2. u = [t EXCEPT !.forecv[d] = c, !.dfore[d] = w, !.fore = w, !.dother[d] = o, !.flayer = t.cl[c]]
    BY <1>1 DEF FocusOn, Screens
  <2>3. QED
    BY <2>1, <2>2, Zenon DEF WithFocus
<1> HIDE DEF w, o
<1>6. /\ Refocused(t, d, u) /\ Aside(t, u, d) /\ u.forecv[d] = c /\ u.dfore[d] = w /\ u.fore = w
  BY <1>1, <1>2, <1>3, <1>4, <1>5, FocusLeft, FocusingSound
<1>7. /\ Settled(u, d, None) /\ Shown(u) /\ u.displays = t.displays /\ u.cvs = t.cvs /\ Existing(u) = Existing(t) /\ Shows(u, c) = w
  BY <1>1, <1>6 DEF Refocused, w
<1>8. Focused(u, d)
  BY <1>1, <1>6, <1>7 DEF Focused
<1>9. Settled(u, None, None) /\ ForeSeen(u)
  <2>1. Filed(u)
    BY <1>1, <1>6, FiledSame DEF Refocused
  <2>2. QED
    BY <1>1, <1>6, <1>7, <1>8, <2>1, FocusBack DEF ForeSeen
<1>10. QED
  BY <1>6, <1>7, <1>9 DEF Moves, Fine

\* remove
LEMMA RemCanvasSound ==
  ASSUME NEW t, NEW d, Current(t, d), NEW to \in ToSet(t.cvs[d]), to # t.forecv[d], NEW u, u = Activate(RemCanvas(t, d, to))
  PROVE  Moves(t, d, u) /\ Existing(u) = Existing(t)
<1> DEFINE cv == t.forecv[d]
<1>1. /\ Settled(t, None, None) /\ Shown(t) /\ d \in Displays /\ d \in ToSet(t.displays) /\ t.display = d /\ Core(t, None)
      /\ t \in Screens /\ cv \in Canvases /\ t.owner[cv] = d
  BY CurrentFacts
<1>2. to \in Canvases /\ t.owner[to] = d /\ d # None
  BY <1>1, SettledOwner, Apart
<1>3. PICK a : a = [t EXCEPT !.forecv[d] = to]
  OBVIOUS
<1>4. Refocused(t, d, a) /\ Aside(t, a, d) /\ a.forecv[d] = to /\ a.display = d
  <2>1. a = Focusing(t, d, to, t.dfore[d], t.dother[d], t.dlayout[d], t.display, t.fore, t.flayer)
    BY <1>1, <1>3, FocusCanvas
  <2>2. /\ t.dfore[d] \in Maybe(Existing(t)) /\ t.dother[d] \in Maybe(Existing(t)) /\ t.dlayout[d] \in Maybe(ToSet(t.layouts))
        /\ t.fore \in Maybe(Existing(t)) /\ t.flayer \in Maybe(Alive(t)) /\ to \in Maybe(Canvases) /\ t.display \in Maybe(Displays)
    BY <1>1, <1>2 DEF Core, Points, Settled, LayoutsKept, Maybe
  <2>3. Settled(t, d, None)
    BY <1>1, FocusLeft
  <2>4. QED
    BY <1>1, <2>1, <2>2, <2>3, FocusingSound
<1>5. /\ Settled(a, d, None) /\ Shown(a) /\ a.displays = t.displays /\ Existing(a) = Existing(t)
      /\ a.owner = t.owner
  BY <1>1, <1>4 DEF Refocused, SameLayers
<1>6. PICK v : v = FreeCanvas(a, cv)
  OBVIOUS
<1>7. FreedCanvas(a, d, cv, v)
  BY <1>1, <1>4, <1>5, <1>6, FreeCanvasSound
<1>8. /\ Settled(v, d, None) /\ Shown(v) /\ Aside(a, v, d) /\ v.displays = t.displays /\ v.display = d
      /\ Existing(v) = Existing(t) /\ v.forecv[d] = to /\ v.owner[to] = d
  <2>1. v.forecv[d] = IF a.forecv[d] = cv THEN None ELSE a.forecv[d]
    BY <1>7 DEF FreedCanvas
  <2>2. v.owner[to] = IF to = cv THEN None ELSE a.owner[to]
    BY <1>2, <1>7 DEF FreedCanvas
  <2>3. QED
    BY <1>2, <1>4, <1>5, <1>7, <2>1, <2>2 DEF FreedCanvas, Beside
<1>9. PICK x : x = [v EXCEPT !.dfore[d] = Shows(v, to), !.flayer = v.cl[to]]
  OBVIOUS
<1>10. Refocused(v, d, x) /\ Aside(v, x, d) /\ x.forecv[d] = to /\ x.dfore[d] = Shows(v, to) /\ x.display = d
  <2>1. v \in Screens /\ Core(v, None)
    BY <1>8, SettledFew
  <2>2. x = Focusing(v, d, v.forecv[d], Shows(v, to), v.dother[d], v.dlayout[d], v.display, v.fore, v.cl[to])
    <3>1. WithWindow(v, d, Shows(v, to), v.cl[to])
             = Focusing(v, d, v.forecv[d], Shows(v, to), v.dother[d], v.dlayout[d], v.display, v.fore, v.cl[to])
      BY <1>1, <2>1, FocusWindow
    <3>2. QED
      BY <1>9, <3>1, Zenon DEF WithWindow
  <2>3. /\ v.dother[d] \in Maybe(Existing(v)) /\ v.dlayout[d] \in Maybe(ToSet(v.layouts)) /\ v.fore \in Maybe(Existing(v))
        /\ v.forecv[d] \in Maybe(Canvases) /\ v.display \in Maybe(Displays)
    BY <1>1, <1>2, <1>8, <2>1 DEF Core, Points, Settled, LayoutsKept, Maybe
  <2>4. Shows(v, to) \in Maybe(Existing(v)) /\ v.cl[to] \in Maybe(Alive(v))
    BY <1>2, <2>1, CanvasAlive
  <2>5. QED
    BY <1>1, <1>8, <2>2, <2>3, <2>4, FocusingSound
<1>11. /\ Settled(x, d, None) /\ Shown(x) /\ x.displays = t.displays /\ Existing(x) = Existing(t) /\ Shows(x, to) = Shows(v, to)
       /\ x.owner = v.owner
  BY <1>8, <1>10 DEF Refocused, SameLayers
<1>12. Focused(x, d)
  <2>1. to \in ToSet(x.cvs[d])
    BY <1>1, <1>2, <1>8, <1>11, SettledOwner
  <2>2. QED
    BY <1>1, <1>10, <1>11, <2>1 DEF Focused
<1>13. Settled(x, None, None)
  <2>1. a.layouts = t.layouts /\ a.lay = t.lay
    BY <1>4 DEF Refocused
  <2>2. v.layouts = a.layouts /\ v.lay = a.lay
    BY <1>7 DEF FreedCanvas, Beside
  <2>3. x.layouts = v.layouts /\ x.lay = v.lay
    BY <1>10 DEF Refocused
  <2>4. Filed(x)
    BY <1>1, <2>1, <2>2, <2>3, FiledSame
  <2>5. QED
    BY <1>1, <1>11, <1>12, <2>4, FocusBack
<1>14. u = Activate(ResizeLayersToCanvases(x, d))
  BY <1>3, <1>6, <1>9, Zenon DEF RemCanvas, With
<1>15. Moves(x, d, u) /\ Existing(u) = Existing(x)
  BY <1>1, <1>10, <1>11, <1>13, <1>14, RefitActivate
<1>16. Aside(t, x, d)
  BY <1>4, <1>8, <1>10, AsideJoins
<1>17. QED
  BY <1>11, <1>15, <1>16, MovesJoins

-----------------------------------------------------------------------------
(* New canvases.                                                             *)

\* The canvases in C, unused before, are on the display d.
Placing(t, d, q, f, C, z) ==
  [t EXCEPT !.cvs[d] = q, !.forecv[d] = f, !.owner = [c \in Canvases |-> IF c \in C THEN d ELSE t.owner[c]], !.size = z]

PlacingFacts(t, d, q, f, C, z, u) ==
  /\ u.cvs = [t.cvs EXCEPT ![d] = q] /\ u.forecv = [t.forecv EXCEPT ![d] = f] /\ u.size = z
  /\ u.owner = [c \in Canvases |-> IF c \in C THEN d ELSE t.owner[c]]
  /\ u.cl = t.cl /\ u.on = t.on /\ u.below = t.below /\ u.base = t.base /\ u.blocking = t.blocking
  /\ u.save = t.save /\ u.blocked = t.blocked /\ u.kind = t.kind /\ u.flayer = t.flayer
  /\ Beside(t, u) /\ Pointers(t, u) /\ Whole(u)

\* Unused canvases are given to a display, field by field.
LEMMA PlacingFields ==
  ASSUME NEW t \in Screens, NEW d, NEW q, NEW f, NEW C, NEW z, NEW u, u = Placing(t, d, q, f, C, z)
  PROVE  PlacingFacts(t, d, q, f, C, z, u)
<1> DEFINE cvs == [t.cvs EXCEPT ![d] = q]
           forecv == [t.forecv EXCEPT ![d] = f]
           owner == [c \in Canvases |-> IF c \in C THEN d ELSE t.owner[c]]
<1>1. u = [t EXCEPT !.cvs = cvs, !.forecv = forecv, !.owner = owner, !.size = z]
  BY DEF Placing, Screens
<1> HIDE DEF cvs, forecv, owner
<1>2. u.cvs = cvs /\ u.forecv = forecv /\ u.owner = owner /\ u.size = z
  BY <1>1 DEF Screens
<1>3. /\ u.cl = t.cl /\ u.on = t.on /\ u.below = t.below /\ u.base = t.base /\ u.blocking = t.blocking
  BY <1>1 DEF Screens
<1>4. u.save = t.save /\ u.blocked = t.blocked /\ u.kind = t.kind /\ u.flayer = t.flayer
  BY <1>1 DEF Screens
<1>5. Beside(t, u)
  BY <1>1 DEF Screens, Beside
<1>6. Pointers(t, u)
  BY <1>1 DEF Screens, Pointers
<1>7. Whole(u)
  BY <1>1 DEF Screens, Whole
<1>8. QED
  BY <1>2, <1>3, <1>4, <1>5, <1>6, <1>7 DEF PlacingFacts, cvs, forecv, owner

\* The regions that a display gets.
NewRegion(t, d, q, C) ==
  /\ q \in Seq(Canvases) /\ IsInjective(q) /\ Len(q) <= MaxRegions
  /\ C \subseteq Canvases /\ \A c \in C : t.owner[c] = None
  /\ \A c : c \in ToSet(q) <=> c \in Canvases /\ (c \in C \/ t.owner[c] = d)

\* Unused canvases are given to a display.
LEMMA PlacingSound ==
  ASSUME NEW t, NEW d \in Displays, Settled(t, d, None), NEW q, NEW C, NewRegion(t, d, q, C), NEW f \in Maybe(Canvases),
         NEW z \in [Layers -> Sizes], NEW u, u = Placing(t, d, q, f, C, z)
  PROVE  /\ Settled(u, d, None) /\ Aside(t, u, d) /\ Existing(u) = Existing(t) /\ OnOthers(u) = OnOthers(t)
         /\ (\A c : Shows(u, c) = Shows(t, c)) /\ (\A c \in C : t.cl[c] = None) /\ u.cvs[d] = q /\ u.forecv[d] = f
<1>1. t \in Screens /\ Core(t, None) /\ LayersTyped(t) /\ LooksTyped(t) /\ OthersTyped(t) /\ d # None
  BY SettledFew, Types, Apart
<1>2. PlacingFacts(t, d, q, f, C, z, u)
  BY <1>1, PlacingFields
<1>3. /\ t.owner \in [Canvases -> Maybe(Displays)] /\ t.cvs \in [Displays -> Seq(Canvases)]
      /\ t.forecv \in [Displays -> Maybe(Canvases)]
  BY <1>1 DEF OthersTyped
<1>4. /\ u.cvs[d] = q /\ u.forecv[d] = f
      /\ \A e \in Displays : e # d => u.cvs[e] = t.cvs[e] /\ u.forecv[e] = t.forecv[e]
      /\ \A c \in Canvases : u.owner[c] = IF c \in C THEN d ELSE t.owner[c]
  BY <1>2, <1>3 DEF PlacingFacts
<1>5. /\ u.cl = t.cl /\ u.on = t.on /\ u.below = t.below /\ u.base = t.base /\ u.blocking = t.blocking
      /\ u.save = t.save /\ u.blocked = t.blocked /\ u.flayer = t.flayer
      /\ u.mru = t.mru /\ u.dfore = t.dfore /\ u.dother = t.dother /\ u.fore = t.fore
  BY <1>2 DEF PlacingFacts, Pointers
<1>6. /\ Existing(u) = Existing(t) /\ OnOthers(u) = OnOthers(t)
      /\ \A l : Bottom(u, l) = Bottom(t, l) /\ Layer2Window(u, l) = Layer2Window(t, l)
      /\ \A l : (Bare(u, l) <=> Bare(t, l)) /\ (Top(u, l) <=> Top(t, l))
  BY <1>5 DEF Existing, OnOthers, Bottom, Layer2Window, Bare, Top
<1>7. Owned(t) \subseteq Owned(u) /\ Alive(t) \subseteq Alive(u)
  <2>1. Owned(t) \subseteq Owned(u)
    BY <1>1, <1>4 DEF Owned
  <2>2. QED
    BY <1>6, <2>1 DEF Alive
<1>8. u \in Screens
  <2>1. LayersTyped(u)
    BY <1>1, <1>5 DEF LayersTyped
  <2>2. LooksTyped(u) /\ Whole(u)
    BY <1>1, <1>2 DEF LooksTyped, PlacingFacts
  <2>3. /\ u.owner \in [Canvases -> Maybe(Displays)] /\ u.cvs \in [Displays -> Seq(Canvases)]
        /\ u.forecv \in [Displays -> Maybe(Canvases)]
    BY <1>2, <1>3 DEF PlacingFacts, NewRegion, Maybe
  <2>4. Beside(t, u) /\ Pointers(t, u)
    BY <1>2 DEF PlacingFacts
  <2>5. OthersTyped(u)
    BY <1>1, <2>3, <2>4 DEF OthersTyped, Beside, Pointers
  <2>6. QED
    BY <2>1, <2>2, <2>5, IsScreen
<1>9. Core(u, None)
  <2>1. Lists(u) /\ Ranked(u) /\ Listed(u)
    BY <1>1, <1>5, <1>6 DEF Core, Lists, Ranked, Listed
  <2>2. Homes(u)
    <3>1. Homes(t)
      BY <1>1 DEF Core
    <3>2. \A c \in Canvases : t.owner[c] # None => u.owner[c] # None
      BY <1>1, <1>4
    <3>3. QED
      BY <1>5, <1>6, <1>7, <3>1, <3>2 DEF Homes
  <2>3. Based(u)
    <3>1. Based(t)
      BY <1>1 DEF Core
    <3>2. QED
      BY <1>5, <1>6, <1>7, <3>1 DEF Based
  <2>4. Covered(u)
    BY <1>1, <1>5, <1>6 DEF Core, Covered
  <2>5. Kept(u, None)
    BY <1>1, <1>5, <1>6 DEF Core, Kept
  <2>6. Saved(u)
    BY <1>1, <1>5, <1>6, <1>7 DEF Core, Saved
  <2>7. Blocks(u)
    BY <1>1, <1>5, <1>6 DEF Core, Blocks
  <2>8. Points(u)
    BY <1>1, <1>5, <1>6, <1>7 DEF Core, Points, Maybe
  <2>9. QED
    BY <1>8, <2>1, <2>2, <2>3, <2>4, <2>5, <2>6, <2>7, <2>8 DEF Core
<1>10. \A c : Shows(u, c) = Shows(t, c)
  BY <1>5, <1>6 DEF Shows
<1>11. \A c \in C : c \in Canvases /\ t.owner[c] = None /\ t.cl[c] = None
  <2>1. \A c \in C : c \in Canvases /\ t.owner[c] = None
    BY DEF NewRegion
  <2>2. QED
    BY <1>1, <2>1 DEF Core, Homes
<1>12. Aside(t, u, d)
  BY <1>1, <1>4, <1>10, <1>11, Apart DEF Aside
<1>13. u.displays = t.displays /\ u.dlayout = t.dlayout /\ u.layouts = t.layouts /\ u.lay = t.lay /\ u.last = t.last
  BY <1>2 DEF PlacingFacts, Beside
<1>14. LayoutsKept(u)
  BY <1>6, <1>13 DEF Settled, LayoutsKept
<1>15. ASSUME NEW e \in Displays PROVE Region(u, e) /\ (e # d => Focused(u, e))
  <2>1. Region(t, e)
    BY DEF Settled
  <2>2. CASE e = d
    <3>1. ToSet(q) = {c \in Canvases : u.owner[c] = d}
      BY <1>4 DEF NewRegion
    <3>2. QED
      BY <1>4, <2>2, <3>1 DEF Region, NewRegion
  <2>3. CASE e # d
    <3>1. \A c \in Canvases : u.owner[c] = e <=> t.owner[c] = e
      BY <1>4, <1>11, <2>3, Apart
    <3>2. Region(u, e)
      BY <1>4, <2>1, <2>3, <3>1 DEF Region
    <3>3. Focused(t, e)
      BY <2>3 DEF Settled
    <3>4. Focused(u, e)
      BY <1>4, <1>5, <1>10, <1>13, <2>3, <3>3 DEF Focused
    <3>5. QED
      BY <3>2, <3>4
  <2>4. QED
    BY <2>2, <2>3
<1>16. Settled(u, d, None)
  BY <1>1, <1>5, <1>6, <1>9, <1>14, <1>15 DEF Settled
<1>17. QED
  BY <1>4, <1>6, <1>10, <1>11, <1>12, <1>16

\* A canvas that shows nothing gets its own blank layer.
WithBlank(t, c) == [t EXCEPT !.cl[c] = c, !.on[c] = <<c>>]

BlankFacts(t, c, u) ==
  /\ u.cl = [t.cl EXCEPT ![c] = c] /\ u.on = [t.on EXCEPT ![c] = <<c>>]
  /\ u.below = t.below /\ u.base = t.base /\ u.blocking = t.blocking /\ u.save = t.save /\ u.blocked = t.blocked
  /\ u.owner = t.owner /\ u.kind = t.kind /\ u.size = t.size /\ u.flayer = t.flayer /\ u.cvs = t.cvs /\ u.forecv = t.forecv
  /\ Beside(t, u) /\ Pointers(t, u) /\ Whole(u)

\* A canvas shows its own blank layer, field by field.
LEMMA BlankFields ==
  ASSUME NEW t \in Screens, NEW c, NEW u, u = WithBlank(t, c)
  PROVE  BlankFacts(t, c, u)
<1> DEFINE cl == [t.cl EXCEPT ![c] = c]
           on == [t.on EXCEPT ![c] = <<c>>]
<1>1. u = [t EXCEPT !.cl = cl, !.on = on]
  BY DEF WithBlank, Screens
<1> HIDE DEF cl, on
<1>2. u.cl = cl /\ u.on = on
  BY <1>1 DEF Screens
<1>3. /\ u.below = t.below /\ u.base = t.base /\ u.blocking = t.blocking /\ u.save = t.save /\ u.blocked = t.blocked
  BY <1>1 DEF Screens
<1>4. /\ u.owner = t.owner /\ u.kind = t.kind /\ u.size = t.size /\ u.flayer = t.flayer /\ u.cvs = t.cvs /\ u.forecv = t.forecv
  BY <1>1 DEF Screens
<1>5. Beside(t, u)
  BY <1>1 DEF Screens, Beside
<1>6. Pointers(t, u)
  BY <1>1 DEF Screens, Pointers
<1>7. Whole(u)
  BY <1>1 DEF Screens, Whole
<1>8. QED
  BY <1>2, <1>3, <1>4, <1>5, <1>6, <1>7 DEF BlankFacts, cl, on

\* It is as if SetCanvasWindow had put it there, but for the globals and the focus.
LEMMA BlankSound ==
  ASSUME NEW t, NEW d \in Displays, Settled(t, d, None), t.display = d, NEW c \in Canvases, t.owner[c] = d, t.cl[c] = None,
         NEW u, u = WithBlank(t, c)
  PROVE  /\ Settled(u, d, None) /\ Aside(t, u, d) /\ Existing(u) = Existing(t) /\ OnOthers(u) = OnOthers(t)
         /\ BlankFacts(t, c, u) /\ u.cl[c] = c /\ Shows(u, c) = None
         /\ \A x \in Canvases : x # c => u.cl[x] = t.cl[x] /\ Shows(u, x) = Shows(t, x)
<1>1. t \in Screens /\ Core(t, None) /\ LayersTyped(t) /\ LooksTyped(t) /\ OthersTyped(t) /\ d # None /\ d \in Maybe(Displays)
  BY SettledFew, Types, Apart DEF Maybe
<1>2. BlankFacts(t, c, u)
  BY <1>1, BlankFields
<1>3. PICK a : a = OffCanvas([t EXCEPT !.display = d], c)
  OBVIOUS
<1>4. None \notin Layers /\ c \in Layers /\ c # None
  BY Apart, WindowsAssumption DEF Layers
<1>5. Parted(t, d, c, a) /\ Framed(t, a) /\ Whole(a)
  BY <1>1, <1>3, <1>4, OffFields
<1>6. Shows(t, c) = None
  BY Apart DEF Shows, Layer2Window, Bottom, IsOverlay
<1>7. /\ a.on = t.on /\ a.cl = t.cl /\ a.dother = t.dother /\ a.dfore = t.dfore
  <2>1. /\ t.on \in [Layers -> Seq(Canvases)] /\ t.cl \in [Canvases -> Maybe(Layers)]
        /\ t.dfore \in [Displays -> Maybe(Windows)] /\ t.dother \in [Displays -> Maybe(Windows)]
    BY <1>1 DEF LayersTyped, OthersTyped
  <2>2. /\ a.on = [x \in Layers |-> IF x = t.cl[c] THEN RemoveFirst(t.on[x], c) ELSE t.on[x]]
        /\ a.cl = [t.cl EXCEPT ![c] = None] /\ a.dother = [t.dother EXCEPT ![d] = t.dother[d]]
        /\ a.dfore = [t.dfore EXCEPT ![d] = t.dfore[d]]
    BY <1>5, <1>6 DEF Parted
  <2>3. a.on = t.on
    BY <1>4, <2>1, <2>2
  <2>4. a.cl = t.cl
    BY <2>1, <2>2
  <2>5. a.dother = t.dother /\ a.dfore = t.dfore
    BY <2>1, <2>2
  <2>6. QED
    BY <2>3, <2>4, <2>5
<1>8. a = t
  <2>1. /\ a.cl = t.cl /\ a.owner = t.owner /\ a.on = t.on /\ a.below = t.below /\ a.base = t.base /\ a.start = t.start
        /\ a.kind = t.kind /\ a.blocking = t.blocking /\ a.size = t.size /\ a.save = t.save /\ a.blocked = t.blocked
    BY <1>5, <1>7 DEF Parted, Framed
  <2>2. /\ a.mru = t.mru /\ a.displays = t.displays /\ a.cvs = t.cvs /\ a.forecv = t.forecv /\ a.dfore = t.dfore
        /\ a.dother = t.dother /\ a.dlayout = t.dlayout /\ a.layouts = t.layouts /\ a.lay = t.lay /\ a.last = t.last
        /\ a.detachwin = t.detachwin /\ a.detachotherwin = t.detachotherwin
    BY <1>5, <1>7 DEF Parted, Framed
  <2>3. a.display = t.display /\ a.fore = t.fore /\ a.flayer = t.flayer
    BY <1>5 DEF Parted
  <2>4. Whole(a) /\ Whole(t)
    BY <1>1, <1>5, Types
  <2>5. QED
    BY <2>1, <2>2, <2>3, <2>4 DEF Whole
<1>9. PICK v : v = SetCanvasWindow(t, c, None)
  OBVIOUS
<1>10. Settled(v, d, None) /\ Placed(t, d, c, None, v) /\ Aside(t, v, d)
  BY <1>1, <1>9, SetSettled DEF Maybe
<1>11. v = OnCanvas(t, c, None)
  <2>1. FreeUnshown(t, t.cl[c]) = t
    BY DEF FreeUnshown
  <2>2. v = OnCanvas(FreeUnshown(a, t.cl[c]), c, None)
    BY <1>3, <1>9 DEF SetCanvasWindow
  <2>3. QED
    BY <1>8, <2>1, <2>2
<1>12. Landed(t, d, c, None, c, v) /\ Framed(t, v) /\ Whole(v)
  <2>1. c = WhereTo(t, c, None)
    BY DEF WhereTo
  <2>2. QED
    BY <1>1, <1>11, <2>1, OnFields
<1>13. t.on[c] = <<>>
  <2>1. \A x \in Canvases : t.cl[x] # c
    BY <1>1, <1>4, Apart DEF Core, Homes, Bottom, IsOverlay
  <2>2. ToSet(t.on[c]) = {}
    BY <1>1, <1>4, <2>1 DEF Core, Lists, ListsOf
  <2>3. t.on[c] \in Seq(Canvases)
    BY <1>1, <1>4 DEF LayersTyped
  <2>4. QED
    BY <2>2, <2>3, EmptyList
<1>14. Cons(c, t.on[c]) = <<c>>
  BY <1>13 DEF Cons
<1>15. SameLayers(v, u)
  <2>1. v.on = [t.on EXCEPT ![c] = Cons(c, t.on[c])] /\ v.cl = [t.cl EXCEPT ![c] = c] /\ v.mru = t.mru /\ v.owner = t.owner
    BY <1>12 DEF Landed, Framed
  <2>2. u.on = v.on
    BY <1>2, <1>14, <2>1 DEF BlankFacts
  <2>3. QED
    BY <1>2, <1>12, <2>1, <2>2 DEF BlankFacts, Landed, SameLayers, Pointers
<1>16. u.kind = v.kind /\ u.size = v.size /\ u.cvs = v.cvs /\ u.forecv = v.forecv /\ Beside(v, u)
  BY <1>2, <1>12 DEF BlankFacts, Landed, Framed, Beside
<1>17. u.display = t.display /\ u.fore = t.fore /\ u.flayer = t.flayer /\ u.dfore = t.dfore /\ u.dother = t.dother
  BY <1>2 DEF BlankFacts, Pointers
<1>18. v \in Screens /\ LayersTyped(v) /\ LooksTyped(v) /\ OthersTyped(v) /\ Core(v, None)
  BY <1>10, SettledFew, Types
<1>19. u \in Screens
  <2>1. LayersTyped(u) /\ LooksTyped(u)
    BY <1>1, <1>15, <1>16, <1>17, <1>18 DEF LayersTyped, LooksTyped, SameLayers
  <2>2. OthersTyped(u)
    BY <1>1, <1>15, <1>16, <1>17, <1>18 DEF OthersTyped, SameLayers, Beside
  <2>3. QED
    BY <1>2, <2>1, <2>2, IsScreen DEF BlankFacts
<1>20. /\ Existing(u) = Existing(v) /\ Owned(u) = Owned(v) /\ OnOthers(u) = OnOthers(v) /\ Alive(u) = Alive(v)
       /\ \A l : Bottom(u, l) = Bottom(v, l) /\ Layer2Window(u, l) = Layer2Window(v, l)
  BY <1>15, SameSound
<1>21. Existing(v) = Existing(t) /\ OnOthers(v) = OnOthers(t) /\ Alive(v) = Alive(t)
  BY <1>12 DEF Landed, Framed, Existing, OnOthers, Alive, Owned
<1>22. Core(u, None)
  <2>1. Points(u)
    BY <1>1, <1>17, <1>20, <1>21 DEF Core, Points
  <2>2. QED
    BY <1>15, <1>18, <1>19, <2>1, SameSound
<1>23. \A x : Shows(u, x) = Shows(v, x)
  BY <1>15, <1>20 DEF Shows, SameLayers
<1>24. u.cl[c] = c /\ Shows(u, c) = None /\ \A x \in Canvases : x # c => u.cl[x] = t.cl[x] /\ Shows(u, x) = Shows(t, x)
  BY <1>10, <1>15, <1>23 DEF Placed, SameLayers
<1>25. u.owner = t.owner /\ u.cvs = t.cvs
  BY <1>2 DEF BlankFacts
<1>26. Aside(t, u, d)
  <2>1. \A x \in Canvases : t.owner[x] # d => Shows(u, x) = Shows(t, x)
    BY <1>24
  <2>2. QED
    BY <1>25, <2>1 DEF Aside
<1>27. LayoutsKept(u) /\ ToSet(u.mru) = Existing(u) \ {None}
  <2>1. u.mru = t.mru /\ Beside(t, u)
    BY <1>2 DEF BlankFacts, Pointers
  <2>2. Existing(u) = Existing(t)
    BY <1>20, <1>21
  <2>3. QED
    BY <2>1, <2>2 DEF Settled, LayoutsKept, Beside
<1>28. ASSUME NEW e \in Displays PROVE Region(u, e) /\ (e # d => Focused(u, e))
  <2>1. Region(u, e)
    BY <1>25 DEF Settled, Region
  <2>2. ASSUME e # d PROVE Focused(u, e)
    <3>1. Focused(t, e)
      BY <2>2 DEF Settled
    <3>2. \A x \in Canvases : t.owner[x] = e => Shows(u, x) = Shows(t, x)
      BY <1>24, <2>2
    <3>3. \A x : x \in ToSet(t.cvs[e]) <=> x \in Canvases /\ t.owner[x] = e
      BY SettledOwner
    <3>4. u.forecv = t.forecv /\ u.dfore = t.dfore /\ u.dother = t.dother /\ Beside(t, u)
      BY <1>2 DEF BlankFacts, Pointers
    <3>5. QED
      BY <1>25, <3>1, <3>2, <3>3, <3>4 DEF Focused, Beside
  <2>3. QED
    BY <2>1, <2>2
<1>29. Settled(u, d, None)
  BY <1>1, <1>22, <1>27, <1>28 DEF Settled
<1>30. QED
  BY <1>2, <1>20, <1>21, <1>24, <1>26, <1>29

\* NewCanvases takes canvases that belong to no display.
LEMMA UnusedCanvases ==
  ASSUME NEW t, NEW n \in Nat, CanvasesLeft(t, n), NEW q, q = NewCanvases(t, n)
  PROVE  /\ q \in Seq(Canvases) /\ IsInjective(q) /\ Len(q) = n
         /\ \A c \in ToSet(q) : c \in Canvases /\ t.owner[c] = None
<1> DEFINE used == {c \in Canvases : t.owner[c] # None}
           p == Unused(CanvasPool, used)
<1>1. p \in Seq(Canvases) /\ IsInjective(p) /\ ToSet(p) = Canvases \ used
  BY UnusedIs, PoolsAssumption DEF Canvases
<1>2. Len(p) \in Nat /\ Cardinality(ToSet(p)) = Len(p) /\ DOMAIN p = 1 .. Len(p)
  BY <1>1, ListCount, LenProperties
<1>3. ToSet(p) = {c \in Canvases : t.owner[c] = None}
  BY <1>1
<1>4. n <= Len(p)
  BY <1>2, <1>3 DEF CanvasesLeft
<1>5. q = SubSeq(p, 1, n)
  BY DEF NewCanvases
<1> HIDE DEF p, used
<1>6. \A i \in 1 .. n : p[i] \in Canvases
  BY <1>1, <1>2, <1>4, ElementOfSeq
<1>7. q \in Seq(Canvases) /\ Len(q) = n /\ \A i \in 1 .. n : q[i] = p[i]
  <2>1. /\ SubSeq(p, 1, n) \in Seq(Canvases) /\ Len(SubSeq(p, 1, n)) = (IF 1 <= n THEN n - 1 + 1 ELSE 0)
        /\ \A i \in 1 .. n - 1 + 1 : SubSeq(p, 1, n)[i] = p[1 + i - 1]
    BY <1>6, SubSeqProperties
  <2>2. (IF 1 <= n THEN n - 1 + 1 ELSE 0) = n /\ n - 1 + 1 = n
    OBVIOUS
  <2>3. \A i \in 1 .. n : 1 + i - 1 = i
    OBVIOUS
  <2>4. QED
    BY <1>5, <2>1, <2>2, <2>3
<1>8. DOMAIN q = 1 .. n
  BY <1>7, LenProperties
<1>9. IsInjective(q)
  <2>1. \A i, j \in 1 .. Len(p) : p[i] = p[j] => i = j
    BY <1>1, <1>2 DEF IsInjective
  <2>2. \A i \in 1 .. n : i \in 1 .. Len(p)
    BY <1>2, <1>4
  <2>3. \A i, j \in 1 .. n : q[i] = q[j] => i = j
    BY <1>7, <2>1, <2>2
  <2>4. QED
    BY <1>8, <2>3, Zenon DEF IsInjective
<1>10. ASSUME NEW c \in ToSet(q) PROVE c \in ToSet(p)
  <2>1. PICK i \in 1 .. n : c = q[i]
    BY <1>8 DEF ToSet
  <2>2. i \in DOMAIN p /\ c = p[i]
    BY <1>2, <1>4, <1>7, <2>1
  <2>3. QED
    BY <2>2 DEF ToSet
<1>11. QED
  BY <1>3, <1>7, <1>9, <1>10

\* A new canvas belongs to no display.
LEMMA UnusedCanvas ==
  ASSUME NEW t, CanvasesLeft(t, 1), NEW c, c = Head(NewCanvases(t, 1))
  PROVE  c \in Canvases /\ t.owner[c] = None
<1>1. PICK q : q = NewCanvases(t, 1)
  OBVIOUS
<1>2. q \in Seq(Canvases) /\ Len(q) = 1 /\ \A x \in ToSet(q) : x \in Canvases /\ t.owner[x] = None
  BY <1>1, UnusedCanvases
<1>3. ToSet(q) # {}
  <2>1. q # <<>>
    BY <1>2
  <2>2. QED
    BY <1>2, <2>1, EmptyList
<1>4. Head(q) \in ToSet(q)
  BY <1>2, <1>3, HeadIn
<1>5. QED
  BY <1>1, <1>2, <1>4

\* Inserting an element that is new keeps a list without repetitions.
LEMMA InsertedIs ==
  ASSUME NEW S, NEW q \in Seq(S), IsInjective(q), NEW x \in S, x \notin ToSet(q), NEW i \in 1 .. Len(q) + 1
  PROVE  /\ InsertAt(q, i, x) \in Seq(S) /\ IsInjective(InsertAt(q, i, x)) /\ Len(InsertAt(q, i, x)) = Len(q) + 1
         /\ \A y : y \in ToSet(InsertAt(q, i, x)) <=> y = x \/ y \in ToSet(q)
<1> DEFINE n == Len(q)
<1>1. PICK u : u = InsertAt(q, i, x)
  OBVIOUS
<1>2. n \in Nat /\ DOMAIN q = 1 .. n /\ i \in 1 .. n + 1
  BY LenProperties
<1>3. /\ u \in Seq(S) /\ Len(u) = n + 1
      /\ \A j \in 1 .. n + 1 : u[j] = IF j < i THEN q[j] ELSE IF j = i THEN x ELSE q[j - 1]
  <2>1. /\ InsertAt(q, i, x) \in Seq(S) /\ Len(InsertAt(q, i, x)) = Len(q) + 1
        /\ \A j \in 1 .. Len(q) + 1 : InsertAt(q, i, x)[j] = IF j < i THEN q[j] ELSE IF j = i THEN x ELSE q[j - 1]
    BY <1>2, InsertAtShape
  <2>2. QED
    BY <1>1, <2>1
<1>4. DOMAIN u = 1 .. n + 1
  BY <1>3, LenProperties
<1>5. \A j \in 1 .. n : q[j] # x
  BY <1>2 DEF ToSet
<1>6. \A j, k \in 1 .. n : q[j] = q[k] => j = k
  BY <1>2 DEF IsInjective
<1> HIDE DEF n
<1>7. \A j, k \in 1 .. n + 1 : u[j] = u[k] => j = k
  <2>1. SUFFICES ASSUME NEW j \in 1 .. n + 1, NEW k \in 1 .. n + 1, u[j] = u[k] PROVE j = k
    OBVIOUS
  <2>2. CASE j = i
    <3>1. k < i => k \in 1 .. n
      BY <1>2
    <3>2. k > i => k - 1 \in 1 .. n
      BY <1>2
    <3>3. QED
      BY <1>2, <1>3, <1>5, <2>1, <2>2, <3>1, <3>2
  <2>3. CASE j < i
    <3>1. j \in 1 .. n
      BY <1>2, <2>3
    <3>2. k < i => k \in 1 .. n
      BY <1>2
    <3>3. k > i => k - 1 \in 1 .. n
      BY <1>2
    <3>4. QED
      BY <1>2, <1>3, <1>5, <1>6, <2>1, <2>3, <3>1, <3>2, <3>3
  <2>4. CASE j > i
    <3>1. j - 1 \in 1 .. n
      BY <1>2, <2>4
    <3>2. k < i => k \in 1 .. n
      BY <1>2
    <3>3. k > i => k - 1 \in 1 .. n
      BY <1>2
    <3>4. QED
      BY <1>2, <1>3, <1>5, <1>6, <2>1, <2>4, <3>1, <3>2, <3>3
  <2>5. QED
    BY <1>2, <2>2, <2>3, <2>4
<1>8. IsInjective(u)
  BY <1>4, <1>7 DEF IsInjective
<1>9. ASSUME NEW y PROVE y \in ToSet(u) <=> y = x \/ y \in ToSet(q)
  <2>1. ASSUME y \in ToSet(u) PROVE y = x \/ y \in ToSet(q)
    <3>1. PICK j \in 1 .. n + 1 : y = u[j]
      BY <1>4, <2>1 DEF ToSet
    <3>2. j < i => j \in DOMAIN q
      BY <1>2
    <3>3. j > i => j - 1 \in DOMAIN q
      BY <1>2
    <3>4. j < i \/ j = i \/ j > i
      BY <1>2
    <3>5. CASE j < i
      BY <1>3, <3>1, <3>2, <3>5 DEF ToSet
    <3>6. CASE j = i
      BY <1>3, <3>1, <3>6
    <3>7. CASE j > i
      <4>1. ~(j < i) /\ j # i
        BY <1>2, <3>7
      <4>2. y = q[j - 1]
        BY <1>3, <3>1, <4>1
      <4>3. QED
        BY <3>3, <3>7, <4>2 DEF ToSet
    <3>8. QED
      BY <3>4, <3>5, <3>6, <3>7
  <2>2. ASSUME y = x PROVE y \in ToSet(u)
    BY <1>2, <1>3, <1>4, <2>2 DEF ToSet
  <2>3. ASSUME y \in ToSet(q) PROVE y \in ToSet(u)
    <3>1. PICK j \in 1 .. n : y = q[j]
      BY <1>2, <2>3 DEF ToSet
    <3>2. j < i => j \in 1 .. n + 1 /\ u[j] = y
      BY <1>2, <1>3, <3>1
    <3>3. ~(j < i) => j + 1 \in 1 .. n + 1 /\ u[j + 1] = y
      BY <1>2, <1>3, <3>1
    <3>4. QED
      BY <1>4, <3>2, <3>3 DEF ToSet
  <2>4. QED
    BY <2>1, <2>2, <2>3
<1>10. QED
  BY <1>1, <1>3, <1>8, <1>9 DEF n

\* A new canvas with a blank layer is on the display d.
Peopled(t, d, c, q, f, z) ==
  [t EXCEPT !.owner[c] = d, !.cl[c] = c, !.on[c] = <<c>>, !.cvs[d] = q, !.forecv[d] = f, !.size = z]

\* A new blank canvas, in named steps.
LEMMA PeopledIs ==
  ASSUME NEW t \in Screens, NEW d \in Displays, NEW c \in Canvases, NEW q, NEW f, NEW z
  PROVE  Peopled(t, d, c, q, f, z) = WithBlank(Placing(t, d, q, f, {c}, z), c)
<1> DEFINE owner == [t.owner EXCEPT ![c] = d]
           owners == [x \in Canvases |-> IF x \in {c} THEN d ELSE t.owner[x]]
           cl == [t.cl EXCEPT ![c] = c]
           on == [t.on EXCEPT ![c] = <<c>>]
           cvs == [t.cvs EXCEPT ![d] = q]
           forecv == [t.forecv EXCEPT ![d] = f]
<1>1. owner = owners
  <2>1. t.owner \in [Canvases -> Maybe(Displays)]
    BY Types DEF OthersTyped
  <2>2. QED
    BY <2>1
<1>2. Placing(t, d, q, f, {c}, z) = [t EXCEPT !.cvs = cvs, !.forecv = forecv, !.owner = owners, !.size = z]
  BY DEF Placing, Screens
<1>3. Peopled(t, d, c, q, f, z) = [t EXCEPT !.owner = owner, !.cl = cl, !.on = on, !.cvs = cvs, !.forecv = forecv, !.size = z]
  BY DEF Peopled, Screens
<1>4. PICK a : a = Placing(t, d, q, f, {c}, z)
  OBVIOUS
<1>5. a.cl = t.cl /\ a.on = t.on
  <2>1. PlacingFacts(t, d, q, f, {c}, z, a)
    BY <1>4, PlacingFields
  <2>2. QED
    BY <2>1 DEF PlacingFacts
<1>6. WithBlank(a, c) = [a EXCEPT !.cl = [a.cl EXCEPT ![c] = c], !.on = [a.on EXCEPT ![c] = <<c>>]]
  <2>1. a = [t EXCEPT !.cvs = cvs, !.forecv = forecv, !.owner = owners, !.size = z]
    BY <1>2, <1>4
  <2> HIDE DEF cvs, forecv, owners
  <2>2. QED
    BY <2>1 DEF WithBlank, Screens
<1>7. WithBlank(a, c) = [a EXCEPT !.cl = cl, !.on = on]
  BY <1>5, <1>6
<1> HIDE DEF owner, owners, cl, on, cvs, forecv
<1>8. [[t EXCEPT !.cvs = cvs, !.forecv = forecv, !.owner = owners, !.size = z] EXCEPT !.cl = cl, !.on = on]
         = [t EXCEPT !.owner = owner, !.cl = cl, !.on = on, !.cvs = cvs, !.forecv = forecv, !.size = z]
  BY <1>1 DEF Screens
<1>9. QED
  BY <1>2, <1>3, <1>4, <1>7, <1>8, Zenon

NewOn(t, d, c, q, f, u) ==
  /\ Settled(u, d, None) /\ Aside(t, u, d) /\ Existing(u) = Existing(t) /\ OnOthers(u) = OnOthers(t) /\ (Shown(t) => Shown(u))
  /\ u.cvs[d] = q /\ u.forecv[d] = f /\ u.owner[c] = d /\ u.cl[c] = c /\ Shows(u, c) = None
  /\ Beside(t, u) /\ Pointers(t, u) /\ u.flayer = t.flayer
  /\ \A x \in Canvases : x # c => u.owner[x] = t.owner[x] /\ Shows(u, x) = Shows(t, x)

\* A new blank canvas is the display's and shows nothing.
LEMMA PeopledSound ==
  ASSUME NEW t, NEW d \in Displays, Settled(t, d, None), t.display = d, NEW c \in Canvases, NEW q, NewRegion(t, d, q, {c}),
         NEW f \in Maybe(Canvases), NEW z \in [Layers -> Sizes], NEW u, u = Peopled(t, d, c, q, f, z)
  PROVE  NewOn(t, d, c, q, f, u)
<1>1. t \in Screens /\ t.owner \in [Canvases -> Maybe(Displays)]
  BY SettledFew, Types DEF OthersTyped
<1>2. PICK a : a = Placing(t, d, q, f, {c}, z)
  OBVIOUS
<1>3. u = WithBlank(a, c)
  BY <1>1, <1>2, PeopledIs
<1>4. /\ Settled(a, d, None) /\ Aside(t, a, d) /\ Existing(a) = Existing(t) /\ OnOthers(a) = OnOthers(t)
      /\ (\A x : Shows(a, x) = Shows(t, x)) /\ t.cl[c] = None /\ a.cvs[d] = q /\ a.forecv[d] = f
  BY <1>2, PlacingSound
<1>5. PlacingFacts(t, d, q, f, {c}, z, a)
  BY <1>1, <1>2, PlacingFields
<1>6. /\ a.cl = t.cl /\ a.display = d /\ Beside(t, a) /\ Pointers(t, a) /\ a.flayer = t.flayer
      /\ \A x \in Canvases : a.owner[x] = IF x = c THEN d ELSE t.owner[x]
  BY <1>5 DEF PlacingFacts, Pointers
<1>7. /\ Settled(u, d, None) /\ Aside(a, u, d) /\ Existing(u) = Existing(a) /\ OnOthers(u) = OnOthers(a)
      /\ BlankFacts(a, c, u) /\ u.cl[c] = c /\ Shows(u, c) = None
      /\ \A x \in Canvases : x # c => u.cl[x] = a.cl[x] /\ Shows(u, x) = Shows(a, x)
  BY <1>3, <1>4, <1>6, BlankSound
<1>8. u.owner = a.owner /\ u.cvs = a.cvs /\ u.forecv = a.forecv /\ u.flayer = a.flayer /\ Beside(a, u) /\ Pointers(a, u)
  BY <1>7 DEF BlankFacts
<1>9. Beside(t, u) /\ Pointers(t, u)
  BY <1>6, <1>8, BesideJoins DEF Pointers
<1>10. Shown(t) => Shown(u)
  <2>1. \A x \in Canvases : x # c => u.owner[x] = t.owner[x] /\ u.cl[x] = t.cl[x]
    BY <1>6, <1>7, <1>8
  <2>2. u.cl[c] # None
    BY <1>7, Apart
  <2>3. QED
    BY <2>1, <2>2 DEF Shown
<1>11. Aside(t, u, d)
  BY <1>4, <1>7, AsideJoins
<1>12. \A x \in Canvases : x # c => u.owner[x] = t.owner[x] /\ Shows(u, x) = Shows(t, x)
  BY <1>4, <1>6, <1>7, <1>8
<1>13. QED
  BY <1>4, <1>6, <1>7, <1>8, <1>9, <1>10, <1>11, <1>12 DEF NewOn

\* The place of an element is its index.
LEMMA PlaceIn ==
  ASSUME NEW q, NEW x \in ToSet(q)
  PROVE  Place(q, x) \in DOMAIN q /\ q[Place(q, x)] = x
<1>1. \E i \in DOMAIN q : q[i] = x
  BY DEF ToSet
<1>2. QED
  BY <1>1 DEF Place

\* CanvasInitBlank, with the new canvas in the list.
LEMMA AddedIs ==
  ASSUME NEW t \in Screens, NEW d \in Displays, NEW c \in Canvases, NEW q
  PROVE  [InitBlank(t, c, d) EXCEPT !.cvs[d] = q] = Peopled(t, d, c, q, t.forecv[d], t.size)
<1> DEFINE owner == [t.owner EXCEPT ![c] = d]
           cl == [t.cl EXCEPT ![c] = c]
           on == [t.on EXCEPT ![c] = <<c>>]
           cvs == [t.cvs EXCEPT ![d] = q]
<1>1. [t.forecv EXCEPT ![d] = t.forecv[d]] = t.forecv
  BY SameFields
<1>2. Peopled(t, d, c, q, t.forecv[d], t.size) = [t EXCEPT !.owner = owner, !.cl = cl, !.on = on, !.cvs = cvs]
  BY <1>1 DEF Peopled, Screens
<1>3. InitBlank(t, c, d) = [t EXCEPT !.owner = owner, !.cl = cl, !.on = on]
  BY DEF InitBlank, Screens
<1>4. PICK a : a = InitBlank(t, c, d)
  OBVIOUS
<1>5. a.cvs = t.cvs /\ [a EXCEPT !.cvs[d] = q] = [a EXCEPT !.cvs = [a.cvs EXCEPT ![d] = q]]
  <2> HIDE DEF owner, cl, on
  <2>1. QED
    BY <1>3, <1>4 DEF Screens
<1>6. [a EXCEPT !.cvs[d] = q] = [a EXCEPT !.cvs = cvs]
  BY <1>5
<1> HIDE DEF owner, cl, on, cvs
<1>7. [[t EXCEPT !.owner = owner, !.cl = cl, !.on = on] EXCEPT !.cvs = cvs]
         = [t EXCEPT !.owner = owner, !.cl = cl, !.on = on, !.cvs = cvs]
  BY DEF Screens
<1>8. QED
  BY <1>2, <1>3, <1>4, <1>6, <1>7, Zenon

\* split
LEMMA AddCanvasSound ==
  ASSUME NEW t, NEW d, Current(t, d), Len(t.cvs[d]) < MaxRegions, CanvasesLeft(t, 1), NEW u, u = Activate(AddCanvas(t, d))
  PROVE  Moves(t, d, u) /\ Existing(u) = Existing(t)
<1> DEFINE cv == t.forecv[d]
           c == Head(NewCanvases(t, 1))
           at == Place(t.cvs[d], cv)
           q == InsertAt(t.cvs[d], at + 1, c)
<1>1. /\ Settled(t, None, None) /\ Shown(t) /\ d \in Displays /\ d \in ToSet(t.displays) /\ t.display = d /\ t \in Screens
      /\ cv \in Canvases /\ t.owner[cv] = d /\ cv \in ToSet(t.cvs[d]) /\ t.dfore[d] = Shows(t, cv) /\ d # None
  BY CurrentFacts
<1>2. c \in Canvases /\ t.owner[c] = None
  BY UnusedCanvas
<1>3. /\ t.cvs[d] \in Seq(Canvases) /\ IsInjective(t.cvs[d]) /\ Len(t.cvs[d]) \in Nat /\ DOMAIN t.cvs[d] = 1 .. Len(t.cvs[d])
      /\ \A x : x \in ToSet(t.cvs[d]) <=> x \in Canvases /\ t.owner[x] = d
  <2>1. t.cvs[d] \in Seq(Canvases) /\ \A x : x \in ToSet(t.cvs[d]) <=> x \in Canvases /\ t.owner[x] = d
    BY <1>1, SettledOwner
  <2>2. IsInjective(t.cvs[d])
    BY <1>1 DEF Settled, Region
  <2>3. QED
    BY <2>1, <2>2, LenProperties
<1>4. at + 1 \in 1 .. Len(t.cvs[d]) + 1
  <2>1. at \in DOMAIN t.cvs[d]
    BY <1>1, PlaceIn
  <2> HIDE DEF at
  <2>2. QED
    BY <1>3, <2>1
<1>5. NewRegion(t, d, q, {c})
  <2>1. c \notin ToSet(t.cvs[d])
    BY <1>1, <1>2, <1>3
  <2>2. /\ q \in Seq(Canvases) /\ IsInjective(q) /\ Len(q) = Len(t.cvs[d]) + 1
        /\ \A y : y \in ToSet(q) <=> y = c \/ y \in ToSet(t.cvs[d])
    <3> HIDE DEF at, c
    <3>1. QED
      BY <1>2, <1>3, <1>4, <2>1, InsertedIs
  <2> HIDE DEF q, c
  <2>3. Len(q) <= MaxRegions
    BY <1>3, <2>2, WindowsAssumption
  <2>4. \A y : y \in ToSet(q) <=> y \in Canvases /\ (y \in {c} \/ t.owner[y] = d)
    BY <1>2, <1>3, <2>2
  <2>5. QED
    BY <1>2, <2>2, <2>3, <2>4 DEF NewRegion
<1>6. PICK v : v = [InitBlank(t, c, d) EXCEPT !.cvs[d] = InsertAt(@, at + 1, c)]
  OBVIOUS
<1>7. v = Peopled(t, d, c, q, t.forecv[d], t.size)
  <2>1. [InitBlank(t, c, d) EXCEPT !.cvs[d] = q] = Peopled(t, d, c, q, t.forecv[d], t.size)
    BY <1>1, <1>2, AddedIs
  <2>2. InitBlank(t, c, d).cvs = t.cvs
    BY <1>1 DEF InitBlank, Screens
  <2>3. v = [InitBlank(t, c, d) EXCEPT !.cvs[d] = q]
    BY <1>6, <2>2
  <2>4. QED
    BY <2>1, <2>3
<1>8. u = Activate(ResizeLayersToCanvases(v, d))
  BY <1>6 DEF AddCanvas
<1> HIDE DEF q, c, at
<1>9. NewOn(t, d, c, q, cv, v)
  <2>1. t.size \in [Layers -> Sizes]
    BY <1>1, Types DEF LooksTyped
  <2>2. cv \in Maybe(Canvases) /\ Settled(t, d, None)
    BY <1>1, FocusLeft DEF Maybe
  <2>3. QED
    BY <1>1, <1>2, <1>5, <1>7, <2>1, <2>2, PeopledSound
<1>10. /\ Settled(v, d, None) /\ Aside(t, v, d) /\ Existing(v) = Existing(t) /\ Shown(v) /\ v.forecv[d] = cv
       /\ v.displays = t.displays /\ v.display = d /\ v.dfore = t.dfore
       /\ \A x \in Canvases : x # c => v.owner[x] = t.owner[x] /\ Shows(v, x) = Shows(t, x)
  BY <1>1, <1>9 DEF NewOn, Beside, Pointers
<1>11. Focused(v, d)
  <2>1. cv # c
    BY <1>1, <1>2
  <2>2. v.owner[cv] = d /\ Shows(v, cv) = Shows(t, cv)
    BY <1>1, <1>10, <2>1
  <2>3. cv \in ToSet(v.cvs[d])
    BY <1>1, <1>10, <2>2, SettledOwner
  <2>4. QED
    BY <1>1, <1>10, <2>2, <2>3 DEF Focused
<1>12. Settled(v, None, None)
  <2>1. Filed(v)
    BY <1>1, <1>9, FiledSame DEF NewOn, Beside
  <2>2. QED
    BY <1>1, <1>10, <1>11, <2>1, FocusBack
<1>13. Moves(v, d, u) /\ Existing(u) = Existing(v)
  BY <1>1, <1>8, <1>10, <1>12, RefitActivate
<1>14. QED
  BY <1>10, <1>13, MovesJoins

\* What MakeDefaultCanvas makes of the canvas c.
DefaultOn(t, d, c) == [InitBlank(t, c, d) EXCEPT !.cvs[d] = <<c>>, !.forecv[d] = c, !.size[c] = <<d, 1>>]

\* MakeDefaultCanvas
LEMMA DefaultIs ==
  ASSUME NEW t \in Screens, NEW d \in Displays, NEW c \in Canvases
  PROVE  DefaultOn(t, d, c) = Peopled(t, d, c, <<c>>, c, [t.size EXCEPT ![c] = <<d, 1>>])
<1> DEFINE owner == [t.owner EXCEPT ![c] = d]
           cl == [t.cl EXCEPT ![c] = c]
           on == [t.on EXCEPT ![c] = <<c>>]
           cvs == [t.cvs EXCEPT ![d] = <<c>>]
           forecv == [t.forecv EXCEPT ![d] = c]
           size == [t.size EXCEPT ![c] = <<d, 1>>]
<1>2. Peopled(t, d, c, <<c>>, c, size) = [t EXCEPT !.owner = owner, !.cl = cl, !.on = on, !.cvs = cvs, !.forecv = forecv, !.size = size]
  <2> HIDE DEF size
  <2>1. QED
    BY DEF Peopled, Screens
<1>3. InitBlank(t, c, d) = [t EXCEPT !.owner = owner, !.cl = cl, !.on = on]
  BY DEF InitBlank, Screens
<1>4. PICK a : a = InitBlank(t, c, d)
  OBVIOUS
<1>5. /\ a.cvs = t.cvs /\ a.forecv = t.forecv /\ a.size = t.size
      /\ [a EXCEPT !.cvs[d] = <<c>>, !.forecv[d] = c, !.size[c] = <<d, 1>>]
           = [a EXCEPT !.cvs = [a.cvs EXCEPT ![d] = <<c>>], !.forecv = [a.forecv EXCEPT ![d] = c],
                       !.size = [a.size EXCEPT ![c] = <<d, 1>>]]
  <2> HIDE DEF owner, cl, on
  <2>1. QED
    BY <1>3, <1>4 DEF Screens
<1>6. [a EXCEPT !.cvs[d] = <<c>>, !.forecv[d] = c, !.size[c] = <<d, 1>>] = [a EXCEPT !.cvs = cvs, !.forecv = forecv, !.size = size]
  BY <1>5
<1> HIDE DEF owner, cl, on, cvs, forecv, size
<1>7. [[t EXCEPT !.owner = owner, !.cl = cl, !.on = on] EXCEPT !.cvs = cvs, !.forecv = forecv, !.size = size]
         = [t EXCEPT !.owner = owner, !.cl = cl, !.on = on, !.cvs = cvs, !.forecv = forecv, !.size = size]
  BY DEF Screens
<1>8. [InitBlank(t, c, d) EXCEPT !.cvs[d] = <<c>>, !.forecv[d] = c, !.size[c] = <<d, 1>>]
         = Peopled(t, d, c, <<c>>, c, size)
  BY <1>2, <1>3, <1>4, <1>6, <1>7, Zenon
<1>9. QED
  BY <1>8 DEF size, DefaultOn

\* MakeDefaultCanvas gives the display one blank canvas.
LEMMA DefaultSound ==
  ASSUME NEW t, NEW d \in Displays, Settled(t, d, None), t.display = d, \A c \in Canvases : t.owner[c] # d,
         CanvasesLeft(t, 1), NEW u, u = MakeDefaultCanvas(t, d)
  PROVE  \E c \in Canvases : t.owner[c] = None /\ NewOn(t, d, c, <<c>>, c, u)
<1> DEFINE c == Head(NewCanvases(t, 1))
           z == [t.size EXCEPT ![c] = <<d, 1>>]
<1>1. t \in Screens /\ t.size \in [Layers -> Sizes]
  BY SettledFew, Types DEF LooksTyped
<1>2. c \in Canvases /\ t.owner[c] = None
  BY UnusedCanvas
<1> HIDE DEF c
<1>3. u = Peopled(t, d, c, <<c>>, c, z)
  <2>1. u = DefaultOn(t, d, c)
    BY DEF MakeDefaultCanvas, DefaultOn, c
  <2>2. DefaultOn(t, d, c) = Peopled(t, d, c, <<c>>, c, z)
    BY <1>1, <1>2, DefaultIs
  <2>3. QED
    BY <2>1, <2>2
<1>4. z \in [Layers -> Sizes]
  <2>1. 1 \in 0 .. MaxRegions
    BY WindowsAssumption
  <2>2. <<d, 1>> \in Sizes
    BY <2>1 DEF Sizes, Maybe
  <2>3. QED
    BY <1>1, <2>2
<1> HIDE DEF z
<1>5. NewRegion(t, d, <<c>>, {c})
  <2>1. <<c>> \in Seq(Canvases) /\ Len(<<c>>) = 1
    BY <1>2
  <2>2. IsInjective(<<c>>) /\ ToSet(<<c>>) = {c}
    BY DEF IsInjective, ToSet
  <2>3. Len(<<c>>) <= MaxRegions
    BY <2>1, WindowsAssumption
  <2>4. QED
    BY <1>2, <2>1, <2>2, <2>3 DEF NewRegion
<1>6. NewOn(t, d, c, <<c>>, c, u)
  BY <1>2, <1>3, <1>4, <1>5, PeopledSound DEF Maybe
<1>7. QED
  BY <1>2, <1>6

-----------------------------------------------------------------------------
(* Layouts.                                                                  *)

LayoutType == [wins : Seq(Maybe(Windows)), focus : Nat]
Refiling(t, d, ls, y, f) == [t EXCEPT !.layouts = ls, !.dlayout[d] = y, !.lay = f]

RefilingFacts(t, d, ls, y, f, u) ==
  /\ u.layouts = ls /\ u.dlayout = [t.dlayout EXCEPT ![d] = y] /\ u.lay = f
  /\ SameLayers(t, u) /\ Pointers(t, u) /\ u.flayer = t.flayer /\ u.start = t.start /\ u.displays = t.displays
  /\ u.cvs = t.cvs /\ u.forecv = t.forecv /\ u.last = t.last /\ u.detachwin = t.detachwin
  /\ u.detachotherwin = t.detachotherwin /\ u.kind = t.kind /\ u.size = t.size /\ Whole(u)

\* Setting the layouts, field by field.
LEMMA RefilingFields ==
  ASSUME NEW t \in Screens, NEW d, NEW ls, NEW y, NEW f, NEW u, u = Refiling(t, d, ls, y, f)
  PROVE  RefilingFacts(t, d, ls, y, f, u)
<1> DEFINE dlayout == [t.dlayout EXCEPT ![d] = y]
<1>1. u = [t EXCEPT !.layouts = ls, !.dlayout = dlayout, !.lay = f]
  BY DEF Refiling, Screens
<1> HIDE DEF dlayout
<1>2. u.layouts = ls /\ u.dlayout = dlayout /\ u.lay = f
  BY <1>1 DEF Screens
<1>3. SameLayers(t, u)
  BY <1>1 DEF Screens, SameLayers
<1>4. Pointers(t, u) /\ u.flayer = t.flayer /\ u.start = t.start /\ u.displays = t.displays
  BY <1>1 DEF Screens, Pointers
<1>5. /\ u.cvs = t.cvs /\ u.forecv = t.forecv /\ u.last = t.last /\ u.detachwin = t.detachwin
      /\ u.detachotherwin = t.detachotherwin /\ u.kind = t.kind /\ u.size = t.size
  BY <1>1 DEF Screens
<1>6. Whole(u)
  BY <1>1 DEF Screens, Whole
<1>7. QED
  BY <1>2, <1>3, <1>4, <1>5, <1>6 DEF RefilingFacts, dlayout

\* The layouts ls, saved as in f, of which d uses y.
Refilable(t, x, d, ls, y, f) ==
  /\ ls \in Seq(Layouts) /\ IsInjective(ls) /\ f \in [Layouts -> LayoutType] /\ y \in Maybe(ToSet(ls))
  /\ \A z \in Layouts : ToSet(f[z].wins) \subseteq Maybe(Existing(t))
  /\ \A e \in Displays : e # d => t.dlayout[e] \in Maybe(ToSet(ls))
  /\ t.last \in Maybe(ToSet(ls)) /\ (x = None => \A z \in ToSet(ls) : Saving(f[z]))
Refiled(t, x, u) ==
  /\ Settled(u, x, None) /\ (Shown(t) <=> Shown(u)) /\ SameLayers(t, u) /\ Pointers(t, u)
  /\ u.displays = t.displays /\ u.cvs = t.cvs /\ u.forecv = t.forecv /\ u.last = t.last
  /\ u.detachwin = t.detachwin /\ u.detachotherwin = t.detachotherwin /\ u.flayer = t.flayer
  /\ Existing(u) = Existing(t) /\ OnOthers(u) = OnOthers(t) /\ Alive(u) = Alive(t)
  /\ (\A c : Shows(u, c) = Shows(t, c)) /\ \A d : Aside(t, u, d)

\* Setting the layouts to ones that name existing windows.
LEMMA RefilingSound ==
  ASSUME NEW t, NEW x, Settled(t, x, None), NEW d \in Displays, x = d \/ d \in ToSet(t.displays),
         NEW ls, NEW y, NEW f, Refilable(t, x, d, ls, y, f), NEW u, u = Refiling(t, d, ls, y, f)
  PROVE  Refiled(t, x, u) /\ u.layouts = ls /\ u.lay = f /\ u.dlayout[d] = y
<1>1. t \in Screens /\ Core(t, None) /\ LayersTyped(t) /\ LooksTyped(t) /\ OthersTyped(t)
  BY SettledFew, Types
<1>2. RefilingFacts(t, d, ls, y, f, u)
  BY <1>1, RefilingFields
<1>3. t.dlayout \in [Displays -> Maybe(Layouts)]
  BY <1>1 DEF OthersTyped
<1>4. /\ SameLayers(t, u) /\ Pointers(t, u) /\ u.flayer = t.flayer /\ u.layouts = ls /\ u.lay = f /\ u.dlayout[d] = y
      /\ u.displays = t.displays /\ u.cvs = t.cvs /\ u.forecv = t.forecv /\ u.last = t.last
      /\ \A e \in Displays : e # d => u.dlayout[e] = t.dlayout[e]
  BY <1>2, <1>3 DEF RefilingFacts
<1>5. y \in Maybe(Layouts)
  <2>1. ls \in Seq(Layouts) /\ y \in Maybe(ToSet(ls))
    BY DEF Refilable
  <2>2. ToSet(ls) \subseteq Layouts
    BY <2>1, ElementOfSeq, LenProperties DEF ToSet
  <2>3. QED
    BY <2>1, <2>2 DEF Maybe
<1>6. u \in Screens
  <2>1. LayersTyped(u) /\ LooksTyped(u)
    BY <1>1, <1>2, <1>4 DEF RefilingFacts, SameLayers, LayersTyped, LooksTyped
  <2>2. u.dlayout \in [Displays -> Maybe(Layouts)] /\ u.layouts \in Seq(Layouts) /\ u.lay \in [Layouts -> LayoutType]
    BY <1>2, <1>3, <1>5 DEF RefilingFacts, Refilable
  <2>3. OthersTyped(u)
    BY <1>1, <1>2, <2>2 DEF RefilingFacts, SameLayers, Pointers, OthersTyped, LayoutType
  <2>4. QED
    BY <1>2, <2>1, <2>3, IsScreen DEF RefilingFacts
<1>7. /\ Existing(u) = Existing(t) /\ OnOthers(u) = OnOthers(t) /\ Alive(u) = Alive(t)
      /\ \A l : Layer2Window(u, l) = Layer2Window(t, l)
  BY <1>4, SameSound
<1>8. Core(u, None)
  <2>1. Points(u)
    BY <1>1, <1>4, <1>7 DEF Core, Points, Pointers
  <2>2. QED
    BY <1>1, <1>4, <1>6, <2>1, SameSound
<1>9. \A c : Shows(u, c) = Shows(t, c)
  BY <1>4, <1>7 DEF Shows, SameLayers
<1>10. u.owner = t.owner /\ u.mru = t.mru /\ u.cl = t.cl
  BY <1>4 DEF SameLayers
<1>11. LayoutsKept(u) /\ (x = None => Filed(u))
  <2>1. IsInjective(u.displays)
    BY <1>4 DEF Settled, LayoutsKept
  <2>2. \A e \in Displays : u.dlayout[e] \in Maybe(ToSet(ls))
    BY <1>4 DEF Refilable
  <2>3. QED
    BY <1>4, <1>7, <2>1, <2>2 DEF LayoutsKept, Filed, Refilable
<1>12. ASSUME NEW e \in Displays PROVE Region(u, e) /\ (e # x => Focused(u, e))
  <2>1. Region(u, e)
    BY <1>4, <1>10 DEF Settled, Region
  <2>2. ASSUME e # x PROVE Focused(u, e)
    <3>1. Focused(t, e)
      BY <2>2 DEF Settled
    <3>2. e \notin ToSet(t.displays) => e # d
      BY <2>2
    <3>3. QED
      BY <1>4, <1>9, <3>1, <3>2 DEF Focused, Pointers
  <2>3. QED
    BY <2>1, <2>2
<1>13. Settled(u, x, None)
  BY <1>7, <1>8, <1>10, <1>11, <1>12 DEF Settled
<1>14. (Shown(t) <=> Shown(u)) /\ \A e : Aside(t, u, e)
  BY <1>4, <1>9, <1>10 DEF Shown, Aside
<1>15. u.detachwin = t.detachwin /\ u.detachotherwin = t.detachotherwin
  BY <1>2 DEF RefilingFacts
<1>16. QED
  BY <1>4, <1>7, <1>9, <1>13, <1>14, <1>15 DEF Refiled

\* What a display shows can be saved.
LEMMA DupIs ==
  ASSUME NEW t, NEW x, NEW w, Settled(t, x, w), NEW d \in Displays, d \in ToSet(t.displays), Focused(t, d),
         NEW y, y = DupLayout(t, d)
  PROVE  y \in LayoutType /\ Saving(y) /\ ToSet(y.wins) \subseteq Maybe(Existing(t))
<1> DEFINE q == t.cvs[d]
           n == Len(q)
<1>1. q \in Seq(Canvases) /\ n \in Nat /\ DOMAIN q = 1 .. n /\ n <= MaxRegions /\ t.forecv[d] \in ToSet(q)
  <2>1. q \in Seq(Canvases)
    BY SettledOwner
  <2>2. n <= MaxRegions /\ t.forecv[d] \in ToSet(q)
    BY DEF Settled, Region, Focused
  <2>3. QED
    BY <2>1, <2>2, LenProperties
<1>2. \A i \in 1 .. n : Shows(t, q[i]) \in Maybe(Existing(t))
  <2>1. \A i \in 1 .. n : q[i] \in Canvases
    BY <1>1, ElementOfSeq
  <2>2. Core(t, None)
    BY SettledFew
  <2>3. QED
    BY <2>1, <2>2, CanvasAlive
<1>3. Place(q, t.forecv[d]) \in 1 .. n
  BY <1>1, PlaceIn
<1>4. y = [wins |-> [i \in DOMAIN q |-> Shows(t, q[i])], focus |-> Place(q, t.forecv[d])]
  BY DEF DupLayout
<1> HIDE DEF q, n
<1>5. y.wins = [i \in 1 .. n |-> Shows(t, q[i])] /\ y.focus = Place(q, t.forecv[d])
  BY <1>1, <1>4
<1>6. Maybe(Existing(t)) \subseteq Maybe(Windows)
  BY DEF Maybe, Existing
<1>7. y.wins \in Seq(Maybe(Windows)) /\ Len(y.wins) = n /\ DOMAIN y.wins = 1 .. n
  <2>1. \A i \in 1 .. n : Shows(t, q[i]) \in Maybe(Windows)
    BY <1>2, <1>6
  <2>2. QED
    BY <1>1, <1>5, <2>1
<1>8. ToSet(y.wins) \subseteq Maybe(Existing(t))
  BY <1>2, <1>5, <1>7 DEF ToSet
<1>9. n \in 1 .. MaxRegions
  BY <1>1, <1>3, WindowsAssumption
<1>10. y \in LayoutType
  <2>1. y.focus \in Nat
    BY <1>3, <1>5
  <2>2. QED
    BY <1>4, <1>5, <1>7, <2>1 DEF LayoutType
<1>11. Saving(y)
  BY <1>3, <1>5, <1>7, <1>9 DEF Saving
<1>12. QED
  BY <1>8, <1>10, <1>11

Autosaved(t, d) == IF t.dlayout[d] = None THEN t.lay ELSE [t.lay EXCEPT ![t.dlayout[d]] = DupLayout(t, d)]

\* AutosaveLayout saves windows that exist, and a focus that is one of the regions.
LEMMA AutosaveSound ==
  ASSUME NEW t, NEW x, Settled(t, x, None), NEW d \in Displays, d \in ToSet(t.displays), Focused(t, d),
         NEW u, u = AutosaveLayout(t, d)
  PROVE  /\ Refiled(t, x, u) /\ u.layouts = t.layouts /\ u.dlayout = t.dlayout
         /\ t.dlayout[d] # None => Saving(u.lay[t.dlayout[d]])
         /\ \A y \in Layouts : y # t.dlayout[d] => u.lay[y] = t.lay[y]
<1> DEFINE z == t.dlayout[d]
<1>1. /\ t \in Screens /\ t.lay \in [Layouts -> LayoutType] /\ t.layouts \in Seq(Layouts)
      /\ t.dlayout \in [Displays -> Maybe(Layouts)]
  BY SettledFew, Types DEF OthersTyped, LayoutType
<1>2. CASE z = None
  <2>1. u = t
    BY <1>2 DEF AutosaveLayout
  <2>2. Refiled(t, x, t)
    BY DEF Refiled, SameLayers, Pointers, Aside
  <2>3. QED
    BY <1>2, <2>1, <2>2
<1>3. CASE z # None
  <2>1. PICK y : y = DupLayout(t, d)
    OBVIOUS
  <2>2. y \in LayoutType /\ Saving(y) /\ ToSet(y.wins) \subseteq Maybe(Existing(t))
    BY <2>1, DupIs
  <2>3. z \in Layouts /\ z \in ToSet(t.layouts)
    <3>1. z \in Maybe(ToSet(t.layouts)) /\ z \in Maybe(Layouts)
      BY <1>1 DEF Settled, LayoutsKept
    <3>2. QED
      BY <1>3, <3>1 DEF Maybe
  <2>4. PICK f : f = [t.lay EXCEPT ![z] = y]
    OBVIOUS
  <2>5. f \in [Layouts -> LayoutType] /\ f[z] = y /\ \A v \in Layouts : v # z => f[v] = t.lay[v]
    BY <1>1, <2>2, <2>3, <2>4
  <2>6. u = Refiling(t, d, t.layouts, z, f)
    <3>1. u = [t EXCEPT !.lay[z] = y]
      BY <1>3, <2>1 DEF AutosaveLayout
    <3>2. u = [t EXCEPT !.lay = f]
      BY <2>4, <3>1, <1>1 DEF Screens
    <3>3. [t.dlayout EXCEPT ![d] = z] = t.dlayout
      BY <1>1
    <3>4. QED
      BY <1>1, <3>2, <3>3 DEF Refiling, Screens
  <2>7. Refilable(t, x, d, t.layouts, z, f)
    <3>1. LayoutsKept(t) /\ (x = None => Filed(t))
      BY DEF Settled
    <3>2. ToSet(t.layouts) \subseteq Layouts
      BY <1>1, ElementOfSeq, LenProperties DEF ToSet
    <3>3. \A v \in Layouts : ToSet(f[v].wins) \subseteq Maybe(Existing(t))
      BY <2>2, <2>5, <3>1 DEF LayoutsKept
    <3>4. x = None => \A v \in ToSet(t.layouts) : Saving(f[v])
      BY <2>2, <2>5, <3>1, <3>2 DEF Filed
    <3>5. \A e \in Displays : t.dlayout[e] \in Maybe(ToSet(t.layouts))
      BY <3>1 DEF LayoutsKept
    <3>6. t.last \in Maybe(ToSet(t.layouts)) /\ IsInjective(t.layouts)
      BY <3>1 DEF LayoutsKept
    <3>7. z \in Maybe(ToSet(t.layouts))
      BY <2>3 DEF Maybe
    <3>8. QED
      BY <1>1, <2>5, <3>3, <3>4, <3>5, <3>6, <3>7 DEF Refilable
  <2>8. Refiled(t, x, u) /\ u.layouts = t.layouts /\ u.lay = f /\ RefilingFacts(t, d, t.layouts, z, f, u)
    BY <1>1, <2>6, <2>7, RefilingSound, RefilingFields
  <2>9. u.dlayout = t.dlayout
    <3>1. u.dlayout = [t.dlayout EXCEPT ![d] = z]
      BY <2>8 DEF RefilingFacts
    <3>2. QED
      BY <1>1, <3>1
  <2>10. QED
    BY <2>2, <2>5, <2>8, <2>9
<1>4. QED
  BY <1>2, <1>3

-----------------------------------------------------------------------------
(* LoadLayout: the canvases of a layout get their windows.                   *)


\* The first k canvases of the list show something.
LaidOut(a, d, new, f, v, k) ==
  /\ Settled(v, d, None) /\ Aside(a, v, d) /\ Framed(a, v) /\ v.display = d
  /\ Existing(v) = Existing(a) /\ OnOthers(v) \subseteq OnOthers(a)
  /\ \A c \in Canvases : c \notin ToSet(new) => v.cl[c] = a.cl[c]
  /\ \A i \in 1 .. k : v.cl[new[i]] # None /\ (new[i] = f => v.dfore[d] = Shows(v, f))

\* One more canvas of the layout shows its window.
LEMMA LaidOutStep ==
  ASSUME NEW a, NEW d \in Displays, NEW new, NEW f, NEW k \in Nat, NEW v, LaidOut(a, d, new, f, v, k), a.forecv[d] = f,
         \A i \in 1 .. k + 1 : new[i] \in Canvases /\ new[i] \in ToSet(new), a.owner[new[k + 1]] = d,
         NEW wi \in Maybe(Existing(a)), NEW w, w = SetCanvasWindow(v, new[k + 1], wi)
  PROVE  LaidOut(a, d, new, f, w, k + 1)
<1> DEFINE cv == new[k + 1]
<1>1. /\ Settled(v, d, None) /\ Aside(a, v, d) /\ Framed(a, v) /\ v.display = d
      /\ Existing(v) = Existing(a) /\ OnOthers(v) \subseteq OnOthers(a)
  BY DEF LaidOut
<1>2. cv \in Canvases /\ d = v.owner[cv] /\ v.forecv[d] = f /\ wi \in Maybe(Existing(v))
  BY <1>1 DEF Framed
<1>3. Settled(w, d, None) /\ Placed(v, d, cv, wi, w) /\ Aside(v, w, d)
  <2>1. wi # None => wi # None
    OBVIOUS
  <2>2. QED
    BY <1>1, <1>2, <2>1, SetSettled
<1>4. /\ Framed(v, w) /\ w.display = d /\ Existing(w) = Existing(v) /\ OnOthers(w) \subseteq OnOthers(v)
      /\ w.cl[cv] # None /\ Shows(w, cv) = wi
      /\ \A c \in Canvases : c # cv => w.cl[c] = v.cl[c] /\ Shows(w, c) = Shows(v, c)
      /\ w.dfore[d] = IF cv = f THEN wi ELSE v.dfore[d]
  BY <1>2, <1>3 DEF Placed
<1>5. Framed(a, w) /\ Aside(a, w, d)
  BY <1>1, <1>3, <1>4, AsideJoins DEF Framed
<1>6. \A c \in Canvases : c \notin ToSet(new) => w.cl[c] = a.cl[c]
  BY <1>4 DEF LaidOut
<1>7. ASSUME NEW i \in 1 .. k + 1 PROVE w.cl[new[i]] # None /\ (new[i] = f => w.dfore[d] = Shows(w, f))
  <2>1. CASE new[i] = cv
    BY <1>4, <2>1
  <2>2. CASE new[i] # cv
    <3>1. i \in 1 .. k /\ new[i] \in Canvases
      BY <2>2
    <3>2. v.cl[new[i]] # None /\ (new[i] = f => v.dfore[d] = Shows(v, f))
      BY <3>1 DEF LaidOut
    <3>3. w.cl[new[i]] = v.cl[new[i]] /\ Shows(w, new[i]) = Shows(v, new[i])
      BY <1>4, <2>2, <3>1
    <3>4. QED
      BY <1>4, <2>2, <3>2, <3>3
  <2>3. QED
    BY <2>1, <2>2
<1>8. QED
  BY <1>1, <1>3, <1>4, <1>5, <1>6, <1>7 DEF LaidOut

Putting(t, y, new) ==
  Placing(t, t.display, new, new[t.lay[y].focus], ToSet(new),
          [l \in Layers |-> IF l \in ToSet(new) THEN <<t.display, Len(new)>> ELSE t.size[l]])

\* PutLayout as a fold.
LEMMA PutIs ==
  ASSUME NEW t \in Screens, NEW y, NEW new
  PROVE  PutLayout(t, y, new) = AllPuts(<<t.lay[y], new>>, Putting(t, y, new), new)
<1>1. PICK a : a = [t EXCEPT !.cvs[t.display] = new, !.forecv[t.display] = new[t.lay[y].focus],
                        !.owner = [c \in Canvases |-> IF c \in ToSet(new) THEN t.display ELSE @[c]],
                        !.size = [l \in Layers |-> IF l \in ToSet(new) THEN <<t.display, Len(new)>> ELSE @[l]]]
  OBVIOUS
<1>2. a = Putting(t, y, new)
  BY <1>1 DEF Putting, Placing, Screens
<1>3. PutLayout(t, y, new) = FoldLeft(LAMBDA v, c : SetCanvasWindow(v, c, t.lay[y].wins[Place(new, c)]), a, new)
  BY <1>1 DEF PutLayout
<1>4. FoldLeft(LAMBDA v, c : SetCanvasWindow(v, c, t.lay[y].wins[Place(new, c)]), a, new) = AllPuts(<<t.lay[y], new>>, a, new)
  BY DEF Puts, AllPuts, FoldLeft, MapThenFoldSet, Max
<1>5. QED
  BY <1>2, <1>3, <1>4

\* The display d has the canvases of the list, each with what the layout says, and f is focused.
PutOn(t, d, new, f, u) ==
  /\ Settled(u, d, None) /\ Aside(t, u, d) /\ (Shown(t) => Shown(u)) /\ Beside(t, u) /\ u.display = d
  /\ Existing(u) = Existing(t) /\ OnOthers(u) \subseteq OnOthers(t)
  /\ u.cvs[d] = new /\ u.forecv[d] = f /\ f \in ToSet(new) /\ f \in Canvases /\ u.owner[f] = d
  /\ u.dfore[d] = Shows(u, f)

\* The canvases that a layout takes.
Taking(t, d, y, new) ==
  /\ new \in Seq(Canvases) /\ IsInjective(new) /\ Len(new) = Len(t.lay[y].wins)
  /\ \A c \in ToSet(new) : c \in Canvases /\ t.owner[c] = None

\* PutLayout gives the display its canvases, each with the window of the layout.
LEMMA PutSound ==
  ASSUME NEW t, NEW d \in Displays, Settled(t, d, None), t.display = d, \A c \in Canvases : t.owner[c] # d,
         NEW y \in Layouts, Saving(t.lay[y]), NEW new, Taking(t, d, y, new), NEW u, u = PutLayout(t, y, new)
  PROVE  \E f : PutOn(t, d, new, f, u)
<1> DEFINE n == Len(new)
           f == new[t.lay[y].focus]
           C == ToSet(new)
           z == [l \in Layers |-> IF l \in ToSet(new) THEN <<t.display, Len(new)>> ELSE t.size[l]]
           par == <<t.lay[y], new>>
           a == Putting(t, y, new)
           S == [k \in 0 .. n |-> {v \in Screens : LaidOut(a, d, new, f, v, k)}]
<1>1. t \in Screens /\ t.size \in [Layers -> Sizes] /\ d # None
  BY SettledFew, Types, Apart DEF LooksTyped
<1>2. /\ n \in Nat /\ n \in 1 .. MaxRegions /\ DOMAIN new = 1 .. n /\ t.lay[y].focus \in 1 .. n
      /\ DOMAIN t.lay[y].wins = 1 .. n /\ MaxRegions \in Nat
  <2>1. t.lay[y].wins \in Seq(Maybe(Windows))
    BY <1>1, Types DEF OthersTyped
  <2>2. new \in Seq(Canvases) /\ n = Len(t.lay[y].wins)
    BY DEF Taking
  <2>3. QED
    BY <2>1, <2>2, LenProperties, WindowsAssumption DEF Saving
<1>3. ToSet(new) = {new[i] : i \in 1 .. n} /\ f \in C /\ f \in Canvases
  <2>1. ToSet(new) = {new[i] : i \in 1 .. n}
    BY <1>2 DEF ToSet
  <2>2. f \in C
    BY <1>2, <2>1
  <2>3. QED
    BY <2>1, <2>2 DEF Taking
<1>4. z \in [Layers -> Sizes]
  <2>1. <<d, n>> \in Sizes
    BY <1>2 DEF Sizes, Maybe
  <2>2. QED
    BY <1>1, <2>1
<1>5. NewRegion(t, d, new, C)
  <2>1. C \subseteq Canvases /\ \A c \in C : t.owner[c] = None
    BY DEF Taking
  <2>2. \A c : c \in ToSet(new) <=> c \in Canvases /\ (c \in C \/ t.owner[c] = d)
    BY <2>1
  <2>3. QED
    BY <1>2, <2>1, <2>2 DEF NewRegion, Taking
<1>6. a = Placing(t, d, new, f, C, z)
  BY DEF Putting
<1> HIDE DEF z, a, f, C
<1>7. f \in Maybe(Canvases)
  BY <1>3 DEF Maybe
<1>8. /\ Settled(a, d, None) /\ Aside(t, a, d) /\ Existing(a) = Existing(t) /\ OnOthers(a) = OnOthers(t)
      /\ a.cvs[d] = new /\ a.forecv[d] = f
  BY <1>4, <1>5, <1>6, <1>7, PlacingSound
<1>9. PlacingFacts(t, d, new, f, C, z, a)
  BY <1>1, <1>6, PlacingFields
<1>10. a.cl = t.cl /\ Beside(t, a) /\ a.display = d /\ \A c \in Canvases : a.owner[c] = IF c \in C THEN d ELSE t.owner[c]
  BY <1>9 DEF PlacingFacts, Pointers
<1>11. u = AllPuts(par, a, new)
  BY <1>1, PutIs DEF a
<1>12. a \in S[0]
  <2>1. a \in Screens
    BY <1>8, SettledFew
  <2>2. LaidOut(a, d, new, f, a, 0)
    BY <1>8, <1>10 DEF LaidOut, Framed, Aside
  <2>3. QED
    BY <1>2, <2>1, <2>2
<1>13. ASSUME NEW k \in 1 .. n, NEW v \in S[k - 1] PROVE Puts(par, v, new[k]) \in S[k]
  <2>1. LaidOut(a, d, new, f, v, k - 1)
    BY <1>2
  <2>2. k - 1 \in Nat /\ (k - 1) + 1 = k /\ k - 1 \in 0 .. n
    OBVIOUS
  <2>3. \A i \in 1 .. k : new[i] \in Canvases /\ new[i] \in ToSet(new)
    BY <1>2, <1>3 DEF Taking
  <2>4. a.owner[new[k]] = d
    BY <1>10, <2>3 DEF C
  <2>5. PICK wi : wi = t.lay[y].wins[Place(new, new[k])]
    OBVIOUS
  <2>6. wi \in Maybe(Existing(a))
    <3>1. Place(new, new[k]) \in 1 .. n
      BY <1>2, <2>3, PlaceIn
    <3>2. wi \in ToSet(t.lay[y].wins)
      BY <1>2, <2>5, <3>1 DEF ToSet
    <3>3. ToSet(t.lay[y].wins) \subseteq Maybe(Existing(t))
      BY DEF Settled, LayoutsKept
    <3>4. QED
      BY <1>8, <3>2, <3>3
  <2>7. PICK w : w = SetCanvasWindow(v, new[k], wi)
    OBVIOUS
  <2>8. LaidOut(a, d, new, f, w, k)
    BY <1>8, <2>1, <2>2, <2>3, <2>4, <2>6, <2>7, LaidOutStep
  <2>9. w \in Screens
    BY <2>8, SettledFew DEF LaidOut
  <2>10. Puts(par, v, new[k]) = w
    BY <2>5, <2>7 DEF Puts
  <2>11. QED
    BY <1>2, <2>8, <2>9, <2>10
<1> HIDE DEF n, S, par
<1>14. u \in S[n]
  BY <1>2, <1>11, <1>12, <1>13, PutsKeep DEF n
<1>15. LaidOut(a, d, new, f, u, n)
  BY <1>2, <1>14 DEF S
<1>16. /\ Settled(u, d, None) /\ Aside(a, u, d) /\ Framed(a, u) /\ u.display = d
       /\ Existing(u) = Existing(a) /\ OnOthers(u) \subseteq OnOthers(a)
  BY <1>15 DEF LaidOut
<1>17. u.cvs[d] = new /\ u.forecv[d] = f /\ u.owner[f] = d /\ Aside(t, u, d)
  BY <1>3, <1>8, <1>10, <1>16, AsideJoins DEF Framed
<1>18. Beside(t, u)
  BY <1>10, <1>16 DEF Framed, Beside
<1>19. u.dfore[d] = Shows(u, f)
  <2>1. PICK i \in 1 .. n : new[i] = f
    BY <1>3 DEF C
  <2>2. QED
    BY <1>15, <2>1 DEF LaidOut
<1>20. ASSUME Shown(t), NEW c \in Canvases, u.owner[c] # None PROVE u.cl[c] # None
  <2>1. CASE c \in C
    <3>1. PICK i \in 1 .. n : new[i] = c
      BY <1>3, <2>1 DEF C
    <3>2. QED
      BY <1>15, <3>1 DEF LaidOut
  <2>2. CASE c \notin C
    <3>1. u.cl[c] = t.cl[c]
      BY <1>10, <1>15, <2>2 DEF LaidOut, C
    <3>2. t.owner[c] # None
      BY <1>10, <1>16, <1>20, <2>2 DEF Framed
    <3>3. QED
      BY <1>20, <3>1, <3>2 DEF Shown
  <2>3. QED
    BY <2>1, <2>2
<1>21. Shown(t) => Shown(u)
  BY <1>20 DEF Shown
<1>22. PutOn(t, d, new, f, u)
  BY <1>3, <1>8, <1>16, <1>17, <1>18, <1>19, <1>21 DEF PutOn, C
<1>23. QED
  BY <1>22

\* The canvases that are free when those of d are gone.
Spare(t, d) == {c \in Canvases : t.owner[c] \in {None, d}}

\* After FreeAllCanvases as many canvases are unused as were, and those of the display.
LEMMA SpareIs ==
  ASSUME NEW t, NEW d \in Displays, Settled(t, d, None), t.display = d, NEW u, u = FreeAllCanvases(t, d)
  PROVE  /\ FreedSome(t, d, u, Others(t, d, None)) /\ (\A c \in Canvases : u.owner[c] # d)
         /\ \A n : CanvasesLeft(u, n) <=> n <= Cardinality(Spare(t, d))
<1>1. FreedSome(t, d, u, Others(t, d, None))
  BY FreeOthersSound DEF FreeAllCanvases
<1>2. \A c \in Canvases : u.owner[c] = IF t.owner[c] = d THEN None ELSE t.owner[c]
  <2>1. None \notin Canvases
    BY Apart DEF Layers
  <2>2. \A c \in Canvases : c \in Others(t, d, None) <=> t.owner[c] = d
    BY <2>1 DEF Others
  <2>3. QED
    BY <1>1, <2>2 DEF FreedSome
<1>3. {c \in Canvases : u.owner[c] = None} = Spare(t, d)
  BY <1>2 DEF Spare
<1>4. \A c \in Canvases : u.owner[c] # d
  BY <1>2, Apart
<1>5. QED
  BY <1>1, <1>3, <1>4 DEF CanvasesLeft

\* The display d has the layout y.
LoadEnd(v, d, y, u) ==
  /\ Refocused(v, d, u) /\ Aside(v, u, d) /\ u.forecv[d] = v.forecv[d] /\ u.dfore[d] = v.dfore[d] /\ u.dlayout[d] = y
  /\ u.display = v.display /\ u.dother[d] = v.dother[d] /\ u.fore = v.fore /\ u.flayer = v.flayer

WithLayout(v, d, y) == [v EXCEPT !.dlayout[d] = y]

\* The layout becomes the display's.
LEMMA LoadEnds ==
  ASSUME NEW v, NEW d \in Displays, Settled(v, d, None), NEW y \in Maybe(ToSet(v.layouts)), NEW u, u = WithLayout(v, d, y)
  PROVE  LoadEnd(v, d, y, u)
<1>1. v \in Screens /\ Core(v, None)
  BY SettledFew
<1>2. u = Focusing(v, d, v.forecv[d], v.dfore[d], v.dother[d], y, v.display, v.fore, v.flayer)
  BY <1>1, FocusLayout DEF WithLayout
<1>3. v.forecv[d] \in Maybe(Canvases) /\ v.display \in Maybe(Displays)
  BY <1>1, Types DEF OthersTyped
<1>4. /\ v.dfore[d] \in Maybe(Existing(v)) /\ v.dother[d] \in Maybe(Existing(v)) /\ v.fore \in Maybe(Existing(v))
      /\ v.flayer \in Maybe(Alive(v))
  BY <1>1 DEF Core, Points
<1>5. PICK c \in Maybe(Canvases), w \in Maybe(Existing(v)), o \in Maybe(Existing(v)), a \in Maybe(Displays),
           f \in Maybe(Existing(v)), l \in Maybe(Alive(v)) :
        c = v.forecv[d] /\ w = v.dfore[d] /\ o = v.dother[d] /\ a = v.display /\ f = v.fore /\ l = v.flayer
  BY <1>3, <1>4
<1>6. u = Focusing(v, d, c, w, o, y, a, f, l)
  BY <1>2, <1>5
<1>7. /\ Refocused(v, d, u) /\ Aside(v, u, d) /\ u.forecv[d] = c /\ u.dfore[d] = w /\ u.dother[d] = o
      /\ u.dlayout[d] = y /\ u.display = a /\ u.fore = f /\ u.flayer = l
  BY <1>6, FocusingSound
<1>8. QED
  BY <1>5, <1>7 DEF LoadEnd

\* There are finitely many canvases.
LEMMA FinitePools == IsFiniteSet(Canvases)
<1>1. CanvasPool \in Seq(Canvases) /\ IsInjective(CanvasPool)
  BY PoolsAssumption
<1>2. QED
  BY <1>1, ListCount DEF Canvases

\* What LoadLayout leaves behind.
LoadOn(t, d, y, u) ==
  /\ Settled(u, None, None) /\ Shown(u) /\ Aside(t, u, d) /\ Existing(u) = Existing(t) /\ OnOthers(u) \subseteq OnOthers(t)
  /\ u.display = d /\ u.displays = t.displays /\ u.layouts = t.layouts /\ u.last = t.last
  /\ u.detachwin = t.detachwin /\ u.detachotherwin = t.detachotherwin /\ u.dlayout[d] = y

\* There are canvases enough for the layout y.
Fits(t, d, y) ==
  \/ MaxRegions <= Cardinality(Spare(t, d))
  \/ y # t.dlayout[d] /\ Len(t.lay[y].wins) <= Cardinality(Spare(t, d))

\* LoadLayout leaves the other displays alone.
LEMMA LoadSound ==
  ASSUME NEW t, Settled(t, None, None), Shown(t), NEW d \in Displays, d \in ToSet(t.displays), t.display = d,
         NEW y \in ToSet(t.layouts), Fits(t, d, y), NEW u, u = LoadLayout(t, y)
  PROVE  LoadOn(t, d, y, u)
<1>1. PICK a : a = AutosaveLayout(t, d)
  OBVIOUS
<1>2. PICK b : b = FreeAllCanvases(a, d)
  OBVIOUS
<1>3. PICK new : new = NewCanvases(b, Len(b.lay[y].wins))
  OBVIOUS
<1>4. PICK p : p = PutLayout(b, y, new)
  OBVIOUS
<1>5. PICK v : v = ResizeLayersToCanvases(p, d)
  OBVIOUS
<1>6. u = WithLayout(v, d, y)
  BY <1>1, <1>2, <1>3, <1>4, <1>5 DEF LoadLayout, With, WithLayout
<1>7. t \in Screens /\ Focused(t, d) /\ y \in Layouts /\ d # None
  <2>1. t \in Screens /\ t.layouts \in Seq(Layouts) /\ d # None
    BY SettledFew, Types, Apart DEF OthersTyped
  <2>2. y \in Layouts
    BY <2>1, ElementOfSeq, LenProperties DEF ToSet
  <2>3. QED
    BY <2>1, <2>2 DEF Settled
<1>8. /\ Refiled(t, None, a) /\ a.layouts = t.layouts /\ a.dlayout = t.dlayout
      /\ t.dlayout[d] # None => Saving(a.lay[t.dlayout[d]])
      /\ \A z \in Layouts : z # t.dlayout[d] => a.lay[z] = t.lay[z]
  BY <1>1, <1>7, AutosaveSound
<1>9. /\ Settled(a, None, None) /\ Shown(a) /\ a.display = d /\ a.displays = t.displays /\ a.last = t.last
      /\ Existing(a) = Existing(t) /\ OnOthers(a) = OnOthers(t) /\ Aside(t, a, d) /\ a.owner = t.owner
      /\ a.detachwin = t.detachwin /\ a.detachotherwin = t.detachotherwin
  BY <1>8 DEF Refiled, Pointers, SameLayers
<1>10. Settled(a, d, None)
  BY <1>9, FocusLeft
<1>11. /\ FreedSome(a, d, b, Others(a, d, None)) /\ (\A c \in Canvases : b.owner[c] # d)
       /\ \A n : CanvasesLeft(b, n) <=> n <= Cardinality(Spare(a, d))
  BY <1>2, <1>9, <1>10, SpareIs
<1>12. /\ Settled(b, d, None) /\ Shown(b) /\ Aside(a, b, d) /\ Beside(a, b) /\ b.display = d
       /\ Existing(b) = Existing(t) /\ OnOthers(b) \subseteq OnOthers(t)
  BY <1>9, <1>11 DEF FreedSome
<1>13. b.lay = a.lay /\ b.layouts = t.layouts /\ b.displays = t.displays /\ b.last = t.last
       /\ b.detachwin = t.detachwin /\ b.detachotherwin = t.detachotherwin
  BY <1>8, <1>9, <1>12 DEF Beside
<1>14. Saving(b.lay[y])
  BY <1>8, <1>9, <1>13 DEF Settled, Filed
<1>15. Len(b.lay[y].wins) \in Nat /\ CanvasesLeft(b, Len(b.lay[y].wins))
  <2>1. Len(b.lay[y].wins) \in 1 .. MaxRegions
    BY <1>14 DEF Saving
  <2>2. Spare(a, d) = Spare(t, d)
    BY <1>9 DEF Spare
  <2>3. CASE MaxRegions <= Cardinality(Spare(t, d))
    <3>1. Cardinality(Spare(t, d)) \in Nat
      <4>1. IsFiniteSet(Canvases)
        BY FinitePools
      <4>2. IsFiniteSet(Spare(t, d))
        BY <4>1, FS_Subset DEF Spare
      <4>3. QED
        BY <4>2, FS_CardinalityType
    <3>2. Len(b.lay[y].wins) <= Cardinality(Spare(t, d))
      BY <2>1, <2>3, <3>1, WindowsAssumption
    <3>3. QED
      BY <1>11, <2>1, <2>2, <3>2
  <2>4. CASE y # t.dlayout[d] /\ Len(t.lay[y].wins) <= Cardinality(Spare(t, d))
    <3>1. b.lay[y] = t.lay[y]
      BY <1>7, <1>8, <1>13, <2>4
    <3>2. QED
      BY <1>11, <2>1, <2>2, <2>4, <3>1
  <2>5. QED
    BY <2>3, <2>4 DEF Fits
<1>16. Taking(b, d, y, new)
  BY <1>3, <1>15, UnusedCanvases DEF Taking
<1>17. PICK f : PutOn(b, d, new, f, p)
  BY <1>4, <1>7, <1>11, <1>12, <1>14, <1>16, PutSound
<1>18. /\ Settled(p, d, None) /\ Aside(b, p, d) /\ Shown(p) /\ Beside(b, p) /\ p.display = d
       /\ Existing(p) = Existing(t) /\ OnOthers(p) \subseteq OnOthers(t)
       /\ p.cvs[d] = new /\ p.forecv[d] = f /\ f \in ToSet(new) /\ f \in Canvases /\ p.dfore[d] = Shows(p, f)
  BY <1>12, <1>17 DEF PutOn
<1>19. Settled(v, d, None) /\ Shown(v) /\ Calm(p, v) /\ Resized(p, v) /\ Existing(v) = Existing(p) /\ Aside(p, v, d)
  BY <1>5, <1>18, RefitSettled
<1>20. /\ v.cvs = p.cvs /\ v.forecv = p.forecv /\ v.dfore = p.dfore /\ v.displays = t.displays /\ v.layouts = t.layouts
       /\ v.lay = a.lay /\ v.last = t.last /\ v.display = d
       /\ v.detachwin = t.detachwin /\ v.detachotherwin = t.detachotherwin
  BY <1>13, <1>18, <1>19 DEF Calm, Beside
<1>21. /\ Shows(v, f) = Shows(p, f) /\ OnOthers(v) \subseteq OnOthers(t)
  BY <1>18, <1>19 DEF Resized
<1>22. LoadEnd(v, d, y, u)
  <2>1. y \in Maybe(ToSet(v.layouts))
    BY <1>20 DEF Maybe
  <2>2. QED
    BY <1>6, <1>19, <2>1, LoadEnds
<1>23. /\ Refocused(v, d, u) /\ Aside(v, u, d) /\ u.forecv[d] = f /\ u.dfore[d] = Shows(p, f) /\ u.dlayout[d] = y /\ u.display = d
  BY <1>18, <1>20, <1>22 DEF LoadEnd
<1>24. /\ Settled(u, d, None) /\ Shown(u) /\ u.cvs = v.cvs /\ u.displays = t.displays /\ u.layouts = t.layouts /\ u.lay = a.lay
       /\ u.last = t.last /\ Existing(u) = Existing(t) /\ OnOthers(u) \subseteq OnOthers(t)
       /\ u.detachwin = t.detachwin /\ u.detachotherwin = t.detachotherwin /\ Shows(u, f) = Shows(p, f)
  BY <1>18, <1>19, <1>20, <1>21, <1>23 DEF Refocused
<1>25. Focused(u, d)
  BY <1>18, <1>20, <1>23, <1>24 DEF Focused
<1>26. Settled(u, None, None)
  <2>1. Filed(u)
    BY <1>8, <1>9, <1>24, FiledSame
  <2>2. QED
    BY <1>24, <1>25, <2>1, FocusBack
<1>27. Aside(t, u, d)
  <2>1. Aside(t, b, d)
    BY <1>9, <1>12, AsideJoins
  <2>2. Aside(t, p, d)
    BY <1>18, <2>1, AsideJoins
  <2>3. Aside(t, v, d)
    BY <1>19, <2>2, AsideJoins
  <2>4. QED
    BY <1>23, <2>3, AsideJoins
<1>28. QED
  BY <1>23, <1>24, <1>26, <1>27 DEF LoadOn

\* layout select
LEMMA SelectSound ==
  ASSUME NEW t, NEW d, Current(t, d), NEW y \in ToSet(t.layouts), y # t.dlayout[d],
         CanvasesLeft(FreeAllCanvases(t, d), Len(t.lay[y].wins)), NEW u, u = Activate(LoadLayout(t, y))
  PROVE  Moves(t, d, u) /\ Existing(u) = Existing(t)
<1>1. /\ Settled(t, None, None) /\ Shown(t) /\ d \in Displays /\ d \in ToSet(t.displays) /\ t.display = d /\ d # None
  BY CurrentFacts
<1>2. Fits(t, d, y)
  <2>1. Settled(t, d, None)
    BY <1>1, FocusLeft
  <2>2. PICK b : b = FreeAllCanvases(t, d)
    OBVIOUS
  <2>3. \A n : CanvasesLeft(b, n) <=> n <= Cardinality(Spare(t, d))
    BY <1>1, <2>1, <2>2, SpareIs
  <2>4. CanvasesLeft(b, Len(t.lay[y].wins))
    BY <2>2
  <2>5. QED
    BY <2>3, <2>4 DEF Fits
<1>3. PICK v : v = LoadLayout(t, y)
  OBVIOUS
<1>4. LoadOn(t, d, y, v)
  BY <1>1, <1>2, <1>3, LoadSound
<1>5. Settled(v, None, None) /\ Shown(v) /\ Aside(t, v, d) /\ Existing(v) = Existing(t) /\ v.display = d /\ v.displays = t.displays
  BY <1>4 DEF LoadOn
<1>6. Settled(u, None, None) /\ Shown(u) /\ ForeSeen(u) /\ Activated(v, d, u) /\ Aside(v, u, d)
  BY <1>1, <1>3, <1>5, ActivateSettled
<1>7. Existing(u) = Existing(t)
  BY <1>5, <1>6 DEF Activated, Resized, Steady
<1>8. Aside(t, u, d)
  BY <1>5, <1>6, AsideJoins
<1>9. QED
  BY <1>6, <1>7, <1>8 DEF Moves, Fine

\* The display d shows nothing, in one region, and has no layout.
NoneOn(t, d, u) ==
  /\ Settled(u, d, None) /\ Focused(u, d) /\ Shown(u) /\ Aside(t, u, d) /\ Existing(u) = Existing(t) /\ OnOthers(u) \subseteq OnOthers(t)
  /\ u.display = d /\ u.displays = t.displays /\ u.layouts = t.layouts /\ u.last = t.last /\ u.dlayout[d] = None
  /\ t.dlayout[d] # None => Saving(u.lay[t.dlayout[d]])
  /\ \A z \in Layouts : z # t.dlayout[d] => u.lay[z] = t.lay[z]

\* LoadNone leaves one blank canvas.
LEMMA NoneSound ==
  ASSUME NEW t, NEW d \in Displays, Settled(t, d, None), Shown(t), d \in ToSet(t.displays), t.display = d, Focused(t, d),
         NEW u, u = LoadNone(t, d)
  PROVE  NoneOn(t, d, u)
<1>1. PICK a : a = AutosaveLayout(t, d)
  OBVIOUS
<1>2. PICK b : b = FreeAllCanvases(a, d)
  OBVIOUS
<1>3. PICK m : m = MakeDefaultCanvas(b, d)
  OBVIOUS
<1>4. PICK v : v = SetCanvasWindow(m, m.forecv[d], None)
  OBVIOUS
<1>5. u = WithLayout(v, d, None)
  BY <1>1, <1>2, <1>3, <1>4 DEF LoadNone, With, WithLayout
<1>6. /\ Refiled(t, d, a) /\ a.layouts = t.layouts /\ a.dlayout = t.dlayout
      /\ t.dlayout[d] # None => Saving(a.lay[t.dlayout[d]])
      /\ \A z \in Layouts : z # t.dlayout[d] => a.lay[z] = t.lay[z]
  BY <1>1, AutosaveSound
<1>7. /\ Settled(a, d, None) /\ Shown(a) /\ a.display = d /\ a.displays = t.displays /\ a.last = t.last
      /\ Existing(a) = Existing(t) /\ OnOthers(a) = OnOthers(t) /\ Aside(t, a, d) /\ a.owner = t.owner
  BY <1>6 DEF Refiled, Pointers, SameLayers
<1>8. /\ FreedSome(a, d, b, Others(a, d, None)) /\ (\A c \in Canvases : b.owner[c] # d)
      /\ \A n : CanvasesLeft(b, n) <=> n <= Cardinality(Spare(a, d))
  BY <1>2, <1>7, SpareIs
<1>9. /\ Settled(b, d, None) /\ Shown(b) /\ Aside(a, b, d) /\ Beside(a, b) /\ b.display = d
      /\ Existing(b) = Existing(t) /\ OnOthers(b) \subseteq OnOthers(t)
  BY <1>7, <1>8 DEF FreedSome
<1>10. CanvasesLeft(b, 1)
  <2>1. t.forecv[d] \in ToSet(t.cvs[d])
    BY DEF Focused
  <2>2. t.forecv[d] \in Canvases /\ t.owner[t.forecv[d]] = d
    BY <2>1, SettledOwner
  <2>3. t.forecv[d] \in Spare(a, d)
    BY <1>7, <2>2 DEF Spare
  <2>4. IsFiniteSet(Spare(a, d))
    BY FinitePools, FS_Subset DEF Spare
  <2>5. Cardinality(Spare(a, d)) \in Nat /\ Cardinality(Spare(a, d)) # 0
    BY <2>3, <2>4, FS_CardinalityType, FS_EmptySet
  <2>6. QED
    BY <1>8, <2>5
<1>11. PICK c \in Canvases : NewOn(b, d, c, <<c>>, c, m)
  BY <1>3, <1>8, <1>9, <1>10, DefaultSound
<1>12. /\ Settled(m, d, None) /\ Aside(b, m, d) /\ Existing(m) = Existing(t) /\ OnOthers(m) \subseteq OnOthers(t) /\ Shown(m)
       /\ m.cvs[d] = <<c>> /\ m.forecv[d] = c /\ m.owner[c] = d /\ Beside(b, m) /\ m.display = d
  BY <1>9, <1>11 DEF NewOn, Pointers
<1>13. Settled(v, d, None) /\ Placed(m, d, c, None, v) /\ Aside(m, v, d) /\ Shown(v)
  <2>1. None \in Maybe(Existing(m))
    BY DEF Maybe
  <2>2. v = SetCanvasWindow(m, c, None)
    BY <1>4, <1>12
  <2>3. QED
    BY <1>12, <2>1, <2>2, SetSettled
<1>14. /\ Framed(m, v) /\ v.display = d /\ Existing(v) = Existing(t) /\ OnOthers(v) \subseteq OnOthers(t)
       /\ Shows(v, c) = None /\ v.dfore[d] = None
  BY <1>12, <1>13 DEF Placed
<1>15. v.cvs[d] = <<c>> /\ v.forecv[d] = c /\ v.displays = t.displays /\ v.layouts = t.layouts /\ v.last = t.last /\ v.lay = a.lay
  BY <1>6, <1>7, <1>9, <1>12, <1>14 DEF Framed, Beside
<1>16. LoadEnd(v, d, None, u)
  <2>1. None \in Maybe(ToSet(v.layouts))
    BY DEF Maybe
  <2>2. QED
    BY <1>5, <1>13, <2>1, LoadEnds
<1>17. /\ Refocused(v, d, u) /\ Aside(v, u, d) /\ u.forecv[d] = c /\ u.dfore[d] = None /\ u.dlayout[d] = None /\ u.display = d
  BY <1>14, <1>15, <1>16 DEF LoadEnd
<1>18. /\ Settled(u, d, None) /\ Shown(u) /\ u.cvs = v.cvs /\ u.displays = t.displays /\ u.layouts = t.layouts /\ u.lay = a.lay
       /\ u.last = t.last /\ Existing(u) = Existing(t) /\ OnOthers(u) \subseteq OnOthers(t) /\ Shows(u, c) = None
  BY <1>13, <1>14, <1>15, <1>17 DEF Refocused
<1>19. Focused(u, d)
  <2>1. c \in ToSet(<<c>>)
    BY DEF ToSet
  <2>2. QED
    BY <1>15, <1>17, <1>18, <2>1 DEF Focused
<1>20. Aside(t, u, d)
  <2>1. Aside(t, m, d)
    BY <1>7, <1>9, <1>12, AsideJoins
  <2>2. QED
    BY <1>13, <1>17, <2>1, AsideJoins
<1>21. QED
  BY <1>6, <1>17, <1>18, <1>19, <1>20 DEF NoneOn

Relisted(t, d, ls) == [t EXCEPT !.layouts = ls]
Filing(t, d, y, lay) == [t EXCEPT !.lay[y] = lay, !.dlayout[d] = y]
Unfiling(t, d, y, ls, z) == [t EXCEPT !.layouts = ls, !.dlayout[d] = z, !.lay[y] = NoLayout]
Relaid(f, y, lay) == [f EXCEPT ![y] = lay]

\* Setting the layouts, in all the forms of the model.
LEMMA RelistedIs ==
  ASSUME NEW t \in Screens, NEW d \in Displays, NEW y, NEW lay, NEW ls, NEW z
  PROVE  /\ Relisted(t, d, ls) = Refiling(t, d, ls, t.dlayout[d], t.lay)
         /\ Filing(t, d, y, lay) = Refiling(t, d, t.layouts, y, Relaid(t.lay, y, lay))
         /\ Unfiling(t, d, y, ls, z) = Refiling(t, d, ls, z, Relaid(t.lay, y, NoLayout))
<1>1. [t.dlayout EXCEPT ![d] = t.dlayout[d]] = t.dlayout
  BY SameFields
<1>2. Relisted(t, d, ls) = Refiling(t, d, ls, t.dlayout[d], t.lay)
  BY <1>1 DEF Relisted, Refiling, Screens
<1>3. Filing(t, d, y, lay) = Refiling(t, d, t.layouts, y, Relaid(t.lay, y, lay))
  BY DEF Filing, Refiling, Relaid, Screens
<1>4. Unfiling(t, d, y, ls, z) = Refiling(t, d, ls, z, Relaid(t.lay, y, NoLayout))
  BY DEF Unfiling, Refiling, Relaid, Screens
<1>5. QED
  BY <1>2, <1>3, <1>4

\* layout new
LEMMA NewLayoutSound ==
  ASSUME NEW t, NEW d, Current(t, d), NEW y \in Layouts \ ToSet(t.layouts), NEW u, u = Activate(NewLayout(t, d, y))
  PROVE  Moves(t, d, u) /\ Existing(u) = Existing(t)
<1> DEFINE ls == Cons(y, t.layouts)
           x == t.dlayout[d]
<1>1. /\ Settled(t, None, None) /\ Shown(t) /\ d \in Displays /\ d \in ToSet(t.displays) /\ t.display = d /\ d # None
      /\ t \in Screens
  BY CurrentFacts
<1>2. /\ t.lay \in [Layouts -> LayoutType] /\ t.layouts \in Seq(Layouts) /\ IsInjective(t.layouts)
      /\ Settled(t, d, None) /\ Focused(t, d) /\ LayoutsKept(t) /\ Filed(t)
  <2>1. t.lay \in [Layouts -> LayoutType] /\ t.layouts \in Seq(Layouts)
    BY <1>1, Types DEF OthersTyped, LayoutType
  <2>2. Settled(t, d, None)
    BY <1>1, FocusLeft
  <2>3. Focused(t, d) /\ LayoutsKept(t) /\ Filed(t)
    BY <1>1 DEF Settled
  <2>4. QED
    BY <2>1, <2>2, <2>3 DEF LayoutsKept
<1>3. PICK a : a = Relisted(t, d, ls)
  OBVIOUS
<1>4. PICK b : b = LoadNone(a, d)
  OBVIOUS
<1>5. PICK lay : lay = DupLayout(b, d)
  OBVIOUS
<1>6. PICK v : v = Filing(b, d, y, lay)
  OBVIOUS
<1>7. u = Activate(v)
  BY <1>3, <1>4, <1>5, <1>6 DEF NewLayout, With, Relisted, Filing
<1>8. ls \in Seq(Layouts) /\ IsInjective(ls) /\ \A z : z \in ToSet(ls) <=> z = y \/ z \in ToSet(t.layouts)
  BY <1>2, ConsIs
<1> HIDE DEF ls
<1>9. Refilable(t, d, d, ls, x, t.lay)
  <2>1. \A e \in Displays : t.dlayout[e] \in Maybe(ToSet(ls))
    BY <1>2, <1>8 DEF LayoutsKept, Maybe
  <2>2. t.last \in Maybe(ToSet(ls))
    BY <1>2, <1>8 DEF LayoutsKept, Maybe
  <2>3. \A z \in Layouts : ToSet(t.lay[z].wins) \subseteq Maybe(Existing(t))
    BY <1>2 DEF LayoutsKept
  <2>4. QED
    BY <1>1, <1>2, <1>8, <2>1, <2>2, <2>3 DEF Refilable
<1>10. Refiled(t, d, a) /\ a.layouts = ls /\ a.lay = t.lay /\ a.dlayout[d] = x
  <2>1. PICK f, z : f = t.lay /\ z = x
    OBVIOUS
  <2>2. a = Refiling(t, d, ls, z, f)
    BY <1>1, <1>3, <2>1, RelistedIs
  <2>3. Refilable(t, d, d, ls, z, f)
    BY <1>9, <2>1
  <2>4. Refiled(t, d, a) /\ a.layouts = ls /\ a.lay = f /\ a.dlayout[d] = z
    BY <1>1, <1>2, <2>2, <2>3, RefilingSound
  <2>5. QED
    BY <2>1, <2>4
<1>11. /\ Settled(a, d, None) /\ Shown(a) /\ a.display = d /\ a.displays = t.displays
       /\ Existing(a) = Existing(t) /\ Aside(t, a, d) /\ a.dfore = t.dfore /\ a.forecv = t.forecv /\ a.cvs = t.cvs
       /\ \A c : Shows(a, c) = Shows(t, c)
  BY <1>1, <1>10 DEF Refiled, Pointers
<1>12. Focused(a, d)
  BY <1>1, <1>2, <1>11 DEF Focused
<1>13. NoneOn(a, d, b)
  BY <1>1, <1>4, <1>11, <1>12, NoneSound
<1>14. /\ Settled(b, d, None) /\ Focused(b, d) /\ Shown(b) /\ Aside(a, b, d) /\ Existing(b) = Existing(t)
       /\ b.display = d /\ b.displays = t.displays /\ b.layouts = ls
       /\ x # None => Saving(b.lay[x])
       /\ \A z \in Layouts : z # x => b.lay[z] = t.lay[z]
  BY <1>10, <1>11, <1>13 DEF NoneOn
<1>15. lay \in LayoutType /\ Saving(lay) /\ ToSet(lay.wins) \subseteq Maybe(Existing(b))
  BY <1>1, <1>5, <1>14, DupIs
<1>16. b \in Screens /\ b.lay \in [Layouts -> LayoutType] /\ LayoutsKept(b)
  <2>1. b \in Screens
    BY <1>14, SettledFew
  <2>2. QED
    BY <1>14, <2>1, Types DEF OthersTyped, LayoutType, Settled
<1>17. PICK f : f = Relaid(b.lay, y, lay)
  OBVIOUS
<1>18. f \in [Layouts -> LayoutType] /\ f[y] = lay /\ \A z \in Layouts : z # y => f[z] = b.lay[z]
  BY <1>15, <1>16, <1>17 DEF Relaid
<1>19. v = Refiling(b, d, ls, y, f)
  <2>1. Filing(b, d, y, lay) = Refiling(b, d, b.layouts, y, Relaid(b.lay, y, lay))
    BY <1>1, <1>16, RelistedIs
  <2>2. b.layouts = ls
    BY <1>14
  <2>3. QED
    BY <1>6, <1>17, <2>1, <2>2, Zenon
<1>20. Refilable(b, d, d, ls, y, f)
  <2>1. \A e \in Displays : b.dlayout[e] \in Maybe(ToSet(ls))
    BY <1>14, <1>16 DEF LayoutsKept
  <2>2. b.last \in Maybe(ToSet(ls)) /\ y \in Maybe(ToSet(ls))
    BY <1>8, <1>14, <1>16 DEF LayoutsKept, Maybe
  <2>3. \A z \in Layouts : ToSet(f[z].wins) \subseteq Maybe(Existing(b))
    BY <1>15, <1>16, <1>18 DEF LayoutsKept
  <2>4. d # None
    BY <1>1
  <2>5. QED
    BY <1>8, <1>18, <2>1, <2>2, <2>3, <2>4 DEF Refilable
<1>21. Refiled(b, d, v) /\ v.layouts = ls /\ v.lay = f
  BY <1>1, <1>14, <1>19, <1>20, RefilingSound
<1>22. /\ Settled(v, d, None) /\ Shown(v) /\ v.display = d /\ v.displays = t.displays
       /\ Existing(v) = Existing(t) /\ Aside(b, v, d) /\ v.dfore = b.dfore /\ v.forecv = b.forecv /\ v.cvs = b.cvs
       /\ \A c : Shows(v, c) = Shows(b, c)
  BY <1>14, <1>21 DEF Refiled, Pointers
<1>23. Focused(v, d)
  BY <1>1, <1>14, <1>22 DEF Focused
<1>24. Filed(v)
  <2>1. ASSUME NEW z \in ToSet(ls) PROVE Saving(f[z])
    <3>1. z \in Layouts
      BY <1>8, ElementOfSeq, LenProperties DEF ToSet
    <3>2. CASE z = y
      BY <1>15, <1>18, <3>2
    <3>3. CASE z # y /\ z = x
      <4>1. x # None
        BY <3>1, <3>3, Apart
      <4>2. QED
        BY <1>14, <1>18, <3>1, <3>3, <4>1
    <3>4. CASE z # y /\ z # x
      <4>1. f[z] = t.lay[z] /\ z \in ToSet(t.layouts)
        BY <1>8, <1>14, <1>18, <3>1, <3>4
      <4>2. QED
        BY <1>2, <4>1 DEF Filed
    <3>5. QED
      BY <3>2, <3>3, <3>4
  <2>2. QED
    BY <1>21, <2>1 DEF Filed
<1>25. Settled(v, None, None)
  BY <1>1, <1>22, <1>23, <1>24, FocusBack
<1>26. Settled(u, None, None) /\ Shown(u) /\ ForeSeen(u) /\ Activated(v, d, u) /\ Aside(v, u, d)
  BY <1>1, <1>7, <1>22, <1>25, ActivateSettled
<1>27. Existing(u) = Existing(t)
  BY <1>22, <1>26 DEF Activated, Resized, Steady
<1>28. Aside(t, u, d)
  <2>1. Aside(t, b, d)
    BY <1>11, <1>14, AsideJoins
  <2>2. Aside(b, u, d)
    BY <1>22, <1>26, AsideJoins
  <2>3. QED
    BY <2>1, <2>2, AsideJoins
<1>29. QED
  BY <1>26, <1>27, <1>28 DEF Moves, Fine

\* layout remove
LEMMA RemoveSound ==
  ASSUME NEW t, NEW d, Current(t, d), NEW y \in ToSet(t.layouts), t.last # y,
         \A e \in ToSet(t.displays) \ {d} : t.dlayout[e] # y, CanvasesLeft(FreeAllCanvases(t, d), MaxRegions),
         NEW u, u = RemoveLayout(t, d, y)
  PROVE  Moves(t, d, u) /\ Existing(u) = Existing(t)
<1>1. /\ Settled(t, None, None) /\ Shown(t) /\ d \in Displays /\ d \in ToSet(t.displays) /\ t.display = d /\ d # None
      /\ t \in Screens
  BY CurrentFacts
<1>2. /\ t.lay \in [Layouts -> LayoutType] /\ t.layouts \in Seq(Layouts) /\ IsInjective(t.layouts)
      /\ Settled(t, d, None) /\ LayoutsKept(t) /\ Filed(t)
  <2>1. t.lay \in [Layouts -> LayoutType] /\ t.layouts \in Seq(Layouts)
    BY <1>1, Types DEF OthersTyped, LayoutType
  <2>2. Settled(t, d, None)
    BY <1>1, FocusLeft
  <2>3. LayoutsKept(t) /\ Filed(t)
    BY <1>1 DEF Settled
  <2>4. QED
    BY <2>1, <2>2, <2>3 DEF LayoutsKept
<1>3. PICK ls : ls = RemoveFirst(t.layouts, y)
  OBVIOUS
<1>4. PICK mine : mine = IF t.dlayout[d] = y THEN None ELSE t.dlayout[d]
  OBVIOUS
<1>5. PICK a : a = Unfiling(t, d, y, ls, mine)
  OBVIOUS
<1>6. PICK next : next = IF mine # None THEN mine ELSE IF After(t.layouts, y) # None THEN After(t.layouts, y) ELSE Head(ls)
  OBVIOUS
<1>7. u = Activate(IF ls = <<>> THEN a ELSE LoadLayout(a, next))
  BY <1>3, <1>4, <1>5, <1>6 DEF RemoveLayout, Unfiling
<1>8. ls \in Seq(Layouts) /\ IsInjective(ls) /\ \A z : z \in ToSet(ls) <=> z \in ToSet(t.layouts) /\ z # y
  BY <1>2, <1>3, RemovedIs
<1>9. ToSet(t.layouts) \subseteq Layouts
  BY <1>2, ElementOfSeq, LenProperties DEF ToSet
<1>10. PICK f : f = Relaid(t.lay, y, NoLayout)
  OBVIOUS
<1>11. f \in [Layouts -> LayoutType] /\ f[y] = NoLayout /\ \A z \in Layouts : z # y => f[z] = t.lay[z]
  <2>1. NoLayout \in LayoutType
    BY DEF NoLayout, LayoutType
  <2>2. y \in Layouts
    BY <1>9
  <2>3. QED
    BY <1>2, <1>10, <2>1, <2>2 DEF Relaid
<1>12. a = Refiling(t, d, ls, mine, f)
  <2>1. Unfiling(t, d, y, ls, mine) = Refiling(t, d, ls, mine, Relaid(t.lay, y, NoLayout))
    BY <1>1, RelistedIs
  <2>2. QED
    BY <1>5, <1>10, <2>1, Zenon
<1>13. mine \in Maybe(ToSet(ls))
  BY <1>1, <1>2, <1>4, <1>8 DEF LayoutsKept, Maybe
<1>14. Refilable(t, None, d, ls, mine, f)
  <2>1. ASSUME NEW e \in Displays, e # d PROVE t.dlayout[e] \in Maybe(ToSet(ls))
    <3>1. CASE e \in ToSet(t.displays)
      BY <1>2, <1>8, <2>1, <3>1 DEF LayoutsKept, Maybe
    <3>2. CASE e \notin ToSet(t.displays)
      <4>1. Focused(t, e)
        BY <1>1, <2>1, Apart DEF Settled
      <4>2. QED
        BY <3>2, <4>1 DEF Focused, Maybe
    <3>3. QED
      BY <3>1, <3>2
  <2>2. t.last \in Maybe(ToSet(ls))
    BY <1>2, <1>8 DEF LayoutsKept, Maybe
  <2>3. \A z \in Layouts : ToSet(f[z].wins) \subseteq Maybe(Existing(t))
    <3>1. ToSet(NoLayout.wins) = {}
      BY DEF NoLayout, ToSet
    <3>2. QED
      BY <1>2, <1>11, <3>1 DEF LayoutsKept
  <2>4. \A z \in ToSet(ls) : Saving(f[z])
    BY <1>2, <1>8, <1>9, <1>11 DEF Filed
  <2>5. QED
    BY <1>8, <1>11, <1>13, <2>1, <2>2, <2>3, <2>4 DEF Refilable
<1>15. Refiled(t, None, a) /\ a.layouts = ls /\ a.lay = f /\ a.dlayout[d] = mine
  BY <1>1, <1>12, <1>14, RefilingSound
<1>16. /\ Settled(a, None, None) /\ Shown(a) /\ a.display = d /\ a.displays = t.displays
       /\ Existing(a) = Existing(t) /\ Aside(t, a, d) /\ a.owner = t.owner
  BY <1>1, <1>15 DEF Refiled, Pointers, SameLayers
<1>17. PICK v : v = IF ls = <<>> THEN a ELSE LoadLayout(a, next)
  OBVIOUS
<1>18. Settled(v, None, None) /\ Shown(v) /\ v.display = d /\ v.displays = t.displays /\ Existing(v) = Existing(t) /\ Aside(t, v, d)
  <2>1. CASE ls = <<>>
    BY <1>16, <1>17, <2>1
  <2>2. CASE ls # <<>>
    <3>1. next \in ToSet(ls)
      <4>1. CASE mine # None
        BY <1>6, <1>13, <4>1 DEF Maybe
      <4>2. CASE mine = None /\ After(t.layouts, y) # None
        BY <1>2, <1>6, <1>8, <4>2, AfterIs
      <4>3. CASE mine = None /\ After(t.layouts, y) = None
        <5>1. Len(ls) \in Nat /\ Len(ls) # 0 /\ DOMAIN ls = 1 .. Len(ls)
          BY <1>8, <2>2, EmptySeq, LenProperties
        <5>2. 1 \in DOMAIN ls
          BY <5>1
        <5>3. ToSet(ls) # {}
          BY <5>2 DEF ToSet
        <5>4. QED
          BY <1>6, <1>8, <4>3, <5>3, HeadIn
      <4>4. QED
        BY <4>1, <4>2, <4>3
    <3>2. Fits(a, d, next)
      <4>1. PICK b : b = FreeAllCanvases(t, d)
        OBVIOUS
      <4>2. \A n : CanvasesLeft(b, n) <=> n <= Cardinality(Spare(t, d))
        BY <1>1, <1>2, <4>1, SpareIs
      <4>3. CanvasesLeft(b, MaxRegions)
        BY <4>1
      <4>4. Spare(a, d) = Spare(t, d)
        BY <1>16 DEF Spare
      <4>5. QED
        BY <4>2, <4>3, <4>4 DEF Fits
    <3>3. v = LoadLayout(a, next)
      BY <1>17, <2>2
    <3>4. next \in ToSet(a.layouts)
      BY <1>15, <3>1
    <3>5. LoadOn(a, d, next, v)
      BY <1>1, <1>16, <3>2, <3>3, <3>4, LoadSound
    <3>6. QED
      BY <1>16, <3>5, AsideJoins DEF LoadOn
  <2>3. QED
    BY <2>1, <2>2
<1>19. u = Activate(v)
  BY <1>7, <1>17
<1>20. Settled(u, None, None) /\ Shown(u) /\ ForeSeen(u) /\ Activated(v, d, u) /\ Aside(v, u, d)
  BY <1>1, <1>18, <1>19, ActivateSettled
<1>21. Existing(u) = Existing(t)
  BY <1>18, <1>20 DEF Activated, Resized, Steady
<1>22. Aside(t, u, d)
  BY <1>18, <1>20, AsideJoins
<1>23. QED
  BY <1>20, <1>21, <1>22 DEF Moves, Fine

-----------------------------------------------------------------------------
(* Overlays that are left and opened.                                        *)

Starting(t, o, p) == [t EXCEPT !.start[o] = p]

StartingFacts(t, o, p, u) ==
  /\ u.start = [t.start EXCEPT ![o] = p] /\ SameLayers(t, u) /\ Pointers(t, u) /\ u.flayer = t.flayer
  /\ u.displays = t.displays /\ u.cvs = t.cvs /\ u.forecv = t.forecv /\ u.dlayout = t.dlayout
  /\ u.layouts = t.layouts /\ u.lay = t.lay /\ u.last = t.last /\ u.detachwin = t.detachwin
  /\ u.detachotherwin = t.detachotherwin /\ u.kind = t.kind /\ u.size = t.size /\ Whole(u)

\* Setting the start of a window list, field by field.
LEMMA StartingFields ==
  ASSUME NEW t \in Screens, NEW o, NEW p, NEW u, u = Starting(t, o, p)
  PROVE  StartingFacts(t, o, p, u)
<1> DEFINE start == [t.start EXCEPT ![o] = p]
<1>1. u = [t EXCEPT !.start = start]
  BY DEF Starting, Screens
<1> HIDE DEF start
<1>2. u.start = start /\ SameLayers(t, u)
  BY <1>1 DEF Screens, SameLayers
<1>3. Pointers(t, u) /\ u.flayer = t.flayer
  BY <1>1 DEF Screens, Pointers
<1>4. /\ u.displays = t.displays /\ u.cvs = t.cvs /\ u.forecv = t.forecv /\ u.dlayout = t.dlayout
      /\ u.layouts = t.layouts /\ u.lay = t.lay
  BY <1>1 DEF Screens
<1>5. /\ u.last = t.last /\ u.detachwin = t.detachwin
      /\ u.detachotherwin = t.detachotherwin /\ u.kind = t.kind /\ u.size = t.size
  BY <1>1 DEF Screens
<1>6. Whole(u)
  BY <1>1 DEF Screens, Whole
<1>7. QED
  BY <1>2, <1>3, <1>4, <1>5, <1>6 DEF start, StartingFacts

\* Where a window list started is nobody else's business.
LEMMA StartSound ==
  ASSUME NEW t, Settled(t, None, None), Shown(t), NEW o, NEW p \in Maybe(Windows) \union {"gone"},
         NEW u, u = Starting(t, o, p)
  PROVE  /\ Settled(u, None, None) /\ Shown(u) /\ (ForeSeen(t) => ForeSeen(u)) /\ (\A d : Aside(t, u, d))
         /\ Existing(u) = Existing(t) /\ OnOthers(u) = OnOthers(t) /\ u.display = t.display /\ u.displays = t.displays
         /\ Pointers(t, u)
<1>1. t \in Screens /\ Core(t, None) /\ LayersTyped(t) /\ LooksTyped(t) /\ OthersTyped(t)
  BY SettledFew, Types
<1>2. /\ u.start = [t.start EXCEPT ![o] = p] /\ SameLayers(t, u) /\ Pointers(t, u) /\ u.flayer = t.flayer
      /\ u.displays = t.displays /\ u.cvs = t.cvs /\ u.forecv = t.forecv /\ u.dlayout = t.dlayout
      /\ u.layouts = t.layouts /\ u.lay = t.lay /\ u.last = t.last /\ u.detachwin = t.detachwin
      /\ u.detachotherwin = t.detachotherwin /\ u.kind = t.kind /\ u.size = t.size /\ Whole(u)
  <2>1. StartingFacts(t, o, p, u)
    BY <1>1, StartingFields
  <2>2. QED
    BY <2>1 DEF StartingFacts
<1>3. u \in Screens
  <2>1. LayersTyped(u) /\ LooksTyped(u)
    BY <1>1, <1>2 DEF SameLayers, LayersTyped, LooksTyped
  <2>2. u.start \in [Overlays -> Maybe(Windows) \union {"gone"}]
    <3>1. t.start \in [Overlays -> Maybe(Windows) \union {"gone"}]
      BY <1>1 DEF OthersTyped
    <3>2. QED
      BY <1>2, <3>1
  <2>3. OthersTyped(u)
    BY <1>1, <1>2, <2>2 DEF SameLayers, Pointers, OthersTyped
  <2>4. QED
    BY <1>2, <2>1, <2>3, IsScreen
<1>4. /\ Existing(u) = Existing(t) /\ OnOthers(u) = OnOthers(t) /\ Alive(u) = Alive(t)
      /\ \A l : Layer2Window(u, l) = Layer2Window(t, l)
  BY <1>2, SameSound
<1>5. Core(u, None)
  <2>1. Points(u)
    BY <1>1, <1>2, <1>4 DEF Core, Points, Pointers
  <2>2. QED
    BY <1>1, <1>2, <1>3, <2>1, SameSound
<1>6. \A c : Shows(u, c) = Shows(t, c)
  BY <1>2, <1>4 DEF Shows, SameLayers
<1>7. u.owner = t.owner /\ u.mru = t.mru /\ u.cl = t.cl
  BY <1>2 DEF SameLayers
<1>8. LayoutsKept(u) /\ Filed(u)
  BY <1>2, <1>4 DEF Settled, LayoutsKept, Filed
<1>9. ASSUME NEW e \in Displays PROVE Region(u, e) /\ (e # None => Focused(u, e))
  <2>1. Region(u, e)
    BY <1>2, <1>7 DEF Settled, Region
  <2>2. ASSUME e # None PROVE Focused(u, e)
    <3>1. Focused(t, e)
      BY <2>2 DEF Settled
    <3>2. QED
      BY <1>2, <1>6, <3>1 DEF Focused, Pointers
  <2>3. QED
    BY <2>1, <2>2
<1>10. Settled(u, None, None)
  BY <1>4, <1>5, <1>7, <1>8, <1>9 DEF Settled
<1>11. Shown(u) /\ (ForeSeen(t) => ForeSeen(u)) /\ \A e : Aside(t, u, e)
  BY <1>2, <1>6, <1>7 DEF Shown, ForeSeen, Pointers, Aside
<1>12. QED
  BY <1>2, <1>4, <1>10, <1>11 DEF Pointers

\* The canvases of the layer that goes show flayer.
LEMMA ExitShows ==
  ASSUME NEW t, Core(t, None), NEW o, o = t.flayer, o \in Overlays,
         NEW u, u = ExitOverlayPage(t), NEW c \in Canvases, t.cl[c] = o
  PROVE  u.cl[c] = u.flayer
<1>1. t \in Screens /\ LayersTyped(t) /\ o \in Layers
  BY Types, Apart DEF Core
<1>2. PICK to : to = ExitTo(t)
  OBVIOUS
<1>3. u.flayer = to /\ u.cl = [x \in Canvases |-> IF x \in ToSet(t.on[o]) THEN to ELSE t.cl[x]]
  BY <1>1, <1>2 DEF ExitOverlayPage, Screens, ExitTo, Unblocked
<1>4. c \in ToSet(t.on[o])
  BY <1>1 DEF Core, Lists, ListsOf
<1>5. QED
  BY <1>3, <1>4

\* An overlay is left, on the display d.
LeftOn(t, d, u) ==
  /\ Settled(u, None, None) /\ Shown(u) /\ ForeSeen(u) /\ Aside(t, u, d) /\ Existing(u) = Existing(t)
  /\ u.display = d /\ u.displays = t.displays

Closed(t, d, o) == [ExitOverlayPage(t) EXCEPT !.display = d, !.start[o] = None]

\* The topmost overlay is left with a key.
LEMMA CloseSound ==
  ASSUME NEW t, NEW d, Current(t, d), NEW o, o = t.flayer, o \in Overlays, NEW u, u = Closed(t, d, o)
  PROVE  LeftOn(t, d, u)
<1> DEFINE cv == t.forecv[d]
<1>1. /\ Settled(t, None, None) /\ Shown(t) /\ ForeSeen(t) /\ d \in Displays /\ d \in ToSet(t.displays) /\ t.display = d /\ d # None
      /\ t \in Screens /\ Core(t, None) /\ cv \in Canvases /\ t.cl[cv] = o
  BY CurrentFacts DEF Current
<1>2. Top(t, o) /\ o \in OnOthers(t)
  <2>1. Held(t, o)
    BY <1>1 DEF Held
  <2>2. QED
    BY <1>1, <2>1, HeldTop
<1>3. Core(t, o)
  BY <1>1, KeptWeaker
<1>4. PICK v : v = ExitOverlayPage(t)
  OBVIOUS
<1>5. v.cl[cv] = v.flayer
  BY <1>1, <1>4, ExitShows
<1>6. /\ Core(v, v.flayer) /\ v.flayer \in Layers /\ Calm(t, v) /\ Existing(v) = Existing(t)
      /\ \A c \in Canvases : /\ t.cl[c] = None => v.cl[c] = None
                             /\ t.cl[c] # None => v.cl[c] # None /\ Bottom(v, v.cl[c]) = Bottom(t, t.cl[c])
  BY <1>2, <1>3, <1>4, ExitSound
<1>7. Core(v, None)
  <2>1. Kept(v, v.flayer)
    BY <1>6 DEF Core
  <2>2. ~Bare(v, v.flayer)
    BY <1>1, <1>5 DEF Bare
  <2>3. Kept(v, None)
    BY <2>1, <2>2 DEF Kept
  <2>4. QED
    BY <1>6, <2>3 DEF Core
<1>8. \A c \in Canvases : Shows(v, c) = Shows(t, c)
  <2>1. \A c \in Canvases : Bottom(v, v.cl[c]) = Bottom(t, t.cl[c])
    BY <1>6, Apart DEF Bottom, IsOverlay
  <2>2. QED
    BY <2>1 DEF Shows, Layer2Window
<1>9. Still(t, v) /\ v.display = d /\ v.displays = t.displays /\ v.fore = t.fore /\ v.owner = t.owner /\ v.dfore = t.dfore
  BY <1>1, <1>6 DEF Calm, Still, Framed
<1>10. Settled(v, None, None) /\ Aside(t, v, d)
  BY <1>1, <1>6, <1>7, <1>8, <1>9, SettledStill
<1>11. Shown(v) /\ ForeSeen(v)
  BY <1>1, <1>6, <1>9 DEF Shown, ForeSeen
<1>12. u = Starting(v, o, None)
  <2>1. u = [v EXCEPT !.display = d, !.start[o] = None]
    BY <1>4 DEF Closed
  <2>2. v \in Screens
    BY <1>7 DEF Core
  <2>3. QED
    BY <1>9, <2>1, <2>2 DEF Starting, Screens
<1>13. None \in Maybe(Windows) \union {"gone"}
  BY DEF Maybe
<1>14. /\ Settled(u, None, None) /\ Shown(u) /\ ForeSeen(u) /\ Aside(v, u, d)
       /\ Existing(u) = Existing(v) /\ u.display = v.display /\ u.displays = v.displays
  BY <1>10, <1>11, <1>12, <1>13, StartSound
<1>15. Aside(t, u, d)
  BY <1>10, <1>14, AsideJoins
<1>16. QED
  BY <1>6, <1>9, <1>14, <1>15 DEF LeftOn

\* Leave and Pick: the overlay goes, and perhaps a window is switched to.
LEMMA LeaveSound ==
  ASSUME NEW t, NEW d, Current(t, d), NEW o, o = t.flayer, o \in Overlays, NEW v, v = Closed(t, d, o),
         NEW w, NEW u, u = v \/ u = SwitchWindow(v, w)
  PROVE  Moves(t, d, u)
<1>1. /\ Settled(v, None, None) /\ Shown(v) /\ ForeSeen(v) /\ Aside(t, v, d) /\ Existing(v) = Existing(t)
      /\ v.display = d /\ v.displays = t.displays
  BY CloseSound DEF LeftOn
<1>2. d \in Displays /\ d \in ToSet(t.displays)
  BY CurrentFacts
<1>3. Fine(v)
  BY <1>1 DEF Fine
<1>4. Moves(v, d, u)
  BY <1>1, <1>2, <1>3, SwitchSound, MovesStart
<1>5. Existing(t) \subseteq Existing(v)
  BY <1>1
<1>6. QED
  BY <1>1, <1>4, <1>5, MovesJoins

\* InitOverlayPage on the focused canvas of a display.
LEMMA OpenSound ==
  ASSUME NEW t, Fine(t), NEW d \in Displays, d \in ToSet(t.displays), t.display = d, t.flayer = t.cl[t.forecv[d]],
         LayersLeft(t), NEW kind \in Kinds, NEW u, u = InitOverlayPage(t, kind)
  PROVE  LeftOn(t, d, u) /\ Calm(t, u)
<1> DEFINE cv == t.forecv[d]
<1>1. Settled(t, None, None) /\ Shown(t) /\ ForeSeen(t) /\ Core(t, None) /\ d # None
  BY SettledFew, Apart DEF Fine
<1>2. cv \in Canvases /\ t.owner[cv] = d
  BY <1>1, FineFocus
<1>3. t.cl[cv] # None
  BY <1>1, <1>2 DEF Shown
<1>4. Core(u, None) /\ Calm(t, u) /\ Steady(t, u)
  <2>1. t.display # None /\ cv = t.forecv[t.display] /\ t.cl[cv] = t.flayer /\ t.flayer # None
    BY <1>1, <1>3
  <2>2. QED
    BY <1>1, <1>2, <2>1, InitSound
<1>5. Still(t, u) /\ u.display = d /\ u.displays = t.displays /\ u.fore = t.fore /\ u.owner = t.owner /\ u.dfore = t.dfore
  BY <1>4 DEF Calm, Still, Framed
<1>6. \A c \in Canvases : Shows(u, c) = Shows(t, c)
  <2>1. \A c \in Canvases : Bottom(u, u.cl[c]) = Bottom(t, t.cl[c])
    BY <1>4, Apart DEF Steady, Bottom, IsOverlay
  <2>2. QED
    BY <2>1 DEF Shows, Layer2Window
<1>7. Existing(u) = Existing(t) /\ \A c \in Canvases : t.cl[c] = None <=> u.cl[c] = None
  BY <1>4 DEF Steady
<1>8. Settled(u, None, None) /\ Aside(t, u, d)
  BY <1>1, <1>4, <1>5, <1>6, <1>7, SettledStill
<1>9. Shown(u) /\ ForeSeen(u)
  BY <1>1, <1>5, <1>7 DEF Shown, ForeSeen
<1>10. QED
  BY <1>4, <1>5, <1>7, <1>8, <1>9 DEF LeftOn

\* A window list on the blank canvas.
LEMMA ListSound ==
  ASSUME NEW t, NEW d, Current(t, d), NEW clear,
         clear = (IF t.dfore[d] = None THEN t ELSE Activate(SetForeWindow(t, None))), LayersLeft(clear),
         NEW v, v = InitOverlayPage(clear, "list"), NEW u, u = Starting(v, v.flayer, t.dfore[d])
  PROVE  Moves(t, d, u) /\ Existing(u) = Existing(t)
<1>1. /\ Settled(t, None, None) /\ Shown(t) /\ ForeSeen(t) /\ d \in Displays /\ d \in ToSet(t.displays) /\ t.display = d /\ d # None
      /\ t \in Screens /\ Core(t, None) /\ t.forecv[d] \in Canvases
  BY CurrentFacts
<1>2. /\ Fine(clear) /\ Aside(t, clear, d) /\ Existing(clear) = Existing(t) /\ clear.display = d /\ clear.displays = t.displays
      /\ clear.flayer = clear.cl[clear.forecv[d]]
  <2>1. CASE t.dfore[d] = None
    BY <1>1, <2>1 DEF Current, Aside
  <2>2. CASE t.dfore[d] # None
    <3>1. None \in Maybe(Existing(t)) /\ clear = Activate(SetForeWindow(t, None))
      BY <2>2 DEF Maybe
    <3>2. /\ Moves(t, d, clear) /\ Framed(t, clear) /\ clear.display = d /\ Existing(clear) = Existing(t)
          /\ clear.cl[t.forecv[d]] = t.forecv[d] /\ clear.flayer = t.forecv[d]
      BY <1>1, <3>1, ForeActivated
    <3>3. QED
      BY <3>2 DEF Moves, Framed
  <2>3. QED
    BY <2>1, <2>2
<1>3. LeftOn(clear, d, v)
  <2>1. "list" \in Kinds
    BY DEF Kinds
  <2>2. QED
    BY <1>1, <1>2, <2>1, OpenSound
<1>4. /\ Settled(v, None, None) /\ Shown(v) /\ ForeSeen(v) /\ Aside(clear, v, d) /\ Existing(v) = Existing(t)
      /\ v.display = d /\ v.displays = t.displays
  BY <1>2, <1>3 DEF LeftOn
<1>5. t.dfore[d] \in Maybe(Windows) \union {"gone"}
  BY <1>1, Types DEF OthersTyped
<1>6. Settled(u, None, None) /\ Shown(u) /\ ForeSeen(u) /\ Aside(v, u, d) /\ Existing(u) = Existing(v)
  BY <1>4, <1>5, StartSound
<1>7. Aside(t, u, d)
  BY <1>2, <1>4, <1>6, AsideJoins
<1>8. QED
  BY <1>4, <1>6, <1>7 DEF Moves, Fine

-----------------------------------------------------------------------------
(* Attaching.                                                                *)

Displaying(t, ds, a) == [t EXCEPT !.displays = ds, !.display = a]

DisplayingFacts(t, ds, a, u) ==
  /\ u.displays = ds /\ u.display = a /\ SameLayers(t, u) /\ u.dfore = t.dfore /\ u.dother = t.dother
  /\ u.fore = t.fore /\ u.flayer = t.flayer /\ u.start = t.start /\ u.cvs = t.cvs /\ u.forecv = t.forecv
  /\ u.dlayout = t.dlayout /\ u.layouts = t.layouts /\ u.lay = t.lay /\ u.last = t.last /\ u.detachwin = t.detachwin
  /\ u.detachotherwin = t.detachotherwin /\ u.kind = t.kind /\ u.size = t.size /\ Whole(u)

\* Setting the list of displays, field by field.
LEMMA DisplayingFields ==
  ASSUME NEW t \in Screens, NEW ds, NEW a, NEW u, u = Displaying(t, ds, a)
  PROVE  DisplayingFacts(t, ds, a, u)
<1>1. u.displays = ds /\ u.display = a /\ SameLayers(t, u)
  BY DEF Displaying, Screens, SameLayers
<1>2. /\ u.dfore = t.dfore /\ u.dother = t.dother
      /\ u.fore = t.fore /\ u.flayer = t.flayer /\ u.start = t.start /\ u.cvs = t.cvs /\ u.forecv = t.forecv
  BY DEF Displaying, Screens
<1>3. /\ u.dlayout = t.dlayout /\ u.layouts = t.layouts /\ u.lay = t.lay /\ u.last = t.last /\ u.detachwin = t.detachwin
      /\ u.detachotherwin = t.detachotherwin /\ u.kind = t.kind /\ u.size = t.size
  BY DEF Displaying, Screens
<1>4. Whole(u)
  BY DEF Displaying, Screens, Whole
<1>5. QED
  BY <1>1, <1>2, <1>3, <1>4 DEF DisplayingFacts

\* The display d comes or goes; the others stay.
OtherDisplays(t, d, ds) ==
  ds \in Seq(Displays) /\ IsInjective(ds) /\ \A e : e # d => (e \in ToSet(ds) <=> e \in ToSet(t.displays))
Redisplayed(t, d, u) ==
  /\ Settled(u, d, None) /\ (Shown(t) <=> Shown(u)) /\ (\A e : Aside(t, u, e)) /\ SameLayers(t, u)
  /\ Existing(u) = Existing(t) /\ OnOthers(u) = OnOthers(t) /\ (\A c : Shows(u, c) = Shows(t, c))
  /\ u.cvs = t.cvs /\ u.forecv = t.forecv /\ u.dfore = t.dfore /\ u.layouts = t.layouts /\ u.lay = t.lay /\ u.last = t.last
  /\ u.fore = t.fore /\ u.flayer = t.flayer

\* A display without canvases comes to or leaves the list of displays.
LEMMA DisplaySound ==
  ASSUME NEW t, NEW d \in Displays, Settled(t, d, None), NEW ds, OtherDisplays(t, d, ds), NEW a \in Maybe(Displays),
         NEW u, u = Displaying(t, ds, a)
  PROVE  Redisplayed(t, d, u) /\ u.displays = ds /\ u.display = a
<1>1. t \in Screens /\ Core(t, None) /\ LayersTyped(t) /\ LooksTyped(t) /\ OthersTyped(t)
  BY SettledFew, Types
<1>2. DisplayingFacts(t, ds, a, u)
  BY <1>1, DisplayingFields
<1>3. /\ u.displays = ds /\ u.display = a /\ SameLayers(t, u) /\ u.dfore = t.dfore /\ u.dother = t.dother
      /\ u.fore = t.fore /\ u.flayer = t.flayer /\ u.cvs = t.cvs /\ u.forecv = t.forecv
      /\ u.dlayout = t.dlayout /\ u.layouts = t.layouts /\ u.lay = t.lay /\ u.last = t.last
  BY <1>2 DEF DisplayingFacts
<1>4. u \in Screens
  <2>1. LayersTyped(u) /\ LooksTyped(u)
    BY <1>1, <1>2, <1>3 DEF DisplayingFacts, SameLayers, LayersTyped, LooksTyped
  <2>2. OthersTyped(u)
    BY <1>1, <1>2, <1>3 DEF DisplayingFacts, SameLayers, OthersTyped, OtherDisplays
  <2>3. QED
    BY <1>2, <2>1, <2>2, IsScreen DEF DisplayingFacts
<1>5. /\ Existing(u) = Existing(t) /\ OnOthers(u) = OnOthers(t) /\ Alive(u) = Alive(t)
      /\ \A l : Layer2Window(u, l) = Layer2Window(t, l)
  BY <1>3, SameSound
<1>6. Core(u, None)
  <2>1. Points(u)
    BY <1>1, <1>3, <1>5 DEF Core, Points
  <2>2. QED
    BY <1>1, <1>3, <1>4, <2>1, SameSound
<1>7. \A c : Shows(u, c) = Shows(t, c)
  BY <1>3, <1>5 DEF Shows, SameLayers
<1>8. u.owner = t.owner /\ u.mru = t.mru /\ u.cl = t.cl
  BY <1>3 DEF SameLayers
<1>9. LayoutsKept(u)
  BY <1>3, <1>5 DEF Settled, LayoutsKept, OtherDisplays
<1>10. ASSUME NEW e \in Displays PROVE Region(u, e) /\ (e # d => Focused(u, e))
  <2>1. Region(u, e)
    BY <1>3, <1>8 DEF Settled, Region
  <2>2. ASSUME e # d PROVE Focused(u, e)
    <3>1. Focused(t, e)
      BY <2>2 DEF Settled
    <3>2. e \in ToSet(u.displays) <=> e \in ToSet(t.displays)
      BY <1>3, <2>2 DEF OtherDisplays
    <3>3. QED
      BY <1>3, <1>7, <3>1, <3>2 DEF Focused
  <2>3. QED
    BY <2>1, <2>2
<1>11. Settled(u, d, None)
  <2>1. d # None
    BY Apart
  <2>2. QED
    BY <1>5, <1>6, <1>8, <1>9, <1>10, <2>1 DEF Settled
<1>12. (Shown(t) <=> Shown(u)) /\ \A e : Aside(t, u, e)
  BY <1>3, <1>7, <1>8 DEF Shown, Aside
<1>13. QED
  BY <1>3, <1>5, <1>7, <1>11, <1>12 DEF Redisplayed

\* MakeDisplay: the new display has one blank canvas.
Arrived(t, d, c, u) ==
  /\ Settled(u, None, None) /\ Shown(u) /\ Aside(t, u, d) /\ Existing(u) = Existing(t) /\ OnOthers(u) = OnOthers(t)
  /\ u.display = d /\ u.displays = Cons(d, t.displays) /\ d \in ToSet(u.displays) /\ u.layouts = t.layouts /\ u.last = t.last
  /\ u.mru = t.mru /\ u.cvs[d] = <<c>> /\ u.forecv[d] = c /\ c \in Canvases /\ Shows(u, c) = None /\ t.owner[c] = None
  /\ u.owner[c] = d /\ \A x \in Canvases : x # c => u.owner[x] = t.owner[x]

Arriving(t, d) == [t EXCEPT !.displays = Cons(d, @), !.display = d]

\* MakeDisplay: a display with one blank canvas.
LEMMA ArriveSound ==
  ASSUME NEW t, Settled(t, None, None), Shown(t), NEW d \in Displays, d \notin ToSet(t.displays), CanvasesLeft(t, 1),
         NEW u, u = MakeDefaultCanvas(Arriving(t, d), d)
  PROVE  \E c : Arrived(t, d, c, u)
<1>1. t \in Screens /\ t.displays \in Seq(Displays) /\ IsInjective(t.displays) /\ d # None /\ Filed(t)
  BY SettledFew, Types, Apart DEF OthersTyped, Settled, LayoutsKept
<1>2. PICK ds : ds = Cons(d, t.displays)
  OBVIOUS
<1>3. ds \in Seq(Displays) /\ IsInjective(ds) /\ \A e : e \in ToSet(ds) <=> e = d \/ e \in ToSet(t.displays)
  BY <1>1, <1>2, ConsIs
<1>4. OtherDisplays(t, d, ds)
  BY <1>3 DEF OtherDisplays
<1>5. PICK a : a = Displaying(t, ds, d)
  OBVIOUS
<1>6. a = Arriving(t, d)
  BY <1>1, <1>2, <1>5 DEF Arriving, Displaying, Screens
<1>7. Settled(t, d, None) /\ d \in Maybe(Displays)
  BY FocusLeft DEF Maybe
<1>8. Redisplayed(t, d, a) /\ a.displays = ds /\ a.display = d
  BY <1>4, <1>5, <1>7, DisplaySound
<1>9. /\ Settled(a, d, None) /\ Shown(a) /\ Aside(t, a, d) /\ SameLayers(t, a) /\ Existing(a) = Existing(t)
      /\ OnOthers(a) = OnOthers(t) /\ a.dfore = t.dfore /\ a.cvs = t.cvs /\ a.layouts = t.layouts /\ a.lay = t.lay /\ a.last = t.last
      /\ a.owner = t.owner /\ a.mru = t.mru
  BY <1>8 DEF Redisplayed, SameLayers
<1>10. Focused(t, d)
  BY <1>1 DEF Settled
<1>11. t.dfore[d] = None /\ t.cvs[d] = <<>>
  BY <1>10 DEF Focused
<1>12. \A c \in Canvases : a.owner[c] # d
  <2>1. ToSet(t.cvs[d]) = {}
    BY <1>11 DEF ToSet
  <2>2. QED
    BY <1>7, <1>9, <2>1, SettledOwner
<1>13. CanvasesLeft(a, 1)
  BY <1>9 DEF CanvasesLeft
<1>14. PICK c \in Canvases : a.owner[c] = None /\ NewOn(a, d, c, <<c>>, c, u)
  <2>1. u = MakeDefaultCanvas(a, d)
    BY <1>6
  <2>2. QED
    BY <1>8, <1>9, <1>12, <1>13, <2>1, DefaultSound
<1>15. /\ Settled(u, d, None) /\ Aside(a, u, d) /\ Existing(u) = Existing(a) /\ OnOthers(u) = OnOthers(a) /\ Shown(u)
       /\ u.cvs[d] = <<c>> /\ u.forecv[d] = c /\ u.owner[c] = d /\ Shows(u, c) = None
       /\ \A x \in Canvases : x # c => u.owner[x] = a.owner[x]
  BY <1>9, <1>14 DEF NewOn
<1>16. /\ u.displays = ds /\ u.layouts = t.layouts /\ u.lay = t.lay /\ u.last = t.last /\ u.mru = t.mru /\ u.display = d
       /\ u.dfore = t.dfore
  BY <1>8, <1>9, <1>14 DEF NewOn, Beside, Pointers
<1>17. d \in ToSet(ds)
  BY <1>3
<1>18. Focused(u, d)
  <2>1. c \in ToSet(<<c>>)
    BY DEF ToSet
  <2>2. QED
    BY <1>11, <1>15, <1>16, <1>17, <2>1 DEF Focused
<1>19. Filed(u)
  BY <1>16, FiledSame
<1>20. Settled(u, None, None)
  BY <1>15, <1>18, <1>19, FocusBack
<1>21. Aside(t, u, d)
  BY <1>9, <1>15, AsideJoins
<1>22. Arrived(t, d, c, u)
  BY <1>2, <1>9, <1>14, <1>15, <1>16, <1>17, <1>20, <1>21 DEF Arrived
<1>23. QED
  BY <1>22

\* FinishAttach: the last layout, if there is one.
LastOn(t, d, u) ==
  /\ Settled(u, None, None) /\ Shown(u) /\ Aside(t, u, d) /\ Existing(u) = Existing(t) /\ OnOthers(u) \subseteq OnOthers(t)
  /\ u.display = d /\ u.displays = t.displays

\* The layout of the last detach is loaded.
LEMMA LastSound ==
  ASSUME NEW t, Settled(t, None, None), Shown(t), NEW d \in Displays, d \in ToSet(t.displays), t.display = d,
         t.last = None \/ MaxRegions <= Cardinality(Spare(t, d)), NEW u, u = ShowLast(t, d)
  PROVE  LastOn(t, d, u)
<1>1. CASE t.last = None
  BY <1>1 DEF ShowLast, LastOn, Aside
<1>2. CASE t.last # None
  <2>1. t.last \in ToSet(t.layouts)
    BY <1>2 DEF Settled, LayoutsKept, Maybe
  <2>2. Fits(t, d, t.last)
    BY <1>2 DEF Fits
  <2>3. PICK v : v = LoadLayout(t, t.last)
    OBVIOUS
  <2>4. LoadOn(t, d, t.last, v)
    BY <2>1, <2>2, <2>3, LoadSound
  <2>5. /\ Settled(v, None, None) /\ Shown(v) /\ Aside(t, v, d) /\ Existing(v) = Existing(t) /\ OnOthers(v) \subseteq OnOthers(t)
        /\ v.displays = t.displays
    BY <2>4 DEF LoadOn
  <2>6. u = SetCanvasWindow(v, v.forecv[d], None)
    BY <1>2, <2>3 DEF ShowLast, With
  <2>7. v.forecv[d] \in Canvases /\ v.owner[v.forecv[d]] = d
    BY <2>5, FineFocus, Apart
  <2>8. None \in Maybe(Existing(v))
    BY DEF Maybe
  <2>9. Settled(u, None, None) /\ Placed(v, d, v.forecv[d], None, u) /\ Aside(v, u, d) /\ Shown(u)
    BY <2>5, <2>6, <2>7, <2>8, SetSettled
  <2>10. u.display = d /\ u.displays = v.displays /\ Existing(u) = Existing(v) /\ OnOthers(u) \subseteq OnOthers(v)
    BY <2>9 DEF Placed, Framed
  <2>11. Aside(t, u, d)
    BY <2>5, <2>9, AsideJoins
  <2>12. QED
    BY <2>5, <2>9, <2>10, <2>11 DEF LastOn
<1>3. QED
  BY <1>1, <1>2

WithOther(t, d, o) == [t EXCEPT !.dother[d] = o]

\* u_detachotherwin
OtherSet(t, d, u) ==
  /\ LastOn(t, d, u) /\ SameLayers(t, u) /\ u.cvs = t.cvs /\ u.last = t.last /\ \A c : Shows(u, c) = Shows(t, c)

\* Setting D_other to an existing window.
LEMMA OtherSound ==
  ASSUME NEW t, Settled(t, None, None), Shown(t), NEW d \in Displays, d \in ToSet(t.displays), t.display = d,
         NEW o \in Maybe(Existing(t)), NEW u, u = WithOther(t, d, o)
  PROVE  OtherSet(t, d, u)
<1>1. t \in Screens /\ Core(t, None)
  BY SettledFew
<1>2. PICK c, w, y, a, f, l : c = t.forecv[d] /\ w = t.dfore[d] /\ y = t.dlayout[d] /\ a = t.display /\ f = t.fore /\ l = t.flayer
  OBVIOUS
<1>3. u = Focusing(t, d, c, w, o, y, a, f, l)
  BY <1>1, <1>2, FocusOther DEF WithOther
<1>4. c \in Maybe(Canvases) /\ a \in Maybe(Displays)
  BY <1>1, <1>2, Types DEF OthersTyped
<1>5. w \in Maybe(Existing(t)) /\ f \in Maybe(Existing(t)) /\ l \in Maybe(Alive(t))
  BY <1>1, <1>2 DEF Core, Points
<1>6. y \in Maybe(ToSet(t.layouts))
  BY <1>2 DEF Settled, LayoutsKept
<1>7. Settled(t, d, None)
  BY FocusLeft
<1>8. Refocused(t, d, u) /\ Aside(t, u, d) /\ u.forecv[d] = c /\ u.dfore[d] = w /\ u.display = a
  BY <1>3, <1>4, <1>5, <1>6, <1>7, FocusingSound
<1>9. /\ Settled(u, d, None) /\ Shown(u) /\ SameLayers(t, u) /\ u.cvs = t.cvs /\ u.displays = t.displays
      /\ u.layouts = t.layouts /\ u.lay = t.lay /\ u.last = t.last /\ Existing(u) = Existing(t) /\ OnOthers(u) = OnOthers(t)
      /\ \A x : Shows(u, x) = Shows(t, x)
  BY <1>8 DEF Refocused
<1>10. Focused(u, d)
  <2>1. Focused(t, d)
    BY Apart DEF Settled
  <2>2. QED
    BY <1>2, <1>8, <1>9, <2>1 DEF Focused
<1>11. Settled(u, None, None)
  <2>1. Filed(u)
    BY <1>9, FiledSame
  <2>2. QED
    BY <1>9, <1>10, <2>1, FocusBack
<1>12. LastOn(t, d, u)
  BY <1>2, <1>8, <1>9, <1>11 DEF LastOn
<1>13. QED
  BY <1>9, <1>12 DEF OtherSet

\* A free overlay stays free while no more are used.
LEMMA LayersStay ==
  ASSUME NEW t, NEW u, OnOthers(u) \subseteq OnOthers(t), LayersLeft(t)
  PROVE  LayersLeft(u)
<1>1. PICK o \in Overlays : t.below[o] = None
  BY DEF LayersLeft
<1>2. o \notin OnOthers(t)
  BY <1>1 DEF OnOthers
<1>3. o \notin OnOthers(u)
  BY <1>2
<1>4. u.below[o] = None
  BY <1>3 DEF OnOthers
<1>5. QED
  BY <1>4 DEF LayersLeft

WithFore(t, w) == [t EXCEPT !.fore = w]
Nothing(t, d) == [t EXCEPT !.fore = None, !.flayer = t.cl[t.forecv[d]]]

\* FinishAttach shows a window, or the window list.
LEMMA ShowSound ==
  ASSUME NEW t, Settled(t, None, None), Shown(t), NEW d \in Displays, d \in ToSet(t.displays), t.display = d,
         NEW w \in Maybe(Existing(t)), w = None => LayersLeft(t), NEW u, u = ShowWindow(t, d, w)
  PROVE  /\ Moves(t, d, u) /\ Existing(u) = Existing(t) /\ u.displays = t.displays /\ u.display = d
         /\ (w # None => Framed(t, u) /\ OnOthers(u) \subseteq OnOthers(t))
<1>1. t \in Screens /\ Core(t, None) /\ d # None /\ d \in Maybe(Displays)
  BY SettledFew, Apart DEF Maybe
<1>2. t.flayer \in Maybe(Alive(t)) /\ t.forecv[d] \in Canvases
  BY <1>1, FineFocus DEF Core, Points
<1>3. CASE w # None
  <2>1. PICK a : a = WithFore(t, w)
    OBVIOUS
  <2>2. u = Activate(SetForeWindow(a, w))
    BY <1>3, <2>1 DEF ShowWindow, WithFore
  <2>3. a = Pointing(t, d, w, t.flayer)
    BY <1>1, <2>1, PointIs DEF WithFore
  <2>4. /\ Settled(a, None, None) /\ Shown(a) /\ Aside(t, a, d) /\ Existing(a) = Existing(t) /\ Pointed(t, a)
        /\ a.display = d /\ OnOthers(a) = OnOthers(t)
    BY <1>1, <1>2, <2>3, PointedFine
  <2>5. Framed(t, a)
    BY <2>4 DEF Pointed, Still
  <2>6. /\ Moves(a, d, u) /\ Framed(a, u) /\ u.display = d /\ Existing(u) = Existing(a) /\ OnOthers(u) \subseteq OnOthers(a)
    <3>1. d \in ToSet(a.displays)
      BY <2>5 DEF Framed
    <3>2. w \in Maybe(Existing(a))
      BY <2>4
    <3>3. QED
      BY <2>2, <2>4, <3>1, <3>2, ForeActivated
  <2>7. Framed(t, u)
    BY <2>5, <2>6 DEF Framed
  <2>8. Moves(t, d, u)
    BY <2>4, <2>6, MovesJoins
  <2>9. QED
    BY <2>4, <2>6, <2>7, <2>8 DEF Framed
<1>4. CASE w = None
  <2>1. PICK a : a = Nothing(t, d)
    OBVIOUS
  <2>2. PICK v : v = InitOverlayPage(a, "list")
    OBVIOUS
  <2>3. u = Activate(v)
    BY <1>4, <2>1, <2>2 DEF ShowWindow, Nothing
  <2>4. PICK l : l = t.cl[t.forecv[d]]
    OBVIOUS
  <2>5. l \in Maybe(Alive(t)) /\ None \in Maybe(Existing(t))
    BY <1>1, <1>2, <2>4, CanvasAlive DEF Maybe
  <2>6. a = Pointing(t, d, None, l)
    <3>1. a = [t EXCEPT !.fore = None, !.flayer = l]
      BY <2>1, <2>4 DEF Nothing
    <3>2. QED
      BY <1>1, <3>1 DEF Pointing, Screens
  <2>7. /\ Settled(a, None, None) /\ Shown(a) /\ Aside(t, a, d) /\ Existing(a) = Existing(t) /\ Pointed(t, a)
        /\ a.display = d /\ a.fore = None /\ a.flayer = l /\ OnOthers(a) = OnOthers(t)
    BY <1>1, <2>5, <2>6, PointedFine
  <2>8. a.displays = t.displays /\ a.cl = t.cl /\ a.forecv = t.forecv
    BY <2>7 DEF Pointed, SameLayers, Still, Framed
  <2>9. Fine(a)
    BY <2>7 DEF Fine, ForeSeen
  <2>10. LayersLeft(a)
    BY <1>4, <2>7, LayersStay
  <2>11. LeftOn(a, d, v)
    <3>1. "list" \in Kinds
      BY DEF Kinds
    <3>2. QED
      BY <2>2, <2>4, <2>7, <2>8, <2>9, <2>10, <3>1, OpenSound
  <2>12. Settled(v, None, None) /\ Shown(v) /\ Aside(a, v, d) /\ Existing(v) = Existing(a) /\ v.display = d /\ v.displays = t.displays
    BY <2>8, <2>11 DEF LeftOn
  <2>13. Settled(u, None, None) /\ Shown(u) /\ ForeSeen(u) /\ Activated(v, d, u) /\ Aside(v, u, d)
    BY <1>1, <2>3, <2>12, ActivateSettled
  <2>14. Existing(u) = Existing(t)
    BY <2>7, <2>12, <2>13 DEF Activated, Resized, Steady
  <2>15. u.display = d /\ u.displays = t.displays
    BY <2>12, <2>13 DEF Activated, Still, Framed
  <2>16. Aside(t, u, d)
    BY <2>7, <2>12, <2>13, AsideJoins
  <2>17. QED
    BY <1>4, <2>13, <2>14, <2>15, <2>16 DEF Moves, Fine
<1>5. QED
  BY <1>3, <1>4

\* The window w, if it is in the list.
Here(t, w) == IF w \in ToSet(t.mru) THEN w ELSE None

\* Attach, in named steps.
LEMMA AttachIs ==
  ASSUME NEW t, NEW d, NEW new, new = MakeDefaultCanvas(Arriving(t, d), d), NEW v, v = ShowLast(new, d),
         NEW o, o = (IF v.detachotherwin # None THEN Here(v, v.detachotherwin) ELSE v.dother[d]),
         NEW a, a = WithOther(v, d, o)
  PROVE  Attach(t, d) = ShowWindow(a, d, FindNiceWindow(a, Here(a, a.detachwin)))
<1>1. new = MakeDefaultCanvas([t EXCEPT !.displays = Cons(d, @), !.display = d], d)
  BY DEF Arriving
<1>2. a = [v EXCEPT !.dother[d] = IF v.detachotherwin # None THEN IF v.detachotherwin \in ToSet(v.mru) THEN v.detachotherwin ELSE None ELSE @]
  BY DEF WithOther, Here
<1> DEFINE oth(x) == [x EXCEPT !.dother[d] = IF x.detachotherwin # None THEN IF x.detachotherwin \in ToSet(x.mru) THEN x.detachotherwin ELSE None ELSE @]
           show(x) == ShowWindow(x, d, FindNiceWindow(x, IF x.detachwin \in ToSet(x.mru) THEN x.detachwin ELSE None))
<1>3. Attach(t, d) = With(oth(ShowLast(MakeDefaultCanvas([t EXCEPT !.displays = Cons(d, @), !.display = d], d), d)), show)
  BY DEF Attach
<1>4. Attach(t, d) = show(oth(v))
  BY <1>1, <1>3 DEF With
<1>5. oth(v) = a
  BY <1>2
<1>6. QED
  BY <1>4, <1>5 DEF Here

\* The canvases that an attach without a layout takes.
OneMore(t, u) == u.last = None /\ \E c : \A x \in Canvases : x # c => u.owner[x] = t.owner[x]

\* Attach leaves the other displays alone.
LEMMA AttachSound ==
  ASSUME NEW t, Settled(t, None, None), Shown(t), NEW d \in Displays, d \notin ToSet(t.displays), CanvasesLeft(t, 1),
         (t.last = None /\ Existing(t) # {}) \/ (LayersLeft(t) /\ CanvasesLeft(t, MaxRegions)), NEW u, u = Attach(t, d)
  PROVE  /\ Moves(t, d, u) /\ Existing(u) = Existing(t) /\ u.displays = Cons(d, t.displays) /\ u.display = d
         /\ d \in ToSet(u.displays)
         /\ t.last = None /\ Existing(t) # {} => OneMore(t, u)
<1>1. PICK new : new = MakeDefaultCanvas(Arriving(t, d), d)
  OBVIOUS
<1>2. PICK v : v = ShowLast(new, d)
  OBVIOUS
<1>3. PICK o : o = IF v.detachotherwin # None THEN Here(v, v.detachotherwin) ELSE v.dother[d]
  OBVIOUS
<1>4. PICK a : a = WithOther(v, d, o)
  OBVIOUS
<1>5. PICK w : w = FindNiceWindow(a, Here(a, a.detachwin))
  OBVIOUS
<1>6. u = ShowWindow(a, d, w)
  BY <1>1, <1>2, <1>3, <1>4, <1>5, AttachIs
<1>7. PICK c : Arrived(t, d, c, new)
  BY <1>1, ArriveSound
<1>8. /\ Settled(new, None, None) /\ Shown(new) /\ Aside(t, new, d) /\ Existing(new) = Existing(t) /\ OnOthers(new) = OnOthers(t)
      /\ new.display = d /\ new.displays = Cons(d, t.displays) /\ d \in ToSet(new.displays) /\ new.last = t.last
      /\ new.cvs[d] = <<c>> /\ c \in Canvases /\ Shows(new, c) = None /\ t.owner[c] = None
      /\ new.owner[c] = d /\ \A x \in Canvases : x # c => new.owner[x] = t.owner[x]
  BY <1>7 DEF Arrived
<1>9. new.last = None \/ MaxRegions <= Cardinality(Spare(new, d))
  <2>1. CASE CanvasesLeft(t, MaxRegions)
    <3>1. \A x \in Canvases : t.owner[x] # d
      <4>1. Settled(t, d, None) /\ Focused(t, d)
        BY FocusLeft, Apart DEF Settled
      <4>2. ToSet(t.cvs[d]) = {}
        BY <4>1 DEF Focused, ToSet
      <4>3. QED
        BY <4>1, <4>2, SettledOwner
    <3>2. Spare(new, d) = {x \in Canvases : t.owner[x] = None}
      BY <1>8, <3>1 DEF Spare
    <3>3. QED
      BY <2>1, <3>2 DEF CanvasesLeft
  <2>2. CASE t.last = None
    BY <1>8, <2>2
  <2>3. QED
    BY <2>1, <2>2
<1>10. LastOn(new, d, v)
  BY <1>2, <1>8, <1>9, LastSound
<1>11. /\ Settled(v, None, None) /\ Shown(v) /\ Aside(new, v, d) /\ Existing(v) = Existing(new) /\ OnOthers(v) \subseteq OnOthers(new)
       /\ v.display = d /\ v.displays = new.displays
  BY <1>10 DEF LastOn
<1>12. o \in Maybe(Existing(v))
  <2>1. ToSet(v.mru) = Existing(v) \ {None}
    BY <1>11 DEF Settled
  <2>2. v.dother[d] \in Maybe(Existing(v))
    BY <1>11 DEF Settled, Core, Points
  <2>3. QED
    BY <1>3, <2>1, <2>2 DEF Here, Maybe
<1>13. OtherSet(v, d, a)
  BY <1>4, <1>8, <1>11, <1>12, OtherSound
<1>14. LastOn(v, d, a) /\ SameLayers(v, a) /\ a.cvs = v.cvs /\ a.last = v.last /\ \A x : Shows(a, x) = Shows(v, x)
  BY <1>13 DEF OtherSet
<1>15. /\ Settled(a, None, None) /\ Shown(a) /\ Aside(v, a, d) /\ Existing(a) = Existing(v) /\ OnOthers(a) \subseteq OnOthers(v)
       /\ a.display = d /\ a.displays = v.displays /\ a.owner = v.owner
  BY <1>14 DEF LastOn, SameLayers
<1>16. ToSet(a.mru) = Existing(a) /\ a.mru \in Seq(Windows) /\ None \notin Existing(a)
  <2>1. ToSet(a.mru) = Existing(a) \ {None} /\ a \in Screens
    BY <1>15, SettledFew DEF Settled
  <2>2. None \notin Existing(a)
    BY Apart DEF Existing
  <2>3. QED
    BY <2>1, <2>2, Types DEF OthersTyped
<1>17. w \in Maybe(Existing(a))
       /\ (w = None => \A y \in ToSet(a.mru) : IsOnDisplay(a, y))
  <2>1. PICK wi : wi = Here(a, a.detachwin)
    OBVIOUS
  <2>2. wi # None => wi \in Existing(a)
    BY <1>16, <2>1 DEF Here
  <2>3. a.display # None /\ w = FindNiceWindow(a, wi)
    BY <1>5, <1>15, <2>1, Apart
  <2>4. \/ w = wi /\ wi # None /\ ~IsOnDisplay(a, wi)
        \/ w \in ToSet(a.mru)
        \/ w = None /\ \A y \in ToSet(a.mru) : IsOnDisplay(a, y)
    BY <1>16, <2>3, NiceIs
  <2>5. QED
    BY <1>16, <2>2, <2>4 DEF Maybe
<1>18. ASSUME t.last = None, Existing(t) # {} PROVE w # None /\ a.last = None /\ a.owner = new.owner
  <2>1. v = new
    BY <1>2, <1>8, <1>18 DEF ShowLast
  <2>2. a.cvs[d] = <<c>> /\ Shows(a, c) = None
    BY <1>8, <1>14, <2>1
  <2>3. PICK y : y \in Existing(a)
    BY <1>8, <1>11, <1>15, <1>18
  <2>4. y \in ToSet(a.mru) /\ y # None
    BY <1>16, <2>3
  <2>5. ToSet(<<c>>) = {c}
    BY DEF ToSet
  <2>6. ~IsOnDisplay(a, y)
    BY <1>15, <2>2, <2>4, <2>5 DEF IsOnDisplay
  <2>7. w # None
    BY <1>17, <2>4, <2>6
  <2>8. QED
    BY <1>8, <1>14, <1>15, <1>18, <2>1, <2>7
<1>19. w = None => LayersLeft(a)
  <2>1. ASSUME w = None PROVE LayersLeft(t)
    BY <1>18, <2>1
  <2>2. OnOthers(a) \subseteq OnOthers(t)
    BY <1>8, <1>11, <1>15
  <2>3. QED
    BY <2>1, <2>2, LayersStay
<1>20. /\ Moves(a, d, u) /\ Existing(u) = Existing(a) /\ u.displays = a.displays /\ u.display = d
       /\ (w # None => Framed(a, u))
  <2>1. d \in ToSet(a.displays)
    BY <1>8, <1>11, <1>15
  <2>2. w \in Maybe(Existing(a))
    BY <1>17
  <2>3. QED
    BY <1>6, <1>15, <1>19, <2>1, <2>2, ShowSound
<1>21. Moves(t, d, u)
  <2>1. Aside(t, v, d)
    BY <1>8, <1>11, AsideJoins
  <2>2. Aside(t, a, d)
    BY <1>15, <2>1, AsideJoins
  <2>3. Existing(t) \subseteq Existing(a)
    BY <1>8, <1>11, <1>15
  <2>4. QED
    BY <1>20, <2>2, <2>3, MovesJoins
<1>22. ASSUME t.last = None, Existing(t) # {} PROVE OneMore(t, u)
  <2>1. u.last = None /\ u.owner = new.owner
    BY <1>18, <1>20, <1>22 DEF Framed
  <2>2. QED
    BY <1>8, <2>1 DEF OneMore
<1>23. QED
  BY <1>8, <1>11, <1>15, <1>20, <1>21, <1>22

-----------------------------------------------------------------------------
(* Detaching.                                                                *)

Remembering(t, x, y, z) == [t EXCEPT !.detachwin = x, !.detachotherwin = y, !.last = z]

RememberingFacts(t, x, y, z, u) ==
  /\ u.detachwin = x /\ u.detachotherwin = y /\ u.last = z /\ SameLayers(t, u) /\ Pointers(t, u)
  /\ u.flayer = t.flayer /\ u.start = t.start /\ u.displays = t.displays /\ u.cvs = t.cvs /\ u.forecv = t.forecv
  /\ u.dlayout = t.dlayout /\ u.layouts = t.layouts /\ u.lay = t.lay /\ u.kind = t.kind /\ u.size = t.size /\ Whole(u)

\* Remembering a layout and two windows, field by field.
LEMMA RememberingFields ==
  ASSUME NEW t \in Screens, NEW x, NEW y, NEW z, NEW u, u = Remembering(t, x, y, z)
  PROVE  RememberingFacts(t, x, y, z, u)
<1>1. u.detachwin = x /\ u.detachotherwin = y /\ u.last = z /\ SameLayers(t, u)
  BY DEF Remembering, Screens, SameLayers
<1>2. Pointers(t, u) /\ u.flayer = t.flayer /\ u.start = t.start /\ u.displays = t.displays
  BY DEF Remembering, Screens, Pointers
<1>3. /\ u.cvs = t.cvs /\ u.forecv = t.forecv /\ u.dlayout = t.dlayout /\ u.layouts = t.layouts /\ u.lay = t.lay
      /\ u.kind = t.kind /\ u.size = t.size
  BY DEF Remembering, Screens
<1>4. Whole(u)
  BY DEF Remembering, Screens, Whole
<1>5. QED
  BY <1>1, <1>2, <1>3, <1>4 DEF RememberingFacts

\* What the next attach will show changes, and that only.
LEMMA RememberSound ==
  ASSUME NEW t, Settled(t, None, None), NEW x \in Maybe(Windows), NEW y \in Maybe(Windows),
         NEW z \in Maybe(ToSet(t.layouts)), NEW u, u = Remembering(t, x, y, z)
  PROVE  /\ Settled(u, None, None) /\ (Shown(t) <=> Shown(u)) /\ (\A d : Aside(t, u, d)) /\ SameLayers(t, u)
         /\ Pointers(t, u) /\ u.displays = t.displays /\ u.cvs = t.cvs /\ u.forecv = t.forecv
         /\ Existing(u) = Existing(t) /\ OnOthers(u) = OnOthers(t)
         /\ \A c : Shows(u, c) = Shows(t, c)
<1>1. t \in Screens /\ Core(t, None) /\ LayersTyped(t) /\ LooksTyped(t) /\ OthersTyped(t)
  BY SettledFew, Types
<1>2. RememberingFacts(t, x, y, z, u)
  BY <1>1, RememberingFields
<1>3. /\ SameLayers(t, u) /\ Pointers(t, u) /\ u.flayer = t.flayer /\ u.displays = t.displays /\ u.cvs = t.cvs
      /\ u.forecv = t.forecv /\ u.dlayout = t.dlayout /\ u.layouts = t.layouts /\ u.lay = t.lay /\ u.last = z
  BY <1>2 DEF RememberingFacts
<1>4. z \in Maybe(Layouts)
  <2>1. t.layouts \in Seq(Layouts)
    BY <1>1 DEF OthersTyped
  <2>2. ToSet(t.layouts) \subseteq Layouts
    BY <2>1, ElementOfSeq, LenProperties DEF ToSet
  <2>3. QED
    BY <2>2 DEF Maybe
<1>5. u \in Screens
  <2>1. LayersTyped(u) /\ LooksTyped(u)
    BY <1>1, <1>2, <1>3 DEF RememberingFacts, SameLayers, LayersTyped, LooksTyped
  <2>2. OthersTyped(u)
    BY <1>1, <1>2, <1>4 DEF RememberingFacts, SameLayers, Pointers, OthersTyped
  <2>3. QED
    BY <1>2, <2>1, <2>2, IsScreen DEF RememberingFacts
<1>6. /\ Existing(u) = Existing(t) /\ OnOthers(u) = OnOthers(t) /\ Alive(u) = Alive(t)
      /\ \A l : Layer2Window(u, l) = Layer2Window(t, l)
  BY <1>3, SameSound
<1>7. Core(u, None)
  <2>1. Points(u)
    BY <1>1, <1>3, <1>6 DEF Core, Points, Pointers
  <2>2. QED
    BY <1>1, <1>3, <1>5, <2>1, SameSound
<1>8. \A c : Shows(u, c) = Shows(t, c)
  BY <1>3, <1>6 DEF Shows, SameLayers
<1>9. u.owner = t.owner /\ u.mru = t.mru /\ u.cl = t.cl
  BY <1>3 DEF SameLayers
<1>10. LayoutsKept(u) /\ Filed(u)
  BY <1>3, <1>6 DEF Settled, LayoutsKept, Filed
<1>11. ASSUME NEW e \in Displays PROVE Region(u, e) /\ (e # None => Focused(u, e))
  <2>1. Region(u, e)
    BY <1>3, <1>9 DEF Settled, Region
  <2>2. Focused(t, e)
    BY Apart DEF Settled
  <2>3. Focused(u, e)
    BY <1>3, <1>8, <2>2 DEF Focused, Pointers
  <2>4. QED
    BY <2>1, <2>3
<1>12. Settled(u, None, None)
  BY <1>6, <1>7, <1>9, <1>10, <1>11 DEF Settled
<1>13. (Shown(t) <=> Shown(u)) /\ \A d : Aside(t, u, d)
  BY <1>3, <1>8, <1>9 DEF Shown, Aside
<1>14. QED
  BY <1>3, <1>6, <1>8, <1>12, <1>13

\* FreeDisplay first makes its canvases blank.

Emptied(t, d, v, C) ==
  /\ Settled(v, None, None) /\ Shown(v) /\ Aside(t, v, d) /\ Framed(t, v) /\ v.display = d
  /\ Existing(v) = Existing(t) /\ OnOthers(v) \subseteq OnOthers(t)
  /\ t.forecv[d] \in C => v.fore = None

\* One more canvas of the display shows nothing.
LEMMA EmptyStep ==
  ASSUME NEW t, NEW d \in Displays, NEW C, NEW v, Emptied(t, d, v, C), NEW c \in Canvases, t.owner[c] = d,
         NEW u, u = SetCanvasWindow(v, c, None)
  PROVE  Emptied(t, d, u, C \union {c})
<1>1. Settled(v, None, None) /\ Shown(v) /\ Aside(t, v, d) /\ Framed(t, v) /\ v.owner[c] = d /\ None \in Maybe(Existing(v))
  BY DEF Emptied, Framed, Maybe
<1>2. Settled(u, None, None) /\ Placed(v, d, c, None, u) /\ Aside(v, u, d) /\ Shown(u)
  BY <1>1, SetSettled
<1>3. Framed(v, u) /\ u.display = d /\ Existing(u) = Existing(v) /\ OnOthers(u) \subseteq OnOthers(v)
      /\ u.fore = IF c = v.forecv[d] THEN None ELSE v.fore
  BY <1>2 DEF Placed
<1>4. Framed(t, u) /\ v.forecv = t.forecv
  BY <1>1, <1>3 DEF Framed
<1>5. Aside(t, u, d)
  BY <1>1, <1>2, AsideJoins
<1>6. t.forecv[d] \in C \union {c} => u.fore = None
  BY <1>3, <1>4 DEF Emptied
<1>7. QED
  BY <1>2, <1>3, <1>4, <1>5, <1>6 DEF Emptied

\* All canvases of the display show nothing.
LEMMA EmptySound ==
  ASSUME NEW t, NEW d \in Displays, Settled(t, None, None), Shown(t), t.display = d,
         NEW u, u = AllEmpties(None, t, t.cvs[d])
  PROVE  Emptied(t, d, u, ToSet(t.cvs[d]))
<1> DEFINE q == t.cvs[d]
           n == Len(q)
           S == [k \in 0 .. n |-> {v \in Screens : Emptied(t, d, v, Begins(q, k))}]
<1>1. n \in Nat /\ DOMAIN q = 1 .. n /\ t \in Screens
  <2>1. q \in Seq(Canvases)
    BY SettledOwner
  <2>2. QED
    BY <2>1, LenProperties, SettledFew
<1>2. \A k \in 1 .. n : q[k] \in Canvases /\ t.owner[q[k]] = d
  <2>1. \A k \in 1 .. n : q[k] \in ToSet(t.cvs[d])
    BY <1>1 DEF q, ToSet
  <2>2. QED
    BY <2>1, SettledOwner
<1>3. ToSet(q) = Begins(q, n)
  BY <1>1 DEF ToSet, Begins
<1> HIDE DEF q
<1>4. t \in S[0]
  <2>1. Begins(q, 0) = {}
    BY DEF Begins
  <2>2. Emptied(t, d, t, {})
    BY DEF Emptied, Aside, Framed
  <2>3. Emptied(t, d, t, Begins(q, 0))
    BY <2>1, <2>2
  <2>4. QED
    BY <1>1, <2>3
<1>5. ASSUME NEW k \in 1 .. n, NEW v \in S[k - 1] PROVE Empties(None, v, q[k]) \in S[k]
  <2>1. Emptied(t, d, v, Begins(q, k - 1))
    BY <1>1
  <2>2. Begins(q, k) = Begins(q, k - 1) \union {q[k]}
    BY <1>1 DEF Begins
  <2> HIDE DEF S
  <2>3. PICK x : x = SetCanvasWindow(v, q[k], None)
    OBVIOUS
  <2>4. Emptied(t, d, x, Begins(q, k - 1) \union {q[k]})
    BY <1>2, <2>1, <2>3, EmptyStep
  <2>5. Emptied(t, d, x, Begins(q, k))
    BY <2>2, <2>4, Zenon
  <2>6. x \in Screens
    BY <2>5, SettledFew DEF Emptied
  <2>7. QED
    BY <1>1, <2>3, <2>5, <2>6 DEF S, Empties
<1> HIDE DEF n, S
<1>6. u \in S[n]
  BY <1>1, <1>4, <1>5, EmptiesKeep DEF n, q
<1>7. Emptied(t, d, u, Begins(q, n))
  BY <1>1, <1>6 DEF S
<1>8. QED
  BY <1>3, <1>7, Zenon DEF q

At(t, d) == [t EXCEPT !.display = d]
WithoutDisplay(t, d) == [t EXCEPT !.displays = RemoveFirst(@, d)]
Vacated(t, d) ==
  [t EXCEPT !.forecv[d] = None, !.dfore[d] = None, !.dother[d] = None,
            !.dlayout[d] = None, !.cvs[d] = <<>>, !.display = None]

\* Remember, in named steps.
LEMMA RememberIs ==
  ASSUME NEW t, NEW d, NEW a, a = AutosaveLayout(t, d),
         NEW x, x = (IF t.dfore[d] # None THEN t.dfore[d] ELSE a.detachwin),
         NEW y, y = (IF t.dfore[d] # None THEN t.dother[d] ELSE a.detachotherwin)
  PROVE  Remember(t, d) = Remembering(a, x, y, t.dlayout[d])
BY DEF Remember, Remembering

\* FreeDisplay, in named steps.
LEMMA FreeDisplayIs ==
  ASSUME NEW t, NEW d, NEW b, b = AllEmpties(None, t, t.cvs[d])
  PROVE  FreeDisplay(t, d) = Vacated(FreeAllCanvases(WithoutDisplay(b, d), d), d)
<1>1. FoldLeft(LAMBDA u, c : SetCanvasWindow(u, c, None), t, t.cvs[d]) = AllEmpties(None, t, t.cvs[d])
  BY DEF Empties, AllEmpties, FoldLeft, MapThenFoldSet, Max
<1>2. FreeDisplay(t, d) =
        Vacated(FreeAllCanvases(
          WithoutDisplay(FoldLeft(LAMBDA u, c : SetCanvasWindow(u, c, None), t, t.cvs[d]), d), d), d)
  BY Zenon DEF FreeDisplay, With, Vacated, WithoutDisplay
<1>3. QED
  BY <1>1, <1>2, Zenon

\* The pointers of a display that goes are cleared.
LEMMA VacatedIs ==
  ASSUME NEW t \in Screens, NEW d \in Displays, t.cvs[d] = <<>>
  PROVE  Vacated(t, d) = Focusing(t, d, None, None, None, None, None, t.fore, t.flayer)
<1>1. [t.cvs EXCEPT ![d] = <<>>] = t.cvs
  BY Types DEF OthersTyped
<1>2. QED
  BY <1>1, ZenonT(40) DEF Vacated, Focusing, Screens

\* Detach leaves the other displays alone.
LEMMA DetachSound ==
  ASSUME NEW s0, Fine(s0), NEW d \in Displays, d \in ToSet(s0.displays), NEW u, u = Detach(s0, d)
  PROVE  Moves(s0, d, u) /\ Existing(u) = Existing(s0)
<1>1. PICK t : t = At(s0, d)
  OBVIOUS
<1>2. PICK a : a = AutosaveLayout(t, d)
  OBVIOUS
<1>3. PICK x : x = IF t.dfore[d] # None THEN t.dfore[d] ELSE a.detachwin
  OBVIOUS
<1>4. PICK y : y = IF t.dfore[d] # None THEN t.dother[d] ELSE a.detachotherwin
  OBVIOUS
<1>5. PICK r : r = Remembering(a, x, y, t.dlayout[d])
  OBVIOUS
<1>6. PICK b : b = AllEmpties(None, r, r.cvs[d])
  OBVIOUS
<1>7. PICK c : c = WithoutDisplay(b, d)
  OBVIOUS
<1>8. PICK v : v = FreeAllCanvases(c, d)
  OBVIOUS
<1>9. u = Vacated(v, d)
  <2>1. r = Remember(t, d)
    BY <1>2, <1>3, <1>4, <1>5, RememberIs
  <2>2. u = FreeDisplay(r, d)
    BY <1>1, <2>1 DEF Detach, At
  <2>3. QED
    BY <1>6, <1>7, <1>8, <2>2, FreeDisplayIs
<1>10. s0 \in Screens /\ Core(s0, None) /\ Settled(s0, None, None) /\ Shown(s0) /\ d # None
  BY SettledFew, Apart DEF Fine
<1>11. /\ Settled(t, None, None) /\ Shown(t) /\ Aside(s0, t, d) /\ Existing(t) = Existing(s0) /\ t.display = d
       /\ t.displays = s0.displays
  <2>1. t = Pointing(s0, d, s0.fore, s0.flayer)
    BY <1>1, <1>10, PointIs DEF At
  <2>2. d \in Maybe(Displays) /\ s0.fore \in Maybe(Existing(s0)) /\ s0.flayer \in Maybe(Alive(s0))
    BY <1>10 DEF Core, Points, Maybe
  <2>3. /\ Settled(t, None, None) /\ Shown(t) /\ Aside(s0, t, d) /\ Existing(t) = Existing(s0) /\ t.display = d
        /\ Pointed(s0, t)
    BY <1>10, <2>1, <2>2, PointedFine
  <2>4. QED
    BY <2>3 DEF Pointed, Still, Framed
<1>12. /\ Settled(a, None, None) /\ Shown(a) /\ Aside(t, a, d) /\ Existing(a) = Existing(t) /\ a.display = d
       /\ a.displays = t.displays /\ a.cvs = t.cvs /\ a.layouts = t.layouts
  <2>1. Focused(t, d)
    BY <1>10, <1>11 DEF Settled
  <2>2. Refiled(t, None, a) /\ a.layouts = t.layouts
    BY <1>2, <1>11, <2>1, AutosaveSound
  <2>3. QED
    BY <1>11, <2>2 DEF Refiled, Pointers
<1>13. x \in Maybe(Windows) /\ y \in Maybe(Windows) /\ t.dlayout[d] \in Maybe(ToSet(a.layouts))
  <2>1. OthersTyped(t) /\ OthersTyped(a)
    BY <1>11, <1>12, SettledFew, Types
  <2>2. x \in Maybe(Windows) /\ y \in Maybe(Windows)
    BY <1>3, <1>4, <2>1 DEF OthersTyped
  <2>3. t.dlayout[d] \in Maybe(ToSet(t.layouts))
    BY <1>11 DEF Settled, LayoutsKept
  <2>4. QED
    BY <1>12, <2>2, <2>3
<1>14. /\ Settled(r, None, None) /\ Shown(r) /\ Aside(a, r, d) /\ Existing(r) = Existing(a) /\ r.display = d
       /\ r.displays = a.displays /\ r.cvs = a.cvs
  <2>1. PICK z : z = t.dlayout[d]
    OBVIOUS
  <2>2. r = Remembering(a, x, y, z) /\ z \in Maybe(ToSet(a.layouts))
    BY <1>5, <1>13, <2>1
  <2>3. /\ Settled(r, None, None) /\ (Shown(a) <=> Shown(r)) /\ Aside(a, r, d) /\ Existing(r) = Existing(a) /\ Pointers(a, r)
        /\ r.displays = a.displays /\ r.cvs = a.cvs
    BY <1>12, <1>13, <2>2, RememberSound
  <2>4. QED
    BY <1>12, <2>3 DEF Pointers
<1>16. Emptied(r, d, b, ToSet(r.cvs[d]))
  BY <1>6, <1>14, EmptySound
<1>17. /\ Settled(b, None, None) /\ Shown(b) /\ Aside(r, b, d) /\ Framed(r, b) /\ b.display = d /\ Existing(b) = Existing(r)
       /\ b.fore = None
  <2>1. r.forecv[d] \in ToSet(r.cvs[d])
    <3>1. Focused(r, d) /\ d \in ToSet(r.displays)
      BY <1>10, <1>11, <1>12, <1>14 DEF Settled
    <3>2. QED
      BY <3>1 DEF Focused
  <2>2. QED
    BY <1>16, <2>1 DEF Emptied
<1>18. b.displays = s0.displays
  BY <1>11, <1>12, <1>14, <1>17 DEF Framed
<1>19. /\ Settled(c, d, None) /\ Shown(c) /\ Aside(b, c, d) /\ Existing(c) = Existing(b) /\ c.display = d /\ c.fore = None
       /\ c.displays = RemoveFirst(b.displays, d) /\ d \notin ToSet(c.displays) /\ c.layouts = b.layouts /\ c.lay = b.lay
  <2>1. PICK ds : ds = RemoveFirst(b.displays, d)
    OBVIOUS
  <2>2. b \in Screens /\ b.displays \in Seq(Displays) /\ IsInjective(b.displays)
    BY <1>17, SettledFew, Types DEF OthersTyped, Settled, LayoutsKept
  <2>3. c = Displaying(b, ds, d)
    BY <1>7, <1>17, <2>1, <2>2 DEF WithoutDisplay, Displaying, Screens
  <2>4. OtherDisplays(b, d, ds) /\ d \notin ToSet(ds)
    BY <2>1, <2>2, RemovedIs DEF OtherDisplays
  <2>5. Settled(b, d, None) /\ d \in Maybe(Displays)
    BY <1>17, FocusLeft DEF Maybe
  <2>6. Redisplayed(b, d, c) /\ c.displays = ds /\ c.display = d
    BY <2>3, <2>4, <2>5, DisplaySound
  <2>7. QED
    BY <1>17, <2>1, <2>4, <2>6 DEF Redisplayed
<1>20. /\ Settled(v, d, None) /\ Shown(v) /\ Aside(c, v, d) /\ Existing(v) = Existing(c) /\ v.fore = None
       /\ v.displays = c.displays /\ v.layouts = c.layouts /\ v.lay = c.lay /\ v.cvs[d] = <<>>
  <2>1. FreedSome(c, d, v, Others(c, d, None)) /\ \A k \in Canvases : v.owner[k] # d
    BY <1>8, <1>19, SpareIs
  <2>2. /\ Settled(v, d, None) /\ Shown(v) /\ Aside(c, v, d) /\ Existing(v) = Existing(c) /\ v.fore = None /\ Beside(c, v)
    BY <1>19, <2>1 DEF FreedSome
  <2>3. v.cvs[d] \in Seq(Canvases) /\ \A k : k \notin ToSet(v.cvs[d])
    <3>1. v.cvs[d] \in Seq(Canvases) /\ \A k : k \in ToSet(v.cvs[d]) <=> k \in Canvases /\ v.owner[k] = d
      BY <2>2, SettledOwner
    <3>2. QED
      BY <2>1, <3>1
  <2>4. v.cvs[d] = <<>>
    <3>1. Len(v.cvs[d]) \in Nat /\ DOMAIN v.cvs[d] = 1 .. Len(v.cvs[d])
      BY <2>3, LenProperties
    <3>2. Len(v.cvs[d]) = 0
      <4>1. v.cvs[d][1] \notin ToSet(v.cvs[d])
        BY <2>3
      <4>2. 1 \notin DOMAIN v.cvs[d]
        BY <4>1 DEF ToSet
      <4>3. QED
        BY <3>1, <4>2
    <3>3. QED
      BY <2>3, <3>2, EmptySeq
  <2>5. QED
    BY <2>2, <2>4 DEF Beside
<1>21. u = Focusing(v, d, None, None, None, None, None, v.fore, v.flayer)
  BY <1>9, <1>20, SettledFew, VacatedIs
<1>22. /\ Refocused(v, d, u) /\ Aside(v, u, d) /\ u.forecv[d] = None /\ u.dfore[d] = None /\ u.dother[d] = None
       /\ u.dlayout[d] = None /\ u.fore = None
  <2>1. PICK f, l : f = v.fore /\ l = v.flayer
    OBVIOUS
  <2>2. u = Focusing(v, d, None, None, None, None, None, f, l)
    BY <1>21, <2>1
  <2>3. f \in Maybe(Existing(v)) /\ l \in Maybe(Alive(v)) /\ f = None
    BY <1>20, <2>1 DEF Settled, Core, Points
  <2>4. /\ None \in Maybe(Canvases) /\ None \in Maybe(Existing(v)) /\ None \in Maybe(ToSet(v.layouts))
        /\ None \in Maybe(Displays)
    BY DEF Maybe
  <2>5. QED
    BY <1>20, <2>2, <2>3, <2>4, FocusingSound
<1>23. /\ Settled(u, d, None) /\ Shown(u) /\ Existing(u) = Existing(v) /\ u.displays = v.displays /\ u.cvs = v.cvs
       /\ u.layouts = v.layouts /\ u.lay = v.lay
  BY <1>20, <1>22 DEF Refocused
<1>24. Focused(u, d)
  BY <1>19, <1>20, <1>22, <1>23 DEF Focused
<1>25. Filed(u)
  BY <1>17, <1>19, <1>20, <1>23, FiledSame
<1>26. Settled(u, None, None)
  BY <1>23, <1>24, <1>25, FocusBack
<1>27. Aside(s0, u, d)
  <2>1. Aside(s0, r, d)
    BY <1>11, <1>12, <1>14, AsideJoins
  <2>2. Aside(s0, c, d)
    BY <1>17, <1>19, <2>1, AsideJoins
  <2>3. QED
    BY <1>20, <1>22, <2>2, AsideJoins
<1>28. Existing(u) = Existing(s0)
  BY <1>11, <1>12, <1>14, <1>17, <1>19, <1>20, <1>23
<1>29. QED
  BY <1>22, <1>23, <1>26, <1>27, <1>28 DEF Moves, Fine, ForeSeen

-----------------------------------------------------------------------------
(* The initial states.                                                       *)

InitialFacts(u) ==
  /\ u.mru = <<Wtab[1]>> /\ u.cl = [c \in Canvases |-> None] /\ u.owner = [c \in Canvases |-> None]
  /\ u.on = [l \in Layers |-> <<>>] /\ u.below = [o \in Overlays |-> None] /\ u.base = [o \in Overlays |-> None]
  /\ u.start = [o \in Overlays |-> None] /\ u.kind = [o \in Overlays |-> "page"] /\ u.blocking = {}
  /\ u.size = [l \in Layers |-> <<None, 0>>] /\ u.save = [w \in Windows |-> IF w = Wtab[1] THEN w ELSE None]
  /\ u.blocked = [w \in Windows |-> 0] /\ u.displays = <<>> /\ u.cvs = [d \in Displays |-> <<>>]
  /\ u.forecv = [d \in Displays |-> None] /\ u.dfore = [d \in Displays |-> None]
  /\ u.dother = [d \in Displays |-> None] /\ u.dlayout = [d \in Displays |-> None]
  /\ u.layouts = <<>> /\ u.lay = [y \in Layouts |-> NoLayout] /\ u.last = None
  /\ u.detachwin = None /\ u.detachotherwin = None /\ u.display = None /\ u.fore = Wtab[1] /\ u.flayer = None
  /\ Whole(u)

\* Blank, field by field.
LEMMA InitialFields == InitialFacts(Blank)
BY DEF Blank, InitialFacts, Whole

\* Blank is a record of screens.
LEMMA InitialTyped ==
  ASSUME NEW u, InitialFacts(u)
  PROVE  u \in Screens /\ Wtab[1] \in Windows
<1>1. Wtab[1] \in Windows
  BY WindowsAssumption, PoolsAssumption, ElementOfSeq, LenProperties
<1>2. <<>> \in Seq(Canvases) /\ <<>> \in Seq(Displays) /\ <<>> \in Seq(Layouts) /\ <<>> \in Seq(Maybe(Windows))
  BY EmptySeq
<1>3. LayersTyped(u)
  <2>1. u.cl \in [Canvases -> Maybe(Layers)] /\ u.on \in [Layers -> Seq(Canvases)]
    BY <1>2 DEF InitialFacts, Maybe
  <2>2. u.below \in [Overlays -> Maybe(Layers)] /\ u.base \in [Overlays -> Maybe(Layers)]
    BY DEF InitialFacts, Maybe
  <2>3. u.blocking \in SUBSET Overlays /\ u.save \in [Windows -> Maybe(Layers)]
    BY DEF InitialFacts, Maybe, Layers
  <2>4. u.blocked \in [Windows -> 0 .. 2] /\ u.flayer \in Maybe(Layers)
    BY DEF InitialFacts, Maybe
  <2>5. QED
    BY <2>1, <2>2, <2>3, <2>4 DEF LayersTyped
<1>4. LooksTyped(u)
  <2>1. u.kind \in [Overlays -> Kinds]
    BY DEF InitialFacts, Kinds
  <2>2. u.size \in [Layers -> Sizes]
    <3>1. <<None, 0>> \in Sizes
      BY WindowsAssumption DEF Sizes, Maybe
    <3>2. QED
      BY <3>1 DEF InitialFacts
  <2>3. QED
    BY <2>1, <2>2 DEF LooksTyped
<1>5. OthersTyped(u)
  <2>1. u.mru \in Seq(Windows) /\ u.owner \in [Canvases -> Maybe(Displays)]
    BY <1>1 DEF InitialFacts, Maybe
  <2>2. u.start \in [Overlays -> Maybe(Windows) \union {"gone"}]
    BY DEF InitialFacts, Maybe
  <2>3. u.displays \in Seq(Displays) /\ u.cvs \in [Displays -> Seq(Canvases)]
    BY <1>2 DEF InitialFacts
  <2>4. u.forecv \in [Displays -> Maybe(Canvases)] /\ u.dfore \in [Displays -> Maybe(Windows)]
    BY DEF InitialFacts, Maybe
  <2>5. u.dother \in [Displays -> Maybe(Windows)] /\ u.dlayout \in [Displays -> Maybe(Layouts)]
    BY DEF InitialFacts, Maybe
  <2>6. u.layouts \in Seq(Layouts) /\ u.lay \in [Layouts -> [wins : Seq(Maybe(Windows)), focus : Nat]]
    <3>1. NoLayout \in [wins : Seq(Maybe(Windows)), focus : Nat]
      BY <1>2 DEF NoLayout
    <3>2. QED
      BY <1>2, <3>1 DEF InitialFacts
  <2>7. /\ u.last \in Maybe(Layouts) /\ u.detachwin \in Maybe(Windows) /\ u.detachotherwin \in Maybe(Windows)
        /\ u.display \in Maybe(Displays) /\ u.fore \in Maybe(Windows)
    BY <1>1 DEF InitialFacts, Maybe
  <2>8. QED
    BY <2>1, <2>2, <2>3, <2>4, <2>5, <2>6, <2>7 DEF OthersTyped
<1>6. QED
  BY <1>1, <1>3, <1>4, <1>5, IsScreen DEF InitialFacts

\* One window, and no display: the invariant holds.
LEMMA InitialSound ==
  ASSUME NEW t, t = Blank
  PROVE  /\ Settled(t, None, None) /\ Shown(t) /\ Existing(t) = {Wtab[1]} /\ t.displays = <<>> /\ t.last = None
         /\ \A c \in Canvases : t.owner[c] = None
<1>1. InitialFacts(t)
  BY InitialFields
<1>2. t \in Screens /\ Wtab[1] \in Windows
  BY <1>1, InitialTyped
<1>3. /\ \A c \in Canvases : t.cl[c] = None /\ t.owner[c] = None
      /\ \A l \in Layers : t.on[l] = <<>>
      /\ \A o \in Overlays : t.below[o] = None /\ t.base[o] = None
      /\ \A w \in Windows : t.save[w] = (IF w = Wtab[1] THEN w ELSE None) /\ t.blocked[w] = 0
      /\ t.blocking = {} /\ t.mru = <<Wtab[1]>> /\ t.fore = Wtab[1] /\ t.flayer = None
  BY <1>1 DEF InitialFacts
<1>4. /\ \A d \in Displays : /\ t.cvs[d] = <<>> /\ t.forecv[d] = None /\ t.dfore[d] = None /\ t.dother[d] = None
                             /\ t.dlayout[d] = None
      /\ \A y \in Layouts : t.lay[y].wins = <<>>
      /\ t.displays = <<>> /\ t.layouts = <<>> /\ t.last = None
  BY <1>1 DEF InitialFacts, NoLayout
<1>5. IsInjective(<<>>) /\ ToSet(<<>>) = {} /\ IsInjective(<<Wtab[1]>>) /\ ToSet(<<Wtab[1]>>) = {Wtab[1]}
  BY DEF IsInjective, ToSet
<1>6. Existing(t) = {Wtab[1]} /\ OnOthers(t) = {} /\ Wtab[1] # None
  BY <1>2, <1>3, Apart DEF Existing, OnOthers
<1>7. Lists(t)
  <2>1. \A l \in Layers : l # None
    BY Apart
  <2>2. QED
    BY <1>3, <1>5, <2>1 DEF Lists, ListsOf
<1>8. Homes(t)
  BY <1>3 DEF Homes
<1>9. Ranked(t)
  <2> DEFINE r == [o \in Overlays |-> 0]
  <2>1. t.below \in [Overlays -> Maybe(Layers)]
    BY <1>2, Types DEF LayersTyped
  <2>2. \A o \in Overlays : t.below[o] \notin Overlays
    BY <1>3, Apart
  <2>3. RankedBy(t.below, r, 0)
    BY <2>1, <2>2 DEF RankedBy
  <2>4. QED
    BY <2>3 DEF Ranked
<1>10. Based(t) /\ Covered(t) /\ Kept(t, None)
  BY <1>3, <1>6 DEF Based, Covered, Kept
<1>11. Saved(t)
  <2>1. t.save[Wtab[1]] = Wtab[1] /\ Wtab[1] \in Alive(t) /\ Bottom(t, Wtab[1]) = Wtab[1]
    BY <1>2, <1>3, <1>6, Apart DEF Alive, Bottom, IsOverlay
  <2>2. QED
    BY <1>6, <2>1 DEF Saved
<1>12. Blocks(t)
  BY <1>3 DEF Blocks
<1>13. Points(t) /\ Listed(t)
  BY <1>3, <1>4, <1>5, <1>6 DEF Points, Listed, Maybe
<1>14. Core(t, None)
  BY <1>2, <1>7, <1>8, <1>9, <1>10, <1>11, <1>12, <1>13 DEF Core
<1>15. LayoutsKept(t) /\ Filed(t)
  BY <1>4, <1>5 DEF LayoutsKept, Filed, Maybe
<1>16. ASSUME NEW d \in Displays PROVE Region(t, d) /\ Focused(t, d)
  <2>1. Len(t.cvs[d]) <= MaxRegions
    BY <1>4, WindowsAssumption
  <2>2. {c \in Canvases : t.owner[c] = d} = {}
    BY <1>3, Apart
  <2>3. QED
    BY <1>4, <1>5, <2>1, <2>2 DEF Region, Focused
<1>17. Settled(t, None, None)
  <2>1. ToSet(t.mru) = Existing(t) \ {None}
    BY <1>3, <1>5, <1>6
  <2>2. QED
    BY <1>14, <1>15, <1>16, <2>1 DEF Settled
<1>18. Shown(t)
  BY <1>3 DEF Shown
<1>19. QED
  BY <1>3, <1>4, <1>6, <1>17, <1>18


\* k windows more.
Made(t, d, k, u) ==
  /\ Moves(t, d, u) /\ Framed(t, u) /\ u.display = d
  /\ IsFiniteSet(Existing(u)) /\ Cardinality(Existing(u)) = Cardinality(Existing(t)) + k

\* The start-up file makes one more window.
LEMMA MadeStep ==
  ASSUME NEW t, NEW d \in Displays, d \in ToSet(t.displays), NEW k \in Nat, NEW v, Made(t, d, k, v),
         Cardinality(Existing(t)) \in Nat, Cardinality(Existing(t)) + k < Len(Wtab), NEW u, u = MakeWindow(v)
  PROVE  Made(t, d, k + 1, u)
<1>1. /\ Settled(v, None, None) /\ Shown(v) /\ d \in ToSet(v.displays) /\ v.display = d /\ Framed(t, v)
      /\ IsFiniteSet(Existing(v)) /\ Cardinality(Existing(v)) = Cardinality(Existing(t)) + k
      /\ Existing(t) \subseteq Existing(v) /\ Aside(t, v, d)
  BY DEF Made, Moves, Fine, Framed
<1>2. WindowsLeft(v)
  <2>1. Cardinality(Windows) = Len(Wtab)
    BY PoolsAssumption, ListCount DEF Windows
  <2>2. Len(Wtab) \in Nat
    BY PoolsAssumption, LenProperties
  <2>3. Existing(v) # Windows
    BY <1>1, <2>1, <2>2
  <2>4. ToSet(v.mru) = Existing(v) \ {None} /\ None \notin Existing(v)
    BY <1>1, Apart DEF Settled, Existing
  <2>5. QED
    BY <2>3, <2>4 DEF WindowsLeft
<1>3. /\ Moves(v, d, u) /\ u.display = d /\ Framed(v, u)
      /\ \E w \in Windows \ Existing(v) : Existing(u) = Existing(v) \union {w} /\ Shows(u, v.forecv[d]) = w
  BY <1>1, <1>2, MakeSound
<1>4. PICK w : w \notin Existing(v) /\ Existing(u) = Existing(v) \union {w}
  BY <1>3
<1>5. IsFiniteSet(Existing(u)) /\ Cardinality(Existing(u)) = Cardinality(Existing(t)) + (k + 1)
  BY <1>1, <1>4, FS_AddElement
<1>6. Framed(t, u)
  BY <1>1, <1>3 DEF Framed
<1>7. Moves(t, d, u)
  BY <1>1, <1>3, MovesJoins
<1>8. QED
  BY <1>3, <1>5, <1>6, <1>7 DEF Made

\* The start-up file.
LEMMA StartUpSound ==
  ASSUME NEW t, Fine(t), NEW d \in Displays, d \in ToSet(t.displays), t.display = d, NEW w0, Existing(t) = {w0},
         NEW u, u = StartUp(t)
  PROVE  Moves(t, d, u) /\ Framed(t, u) /\ u.display = d
<1> DEFINE q == SubSeq(Wtab, 2, StartWindows)
           n == Len(q)
           S == [k \in 0 .. n |-> {v \in Screens : Made(t, d, k, v)}]
<1>1. Len(Wtab) \in Nat /\ StartWindows \in 1 .. Len(Wtab) /\ \A i \in 1 .. Len(Wtab) : Wtab[i] \in Windows
  BY WindowsAssumption, PoolsAssumption, LenProperties, ElementOfSeq
<1>2. q \in Seq(Windows) /\ n = IF 2 <= StartWindows THEN StartWindows - 2 + 1 ELSE 0
  BY <1>1, SubSeqProperties
<1>3. n \in Nat /\ DOMAIN q = 1 .. n /\ n < Len(Wtab)
  BY <1>1, <1>2, LenProperties
<1>4. IsFiniteSet(Existing(t)) /\ Cardinality(Existing(t)) = 1
  BY FS_Singleton
<1>5. u = AllMakes(None, t, q)
  BY DEF StartUp, Makes, AllMakes, FoldLeft, MapThenFoldSet, Max
<1> HIDE DEF q
<1>6. t \in S[0]
  <2>1. Made(t, d, 0, t)
    BY <1>4, MovesStart DEF Made, Framed
  <2>2. t \in Screens
    BY SettledFew DEF Fine
  <2>3. QED
    BY <1>3, <2>1, <2>2
<1>7. ASSUME NEW k \in 1 .. n, NEW v \in S[k - 1] PROVE Makes(None, v, q[k]) \in S[k]
  <2>1. Made(t, d, k - 1, v) /\ k - 1 \in Nat /\ 1 + (k - 1) < Len(Wtab) /\ (k - 1) + 1 = k
    BY <1>1, <1>3
  <2> HIDE DEF S
  <2>2. PICK x : x = MakeWindow(v)
    OBVIOUS
  <2>3. PICK j : j = k - 1
    OBVIOUS
  <2>8. Made(t, d, j, v) /\ j \in Nat /\ 1 + j < Len(Wtab)
    BY <2>1, <2>3
  <2>9. Cardinality(Existing(t)) \in Nat /\ Cardinality(Existing(t)) + j < Len(Wtab)
    BY <1>4, <2>8
  <2>4. Made(t, d, j + 1, x)
    BY <2>2, <2>8, <2>9, MadeStep
  <2>5. Made(t, d, k, x)
    BY <2>1, <2>3, <2>4
  <2>6. x \in Screens
    BY <2>5, SettledFew DEF Made, Moves, Fine
  <2>7. QED
    BY <1>3, <2>2, <2>5, <2>6 DEF S, Makes
<1> HIDE DEF n, S
<1>8. u \in S[n]
  BY <1>3, <1>5, <1>6, <1>7, MakesKeep DEF n
<1>9. QED
  BY <1>3, <1>8 DEF S, Made

\* There are windows left for the start-up file.
LEMMA RoomFor ==
  ASSUME NEW t, NEW c \in Canvases, t.owner[c] = None
  PROVE  CanvasesLeft(t, 1)
<1> DEFINE F == {x \in Canvases : t.owner[x] = None}
<1>1. IsFiniteSet(Canvases)
  BY PoolsAssumption, ListCount DEF Canvases
<1>2. IsFiniteSet(F) /\ F # {}
  BY <1>1, FS_Subset
<1>3. Cardinality(F) \in Nat /\ Cardinality(F) # 0
  BY <1>2, FS_EmptySet, FS_CardinalityType
<1>4. 1 <= Cardinality(F)
  BY <1>3
<1>5. QED
  BY <1>4 DEF CanvasesLeft

\* Two displays can attach before anything else happens.
LEMMA TwoCanvases == \E a, b \in Canvases : a # b
<1>1. CanvasPool \in Seq(Canvases) /\ IsInjective(CanvasPool) /\ Len(CanvasPool) >= 2
  BY PoolsAssumption
<1>2. Len(CanvasPool) \in Nat /\ DOMAIN CanvasPool = 1 .. Len(CanvasPool)
  BY <1>1, LenProperties
<1>3. 1 \in 1 .. Len(CanvasPool) /\ 2 \in 1 .. Len(CanvasPool)
  BY <1>1, <1>2
<1>4. CanvasPool[1] \in Canvases /\ CanvasPool[2] \in Canvases
  BY <1>1, <1>3, ElementOfSeq
<1>5. CanvasPool[1] # CanvasPool[2]
  BY <1>1, <1>2, <1>3 DEF IsInjective
<1>6. QED
  BY <1>4, <1>5

\* The invariant holds when the program has started.
LEMMA StartsSound ==
  ASSUME Init
  PROVE  Fine(s) /\ s.display = None
<1>1. PICK d, e \in Displays : s = With(StartUp(Attach(Blank, d)),
                                        LAMBDA t : [(IF e = d THEN t ELSE Attach(t, e)) EXCEPT !.display = None])
  BY DEF Init
<1>2. PICK b : b = Blank
  OBVIOUS
<1>3. PICK a : a = Attach(b, d)
  OBVIOUS
<1>4. PICK t : t = StartUp(a)
  OBVIOUS
<1>5. PICK v : v = IF e = d THEN t ELSE Attach(t, e)
  OBVIOUS
<1>6. s = [v EXCEPT !.display = None]
  BY <1>1, <1>2, <1>3, <1>4, <1>5 DEF With
<1>7. /\ Settled(b, None, None) /\ Shown(b) /\ Existing(b) = {Wtab[1]} /\ b.displays = <<>> /\ b.last = None
      /\ \A c \in Canvases : b.owner[c] = None
  BY <1>2, InitialSound
<1>8. CanvasesLeft(b, 1) /\ d \notin ToSet(b.displays)
  <2>1. d \notin ToSet(b.displays)
    BY <1>7 DEF ToSet
  <2>2. QED
    BY <1>7, <2>1, TwoCanvases, RoomFor
<1>9. /\ Moves(b, d, a) /\ Existing(a) = {Wtab[1]} /\ a.displays = Cons(d, b.displays) /\ a.display = d
      /\ d \in ToSet(a.displays) /\ OneMore(b, a)
  BY <1>3, <1>7, <1>8, AttachSound
<1>10. Moves(a, d, t) /\ Framed(a, t) /\ t.display = d
  BY <1>4, <1>9, StartUpSound DEF Moves
<1>11. Fine(v)
  <2>1. CASE e = d
    BY <1>5, <1>10, <2>1 DEF Moves
  <2>2. CASE e # d
    <3>1. Settled(t, None, None) /\ Shown(t) /\ t.last = None /\ Existing(t) # {} /\ t.owner = a.owner /\ t.displays = a.displays
      BY <1>9, <1>10 DEF Moves, Fine, Framed, OneMore
    <3>2. e \notin ToSet(t.displays)
      <4>1. ToSet(t.displays) = {d}
        <5>1. t.displays = Cons(d, <<>>)
          BY <1>7, <1>9, <3>1
        <5>2. Cons(d, <<>>) = <<d>>
          BY DEF Cons
        <5>3. QED
          BY <5>1, <5>2 DEF ToSet
      <4>2. QED
        BY <2>2, <4>1
    <3>3. CanvasesLeft(t, 1)
      <4>1. PICK c : \A x \in Canvases : x # c => a.owner[x] = b.owner[x]
        BY <1>9 DEF OneMore
      <4>2. PICK x \in Canvases : x # c
        BY TwoCanvases
      <4>3. t.owner[x] = None
        BY <1>7, <3>1, <4>1, <4>2
      <4>4. QED
        BY <4>3, RoomFor
    <3>4. v = Attach(t, e)
      BY <1>5, <2>2
    <3>5. Moves(t, e, v)
      BY <3>1, <3>2, <3>3, <3>4, AttachSound
    <3>6. QED
      BY <3>5 DEF Moves
  <2>3. QED
    BY <2>1, <2>2
<1>12. QED
  BY <1>6, <1>11, EndSound

-----------------------------------------------------------------------------
(* The inductive invariant.                                                  *)

IInv == Fine(s) /\ s.display = None /\ events \in 0 .. MaxEvents

\* One display changes, or a window goes.
Undisturbed(t, u) ==
  \/ Existing(t) \subseteq Existing(u) /\ \E d : Aside(t, u, d)
  \/ \E w \in Existing(t) : /\ Existing(u) = Existing(t) \ {w} /\ u.cvs = t.cvs
                            /\ \A d \in ToSet(t.displays) : Dealt(t, u, w, d)

\* An event on one display keeps the invariant.
LEMMA HandleMoves ==
  ASSUME IInv, NEW t, NEW d, Moves(s, d, t), Handle(t)
  PROVE  IInv' /\ Undisturbed(s, s')
<1>1. s' = [t EXCEPT !.display = None] /\ events < MaxEvents /\ events' = events + 1 /\ MaxEvents \in Nat
  BY WindowsAssumption DEF Handle
<1>2. Fine(t) /\ Aside(s, t, d) /\ Existing(s) \subseteq Existing(t)
  BY DEF Moves
<1>3. Fine(s') /\ (s').display = None /\ Existing(s') = Existing(t) /\ Aside(t, s', d)
  BY <1>1, <1>2, EndSound
<1>4. Aside(s, s', d)
  BY <1>2, <1>3, AsideJoins
<1>5. Undisturbed(s, s')
  BY <1>2, <1>3, <1>4 DEF Undisturbed
<1>6. events' \in 0 .. MaxEvents
  BY <1>1 DEF IInv
<1>7. QED
  BY <1>3, <1>5, <1>6 DEF IInv

\* t is the state s with the globals of an event.
Begun(t) == Fine(t) /\ Existing(t) = Existing(s) /\ t.cvs = s.cvs /\ t.displays = s.displays /\ \A c : Shows(t, c) = Shows(s, c)

\* An event that kills a window keeps the invariant.
LEMMA HandleKills ==
  ASSUME IInv, NEW t, Begun(t), NEW w \in Existing(t), Handle(KillWindow(t, w))
  PROVE  IInv' /\ Undisturbed(s, s')
<1>1. PICK u : u = KillWindow(t, w)
  OBVIOUS
<1>2. s' = [u EXCEPT !.display = None] /\ events < MaxEvents /\ events' = events + 1 /\ MaxEvents \in Nat
  BY <1>1, WindowsAssumption DEF Handle
<1>3. Fine(t) /\ Existing(t) = Existing(s) /\ t.cvs = s.cvs /\ t.displays = s.displays /\ \A c : Shows(t, c) = Shows(s, c)
  BY DEF Begun
<1>4. Kills(t, w, u)
  BY <1>1, <1>3, KillWindowSound
<1>5. /\ Fine(u) /\ Existing(u) = Existing(t) \ {w} /\ u.displays = t.displays /\ u.cvs = t.cvs
      /\ \A d \in ToSet(t.displays) : Dealt(t, u, w, d)
  BY <1>4 DEF Kills
<1>6. Fine(s') /\ (s').display = None /\ Existing(s') = Existing(u) /\ (s').cvs = u.cvs /\ \A c : Shows(s', c) = Shows(u, c)
  BY <1>2, <1>5, EndSound
<1>7. ASSUME NEW d \in ToSet(s.displays) PROVE Dealt(s, s', w, d)
  <2>1. Dealt(t, u, w, d)
    BY <1>3, <1>5
  <2>2. QED
    BY <1>3, <1>6, <2>1 DEF Dealt
<1>8. Undisturbed(s, s')
  <2>1. Existing(s') = Existing(s) \ {w} /\ (s').cvs = s.cvs /\ w \in Existing(s)
    BY <1>3, <1>5, <1>6
  <2>2. QED
    BY <1>7, <2>1 DEF Undisturbed
<1>9. events' \in 0 .. MaxEvents
  BY <1>2 DEF IInv
<1>10. QED
  BY <1>6, <1>8, <1>9 DEF IInv

\* A command is typed on a display.
LEMMA CommandStarts ==
  ASSUME IInv, RemoteCmds = {}, NEW cmd, NEW t \in Contexts(cmd)
  PROVE  \E d : /\ d \in ToSet(s.displays) /\ t = Key(d) /\ Current(t, d) /\ Aside(s, t, d)
                /\ Existing(t) = Existing(s) /\ Begun(t) /\ OnOthers(t) = OnOthers(s)
<1>1. PICK d \in ToSet(s.displays) : t = Key(d)
  BY DEF Contexts, Attached
<1>2. Fine(s) /\ d \in Displays
  <2>1. Fine(s) /\ s.displays \in Seq(Displays)
    BY SettledFew, Types DEF IInv, Fine, OthersTyped
  <2>2. QED
    BY <2>1, ElementOfSeq, LenProperties DEF ToSet
<1>3. Current(t, d) /\ Aside(s, t, d) /\ Existing(t) = Existing(s) /\ Pointed(s, t) /\ OnOthers(t) = OnOthers(s)
  BY <1>1, <1>2, KeySound
<1>4. SameLayers(s, t) /\ t.cvs = s.cvs /\ t.displays = s.displays
  BY <1>3 DEF Pointed, Still, Framed
<1>5. \A c : Shows(t, c) = Shows(s, c)
  <2>1. t.cl = s.cl /\ \A l : Layer2Window(t, l) = Layer2Window(s, l)
    BY <1>4, SameSound DEF SameLayers
  <2>2. QED
    BY <2>1 DEF Shows
<1>6. Begun(t)
  BY <1>3, <1>4, <1>5 DEF Begun, Current
<1>7. QED
  BY <1>1, <1>3, <1>6

\* A key is typed on a display.
LEMMA KeyStarts ==
  ASSUME IInv, NEW d \in Attached, NEW t, t = Key(d)
  PROVE  Current(t, d) /\ Aside(s, t, d) /\ Existing(t) = Existing(s)
<1>1. Fine(s) /\ d \in Displays /\ d \in ToSet(s.displays)
  <2>1. Fine(s) /\ s.displays \in Seq(Displays)
    BY SettledFew, Types DEF IInv, Fine, OthersTyped
  <2>2. QED
    BY <2>1, ElementOfSeq, LenProperties DEF ToSet, Attached
<1>2. QED
  BY <1>1, KeySound

\* What an event on the display does, it does from s.
LEMMA FromStart ==
  ASSUME NEW t, NEW u, NEW d, Aside(s, t, d), Existing(t) = Existing(s), Moves(t, d, u)
  PROVE  Moves(s, d, u)
BY MovesJoins

\* The windows in the list are those that exist.
LEMMA LiveIs ==
  ASSUME NEW t, Fine(t)
  PROVE  ToSet(t.mru) = Existing(t)
BY Apart DEF Fine, Settled, Existing

-----------------------------------------------------------------------------
(* The events.                                                               *)

\* What a step shows: the invariant stays and one display changes, or a window goes.
StepSound == IInv' /\ Undisturbed(s, s')

\* screen
LEMMA StepScreen == ASSUME IInv, RemoteCmds = {}, Screen PROVE StepSound
<1>1. PICK t \in Contexts("screen") : WindowsLeft(t) /\ Handle(MakeWindow(t))
  BY DEF Screen
<1>2. PICK d : Current(t, d) /\ Aside(s, t, d) /\ Existing(t) = Existing(s)
  BY CommandStarts
<1>3. PICK u : u = MakeWindow(t)
  OBVIOUS
<1>4. Settled(t, None, None) /\ Shown(t) /\ d \in Displays /\ d \in ToSet(t.displays) /\ t.display = d
  BY <1>2, CurrentFacts
<1>5. Moves(t, d, u)
  BY <1>1, <1>3, <1>4, MakeSound
<1>6. Moves(s, d, u) /\ Handle(u)
  BY <1>1, <1>2, <1>3, <1>5, FromStart
<1>7. QED
  BY <1>6, HandleMoves DEF StepSound

\* kill
LEMMA StepKill == ASSUME IInv, RemoteCmds = {}, Kill PROVE StepSound
<1>1. PICK t \in Contexts("kill") : Len(t.mru) > 1 /\ t.fore # None /\ Handle(KillWindow(t, t.fore))
  BY DEF Kill
<1>2. Begun(t)
  BY CommandStarts
<1>3. t.fore \in Existing(t)
  BY <1>1, <1>2, SettledFew DEF Begun, Fine, Core, Points, Maybe
<1>4. QED
  BY <1>1, <1>2, <1>3, HandleKills DEF StepSound

\* select, next, prev and the like
LEMMA StepSelect == ASSUME IInv, RemoteCmds = {}, Select PROVE StepSound
<1>1. PICK t \in Contexts("select"), w \in Live : Handle(SwitchWindow(t, w))
  BY DEF Select
<1>2. PICK d : Current(t, d) /\ Aside(s, t, d) /\ Existing(t) = Existing(s)
  BY CommandStarts
<1>3. PICK u : u = SwitchWindow(t, w)
  OBVIOUS
<1>4. Moves(t, d, u)
  BY <1>2, <1>3, SwitchSound DEF Current
<1>5. Moves(s, d, u) /\ Handle(u)
  BY <1>1, <1>2, <1>3, <1>4, FromStart
<1>6. QED
  BY <1>5, HandleMoves DEF StepSound

\* select -
LEMMA StepUnselect == ASSUME IInv, RemoteCmds = {}, Unselect PROVE StepSound
<1>1. PICK t \in Contexts("unselect") : Handle(Activate(SetForeWindow(t, None)))
  BY DEF Unselect
<1>2. PICK d : Current(t, d) /\ Aside(s, t, d) /\ Existing(t) = Existing(s)
  BY CommandStarts
<1>3. PICK u : u = Activate(SetForeWindow(t, None))
  OBVIOUS
<1>4. Settled(t, None, None) /\ Shown(t) /\ d \in Displays /\ d \in ToSet(t.displays) /\ t.display = d /\ None \in Maybe(Existing(t))
  BY <1>2, CurrentFacts DEF Maybe
<1>5. Moves(t, d, u)
  BY <1>3, <1>4, ForeActivated
<1>6. Moves(s, d, u) /\ Handle(u)
  BY <1>1, <1>2, <1>3, <1>5, FromStart
<1>7. QED
  BY <1>6, HandleMoves DEF StepSound

\* other
LEMMA StepOther == ASSUME IInv, RemoteCmds = {}, Other PROVE StepSound
<1>1. PICK t \in Contexts("other") :
        IF t.display # None /\ t.dother[t.display] # None
        THEN Handle(SwitchWindow(t, t.dother[t.display]))
        ELSE \E w \in Live \ {t.fore} : Handle(SwitchWindow(t, w))
  BY DEF Other
<1>2. PICK w : Handle(SwitchWindow(t, w))
  BY <1>1
<1>3. PICK d : Current(t, d) /\ Aside(s, t, d) /\ Existing(t) = Existing(s)
  BY CommandStarts
<1>4. PICK u : u = SwitchWindow(t, w)
  OBVIOUS
<1>5. Moves(t, d, u)
  BY <1>3, <1>4, SwitchSound DEF Current
<1>6. Moves(s, d, u) /\ Handle(u)
  BY <1>2, <1>3, <1>4, <1>5, FromStart
<1>7. QED
  BY <1>6, HandleMoves DEF StepSound

\* split
LEMMA StepSplit == ASSUME IInv, RemoteCmds = {}, Split PROVE StepSound
<1>1. PICK t \in Displayed("split") : Len(t.cvs[t.display]) < MaxRegions /\ CanvasesLeft(t, 1)
                                      /\ Handle(Activate(AddCanvas(t, t.display)))
  BY DEF Split
<1>2. PICK d : Current(t, d) /\ Aside(s, t, d) /\ Existing(t) = Existing(s)
  BY CommandStarts DEF Displayed
<1>3. t.display = d
  BY <1>2, CurrentFacts
<1>4. PICK u : u = Activate(AddCanvas(t, d))
  OBVIOUS
<1>5. Moves(t, d, u)
  BY <1>1, <1>2, <1>3, <1>4, AddCanvasSound
<1>6. Moves(s, d, u) /\ Handle(u)
  BY <1>1, <1>2, <1>3, <1>4, <1>5, FromStart
<1>7. QED
  BY <1>6, HandleMoves DEF StepSound

\* remove
LEMMA StepRemoveRegion == ASSUME IInv, RemoteCmds = {}, RemoveRegion PROVE StepSound
<1>1. PICK t \in Displayed("remove") :
        \E i \in {Place(t.cvs[t.display], t.forecv[t.display]) - 1, Place(t.cvs[t.display], t.forecv[t.display]) + 1}
                 \intersect DOMAIN t.cvs[t.display] :
          Handle(Activate(RemCanvas(t, t.display, t.cvs[t.display][i])))
  BY DEF RemoveRegion
<1>2. PICK d : Current(t, d) /\ Aside(s, t, d) /\ Existing(t) = Existing(s)
  BY CommandStarts DEF Displayed
<1>3. /\ t.display = d /\ Settled(t, None, None) /\ d \in Displays /\ t.forecv[d] \in ToSet(t.cvs[d])
  BY <1>2, CurrentFacts
<1>4. PICK at : at = Place(t.cvs[d], t.forecv[d])
  OBVIOUS
<1>5. PICK i \in {at - 1, at + 1} \intersect DOMAIN t.cvs[d] : Handle(Activate(RemCanvas(t, d, t.cvs[d][i])))
  BY <1>1, <1>3, <1>4
<1>6. t.cvs[d] \in Seq(Canvases) /\ IsInjective(t.cvs[d])
  <2>1. t.cvs[d] \in Seq(Canvases)
    BY <1>3, SettledOwner
  <2>2. QED
    BY <1>3, <2>1 DEF Settled, Region
<1>7. at \in DOMAIN t.cvs[d] /\ t.cvs[d][at] = t.forecv[d] /\ DOMAIN t.cvs[d] \subseteq Nat
  BY <1>3, <1>4, <1>6, PlaceIn, LenProperties
<1>8. PICK to : to = t.cvs[d][i]
  OBVIOUS
<1>9. to \in ToSet(t.cvs[d]) /\ to # t.forecv[d]
  <2>1. i # at
    BY <1>5, <1>7
  <2>2. to # t.forecv[d]
    BY <1>5, <1>6, <1>7, <1>8, <2>1 DEF IsInjective
  <2>3. QED
    BY <1>5, <1>8, <2>2 DEF ToSet
<1>10. PICK u : u = Activate(RemCanvas(t, d, to))
  OBVIOUS
<1>11. Moves(t, d, u)
  BY <1>2, <1>9, <1>10, RemCanvasSound
<1>12. Moves(s, d, u) /\ Handle(u)
  BY <1>2, <1>5, <1>8, <1>10, <1>11, FromStart
<1>13. QED
  BY <1>12, HandleMoves DEF StepSound

\* only
LEMMA StepOnly == ASSUME IInv, RemoteCmds = {}, Only PROVE StepSound
<1>1. PICK t \in Displayed("only") : Handle(Activate(OneCanvas(t, t.display)))
  BY DEF Only
<1>2. PICK d : Current(t, d) /\ Aside(s, t, d) /\ Existing(t) = Existing(s)
  BY CommandStarts DEF Displayed
<1>3. t.display = d
  BY <1>2, CurrentFacts
<1>4. PICK u : u = Activate(OneCanvas(t, d))
  OBVIOUS
<1>5. Moves(t, d, u)
  BY <1>2, <1>4, OneCanvasSound
<1>6. Moves(s, d, u) /\ Handle(u)
  BY <1>1, <1>2, <1>3, <1>4, <1>5, FromStart
<1>7. QED
  BY <1>6, HandleMoves DEF StepSound

\* focus
LEMMA StepFocus == ASSUME IInv, RemoteCmds = {}, Focus PROVE StepSound
<1>1. PICK t \in Displayed("focus") : \E c \in ToSet(t.cvs[t.display]) : Handle(FocusOn(t, t.display, c))
  BY DEF Focus
<1>2. PICK d : Current(t, d) /\ Aside(s, t, d) /\ Existing(t) = Existing(s)
  BY CommandStarts DEF Displayed
<1>3. t.display = d
  BY <1>2, CurrentFacts
<1>4. PICK c \in ToSet(t.cvs[d]) : Handle(FocusOn(t, d, c))
  BY <1>1, <1>3
<1>5. PICK u : u = FocusOn(t, d, c)
  OBVIOUS
<1>6. Moves(t, d, u)
  BY <1>2, <1>4, <1>5, FocusSoundOn
<1>7. Moves(s, d, u) /\ Handle(u)
  BY <1>2, <1>4, <1>5, <1>6, FromStart
<1>8. QED
  BY <1>7, HandleMoves DEF StepSound

\* help, windowlist, copy and input
LEMMA StepOpen == ASSUME IInv, RemoteCmds = {}, Open PROVE StepSound
<1>1. PICK k \in Kinds : \E t \in Contexts(k) : LayersLeft(t) /\ Handle(InitOverlayPage(t, k))
  BY DEF Open
<1>2. PICK t \in Contexts(k) : LayersLeft(t) /\ Handle(InitOverlayPage(t, k))
  BY <1>1
<1>3. PICK d : Current(t, d) /\ Aside(s, t, d) /\ Existing(t) = Existing(s)
  BY CommandStarts
<1>4. PICK u : u = InitOverlayPage(t, k)
  OBVIOUS
<1>5. LeftOn(t, d, u)
  BY <1>2, <1>3, <1>4, OpenSound DEF Current
<1>6. Moves(t, d, u)
  BY <1>5 DEF LeftOn, Moves, Fine
<1>7. Moves(s, d, u) /\ Handle(u)
  BY <1>2, <1>3, <1>4, <1>6, FromStart
<1>8. QED
  BY <1>7, HandleMoves DEF StepSound

\* windowlist -b
LEMMA StepWindowList == ASSUME IInv, RemoteCmds = {}, WindowList PROVE StepSound
<1>1. PICK t \in Displayed("windowlist") : \E clear, v, u :
        /\ clear = (IF t.dfore[t.display] = None THEN t ELSE Activate(SetForeWindow(t, None)))
        /\ LayersLeft(clear) /\ v = InitOverlayPage(clear, "list")
        /\ u = Starting(v, v.flayer, t.dfore[t.display]) /\ Handle(u)
  BY DEF WindowList, With, Starting
<1>2. PICK d : Current(t, d) /\ Aside(s, t, d) /\ Existing(t) = Existing(s)
  BY CommandStarts DEF Displayed
<1>3. t.display = d
  BY <1>2, CurrentFacts
<1>4. PICK clear, v, u :
        /\ clear = (IF t.dfore[d] = None THEN t ELSE Activate(SetForeWindow(t, None)))
        /\ LayersLeft(clear) /\ v = InitOverlayPage(clear, "list")
        /\ u = Starting(v, v.flayer, t.dfore[d]) /\ Handle(u)
  BY <1>1, <1>3
<1>5. Moves(t, d, u)
  BY <1>2, <1>4, ListSound
<1>6. Moves(s, d, u) /\ Handle(u)
  BY <1>2, <1>4, <1>5, FromStart
<1>7. QED
  BY <1>6, HandleMoves DEF StepSound

\* A key leaves an overlay.
LEMMA StepLeave == ASSUME IInv, Leave PROVE StepSound
<1>1. PICK d \in Attached : \E w : IsOverlay(Key(d).flayer) /\
        Handle(IF w = None THEN Closed(Key(d), d, Key(d).flayer) ELSE SwitchWindow(Closed(Key(d), d, Key(d).flayer), w))
  BY DEF Leave, With, Closed
<1>2. PICK t : t = Key(d)
  OBVIOUS
<1>3. PICK o : o = t.flayer
  OBVIOUS
<1>4. PICK v : v = Closed(t, d, o)
  OBVIOUS
<1>5. PICK w : IsOverlay(o) /\ Handle(IF w = None THEN v ELSE SwitchWindow(v, w))
  BY <1>1, <1>2, <1>3, <1>4
<1>6. PICK u : u = (IF w = None THEN v ELSE SwitchWindow(v, w))
  OBVIOUS
<1>7. Current(t, d) /\ Aside(s, t, d) /\ Existing(t) = Existing(s)
  BY <1>2, KeyStarts
<1>8. o \in Overlays /\ (u = v \/ u = SwitchWindow(v, w))
  BY <1>5, <1>6 DEF IsOverlay
<1>9. Moves(t, d, u)
  BY <1>3, <1>4, <1>7, <1>8, LeaveSound
<1>10. Moves(s, d, u) /\ Handle(u)
  BY <1>5, <1>6, <1>7, <1>9, FromStart
<1>11. QED
  BY <1>10, HandleMoves DEF StepSound

\* A window is chosen from the list.
LEMMA StepPick == ASSUME IInv, Pick PROVE StepSound
<1>1. PICK d \in Attached : \E w : IsOverlay(Key(d).flayer) /\ Handle(SwitchWindow(Closed(Key(d), d, Key(d).flayer), w))
  BY DEF Pick, Closed
<1>2. PICK t : t = Key(d)
  OBVIOUS
<1>3. PICK o : o = t.flayer
  OBVIOUS
<1>4. PICK v : v = Closed(t, d, o)
  OBVIOUS
<1>5. PICK w : IsOverlay(o) /\ Handle(SwitchWindow(v, w))
  BY <1>1, <1>2, <1>3, <1>4
<1>6. PICK u : u = SwitchWindow(v, w)
  OBVIOUS
<1>7. Current(t, d) /\ Aside(s, t, d) /\ Existing(t) = Existing(s)
  BY <1>2, KeyStarts
<1>8. o \in Overlays /\ (u = v \/ u = SwitchWindow(v, w))
  BY <1>5, <1>6 DEF IsOverlay
<1>9. Moves(t, d, u)
  BY <1>3, <1>4, <1>7, <1>8, LeaveSound
<1>10. Moves(s, d, u) /\ Handle(u)
  BY <1>5, <1>6, <1>7, <1>9, FromStart
<1>11. QED
  BY <1>10, HandleMoves DEF StepSound

\* layout new
LEMMA StepLayoutNew == ASSUME IInv, RemoteCmds = {}, LayoutNew PROVE StepSound
<1>1. PICK t \in Displayed("layout") : \E y \in Layouts \ ToSet(t.layouts) : Handle(Activate(NewLayout(t, t.display, y)))
  BY DEF LayoutNew
<1>2. PICK y \in Layouts \ ToSet(t.layouts) : Handle(Activate(NewLayout(t, t.display, y)))
  BY <1>1
<1>3. PICK d : Current(t, d) /\ Aside(s, t, d) /\ Existing(t) = Existing(s)
  BY CommandStarts DEF Displayed
<1>4. t.display = d
  BY <1>3, CurrentFacts
<1>5. PICK u : u = Activate(NewLayout(t, d, y))
  OBVIOUS
<1>6. Moves(t, d, u)
  BY <1>3, <1>5, NewLayoutSound
<1>7. Moves(s, d, u) /\ Handle(u)
  BY <1>2, <1>3, <1>4, <1>5, <1>6, FromStart
<1>8. QED
  BY <1>7, HandleMoves DEF StepSound

\* layout select, next and prev
LEMMA StepLayoutSelect == ASSUME IInv, RemoteCmds = {}, LayoutSelect PROVE StepSound
<1>1. PICK t \in Displayed("layout") : \E y \in ToSet(t.layouts) \ {t.dlayout[t.display]} :
        /\ CanvasesLeft(FreeAllCanvases(t, t.display), Len(t.lay[y].wins))
        /\ Handle(Activate(LoadLayout(t, y)))
  BY DEF LayoutSelect
<1>2. PICK y \in ToSet(t.layouts) \ {t.dlayout[t.display]} :
        /\ CanvasesLeft(FreeAllCanvases(t, t.display), Len(t.lay[y].wins))
        /\ Handle(Activate(LoadLayout(t, y)))
  BY <1>1
<1>3. PICK d : Current(t, d) /\ Aside(s, t, d) /\ Existing(t) = Existing(s)
  BY CommandStarts DEF Displayed
<1>4. t.display = d
  BY <1>3, CurrentFacts
<1>5. PICK u : u = Activate(LoadLayout(t, y))
  OBVIOUS
<1>6. y \in ToSet(t.layouts) /\ y # t.dlayout[d] /\ CanvasesLeft(FreeAllCanvases(t, d), Len(t.lay[y].wins))
  BY <1>2, <1>4
<1>7. Moves(t, d, u)
  BY <1>3, <1>5, <1>6, SelectSound
<1>8. Moves(s, d, u) /\ Handle(u)
  BY <1>2, <1>3, <1>5, <1>7, FromStart
<1>9. QED
  BY <1>8, HandleMoves DEF StepSound

\* layout remove
LEMMA StepLayoutRemove == ASSUME IInv, RemoteCmds = {}, LayoutRemove PROVE StepSound
<1>1. PICK t \in Displayed("layout") : \E y \in ToSet(t.layouts) :
        /\ t.last # y /\ \A d \in Attached \ {t.display} : t.dlayout[d] # y
        /\ CanvasesLeft(FreeAllCanvases(t, t.display), MaxRegions)
        /\ Handle(RemoveLayout(t, t.display, y))
  BY DEF LayoutRemove
<1>2. PICK y \in ToSet(t.layouts) :
        /\ t.last # y /\ \A d \in Attached \ {t.display} : t.dlayout[d] # y
        /\ CanvasesLeft(FreeAllCanvases(t, t.display), MaxRegions)
        /\ Handle(RemoveLayout(t, t.display, y))
  BY <1>1
<1>3. PICK d : Current(t, d) /\ Aside(s, t, d) /\ Existing(t) = Existing(s) /\ Begun(t)
  BY CommandStarts DEF Displayed
<1>4. t.display = d /\ t.displays = s.displays
  BY <1>3, CurrentFacts DEF Begun
<1>5. PICK u : u = RemoveLayout(t, d, y)
  OBVIOUS
<1>6. t.last # y /\ (\A e \in ToSet(t.displays) \ {d} : t.dlayout[e] # y) /\ CanvasesLeft(FreeAllCanvases(t, d), MaxRegions)
  BY <1>2, <1>4 DEF Attached
<1>7. Moves(t, d, u)
  BY <1>3, <1>5, <1>6, RemoveSound
<1>8. Moves(s, d, u) /\ Handle(u)
  BY <1>2, <1>3, <1>4, <1>5, <1>7, FromStart
<1>9. QED
  BY <1>8, HandleMoves DEF StepSound

\* A display is attached.
LEMMA StepAttach == ASSUME IInv, DoAttach PROVE StepSound
<1>1. PICK d \in Displays \ Attached : CanvasesLeft(s, MaxRegions) /\ LayersLeft(s) /\ Handle(Attach(s, d))
  BY DEF DoAttach
<1>2. PICK u : u = Attach(s, d)
  OBVIOUS
<1>3. Settled(s, None, None) /\ Shown(s) /\ d \in Displays /\ d \notin ToSet(s.displays)
  BY DEF IInv, Fine, Attached
<1>4. CanvasesLeft(s, 1)
  <2>1. Cardinality({c \in Canvases : s.owner[c] = None}) \in Nat
    BY FinitePools, FS_Subset, FS_CardinalityType
  <2>2. QED
    BY <1>1, <2>1, WindowsAssumption DEF CanvasesLeft
<1>5. Moves(s, d, u)
  BY <1>1, <1>2, <1>3, <1>4, AttachSound
<1>6. QED
  BY <1>1, <1>2, <1>5, HandleMoves DEF StepSound

\* A display is detached, or hung up.
LEMMA StepDetach == ASSUME IInv, DoDetach PROVE StepSound
<1>1. PICK d \in Attached : Handle(Detach(s, d)) \/ Handle(Detach(Key(d), d))
  BY DEF DoDetach
<1>2. PICK t : t = Key(d)
  OBVIOUS
<1>3. Current(t, d) /\ Aside(s, t, d) /\ Existing(t) = Existing(s)
  BY <1>2, KeyStarts
<1>4. Fine(s) /\ d \in ToSet(s.displays) /\ d \in Displays /\ Fine(t) /\ d \in ToSet(t.displays)
  BY <1>3 DEF IInv, Attached, Current
<1>5. CASE Handle(Detach(s, d))
  <2>1. PICK u : u = Detach(s, d)
    OBVIOUS
  <2>2. Moves(s, d, u) /\ Handle(u)
    BY <1>4, <1>5, <2>1, DetachSound
  <2>3. QED
    BY <2>2, HandleMoves DEF StepSound
<1>6. CASE Handle(Detach(Key(d), d))
  <2>1. PICK u : u = Detach(t, d)
    OBVIOUS
  <2>2. Moves(t, d, u)
    BY <1>4, <2>1, DetachSound
  <2>3. Moves(s, d, u) /\ Handle(u)
    BY <1>2, <1>3, <1>6, <2>1, <2>2, FromStart
  <2>4. QED
    BY <2>3, HandleMoves DEF StepSound
<1>7. QED
  BY <1>1, <1>5, <1>6

\* The process of a window is gone.
LEMMA StepDied == ASSUME IInv, Died PROVE StepSound
<1>1. PICK w \in Live : Handle(KillWindow(s, w))
  BY DEF Died
<1>2. Begun(s) /\ w \in Existing(s)
  BY LiveIs DEF IInv, Begun, Live
<1>3. QED
  BY <1>1, <1>2, HandleKills DEF StepSound

\* No step disturbs the invariant, or two displays.
LEMMA StepAny ==
  ASSUME IInv, RemoteCmds = {}, Next
  PROVE  StepSound
<1>1. CASE Screen \/ Kill \/ Select \/ Unselect \/ Other
  BY <1>1, StepScreen, StepKill, StepSelect, StepUnselect, StepOther
<1>2. CASE Split \/ RemoveRegion \/ Only \/ Focus
  BY <1>2, StepSplit, StepRemoveRegion, StepOnly, StepFocus
<1>3. CASE Open \/ WindowList \/ Leave \/ Pick
  BY <1>3, StepOpen, StepWindowList, StepLeave, StepPick
<1>4. CASE LayoutNew \/ LayoutSelect \/ LayoutRemove
  BY <1>4, StepLayoutNew, StepLayoutSelect, StepLayoutRemove
<1>5. CASE DoAttach \/ DoDetach \/ Died
  BY <1>5, StepAttach, StepDetach, StepDied
<1>6. QED
  BY <1>1, <1>2, <1>3, <1>4, <1>5 DEF Next

\* The invariant holds at the start.
LEMMA StartsInv == Init => IInv
<1>1. Init => Fine(s) /\ s.display = None
  BY StartsSound
<1>2. Init => events \in 0 .. MaxEvents
  BY WindowsAssumption DEF Init
<1>3. QED
  BY <1>1, <1>2 DEF IInv

\* The invariant depends on the variables only.
LEMMA StutterInv == IInv /\ UNCHANGED vars => IInv'
<1>1. SUFFICES ASSUME IInv, UNCHANGED vars PROVE IInv'
  OBVIOUS
<1>2. s' = s /\ events' = events
  BY <1>1 DEF vars
<1>3. QED
  BY <1>1, <1>2 DEF IInv

-----------------------------------------------------------------------------
(* What the invariant says of the lists and chains.                          *)

\* An overlay belongs to a chain that is shown or saved.
Reached(t, o) == \E x \in {t.cl[c] : c \in Owned(t)} \union {t.save[w] : w \in Existing(t)} :
  x # None /\ o \in Under(t.below, x)

\* The top of a chain is shown or saved.
LEMMA AllReached ==
  ASSUME NEW t, Core(t, None), NEW o \in OnOthers(t)
  PROVE  Reached(t, o)
<1>1. PICK x \in Overlays : o \in Under(t.below, x) /\ Held(t, x)
  BY HasTop
<1>2. x # None
  BY Apart
<1>3. CASE \E c \in Canvases : t.cl[c] = x
  <2>1. PICK c \in Canvases : t.cl[c] = x
    BY <1>3
  <2>2. c \in Owned(t)
    BY <1>2, <2>1 DEF Core, Homes, Owned
  <2>3. QED
    BY <1>1, <1>2, <2>1, <2>2 DEF Reached
<1>4. CASE \E w \in Windows : t.save[w] = x
  <2>1. PICK w \in Windows : t.save[w] = x
    BY <1>4
  <2>2. w \in Existing(t)
    BY <1>2, <2>1 DEF Existing
  <2>3. QED
    BY <1>1, <1>2, <2>1, <2>2 DEF Reached
<1>5. QED
  BY <1>1, <1>3, <1>4 DEF Held

\* What no canvas shows has an empty list.
LEMMA BareList ==
  ASSUME NEW t, Core(t, None), NEW l \in Layers, Bare(t, l)
  PROVE  t.on[l] = <<>>
<1>1. t.on[l] \in Seq(Canvases)
  BY Types DEF Core, LayersTyped
<1>2. ToSet(t.on[l]) = {}
  BY DEF Core, Lists, ListsOf, Bare
<1>3. QED
  BY <1>1, <1>2, EmptyList

\* The invariant implies the types,
LEMMA InvTyped == IInv => TypeOK
BY SettledFew DEF IInv, Fine, TypeOK

\* that lists of canvases and c_layer agree,
LEMMA InvLinked == IInv => Linked /\ AllShown
<1>1. SUFFICES ASSUME IInv PROVE Linked /\ AllShown
  OBVIOUS
<1>2. Core(s, None) /\ Shown(s)
  BY <1>1, SettledFew DEF IInv, Fine
<1>3. Linked
  BY <1>2 DEF Core, Lists, ListsOf, Linked
<1>4. AllShown
  BY <1>2 DEF Shown, AllShown, Used
<1>5. QED
  BY <1>3, <1>4

\* that no layer is lost,
LEMMA InvReached == IInv => NoLayerLost
<1>1. SUFFICES ASSUME IInv PROVE NoLayerLost
  OBVIOUS
<1>2. Core(s, None) /\ Fine(s)
  BY <1>1, SettledFew DEF IInv, Fine
<1>3. Live = Existing(s) /\ Used = Owned(s) /\ Stacked = OnOthers(s)
  BY <1>2, LiveIs DEF Live, Used, Owned, Stacked, OnOthers
<1>4. ASSUME NEW o \in Stacked
      PROVE  \E x \in {s.cl[c] : c \in Used} \union {s.save[w] : w \in Live} : x # None /\ o \in ToSet(Chain(s, x))
  <2>1. Reached(s, o)
    BY <1>2, <1>3, AllReached
  <2>2. PICK x \in {s.cl[c] : c \in Used} \union {s.save[w] : w \in Live} : x # None /\ o \in Under(s.below, x)
    BY <1>3, <2>1 DEF Reached
  <2>3. o \in ToSet(Chain(s, x))
    BY <2>2, ChainIs DEF Under
  <2>4. QED
    BY <2>2, <2>3
<1>5. ASSUME NEW o \in Stacked, IsOverlay(s.below[o]) PROVE s.on[s.below[o]] = <<>>
  <2>1. s.below[o] \in Overlays /\ s.below[o] \in Layers /\ s.below[o] \notin Windows
    BY <1>5, Apart DEF IsOverlay
  <2>2. Bare(s, s.below[o])
    BY <1>2, <1>3, <2>1 DEF Core, Covered
  <2>3. QED
    BY <1>2, <2>1, <2>2, BareList
<1>6. QED
  BY <1>4, <1>5 DEF NoLayerLost

\* that windows are blocked by at most one layer,
LEMMA InvBlocked == IInv => Blocked
<1>1. SUFFICES ASSUME IInv, NEW w \in Live
               PROVE  LET over == {o \in s.blocking : s.below[o] = w}
                      IN /\ s.blocked[w] = Cardinality(over) /\ s.blocked[w] <= 1
                         /\ over # {} => s.on[w] = <<>>
                         /\ Bottom(s, s.save[w]) = w
  BY DEF Blocked
<1> DEFINE over == {o \in s.blocking : s.below[o] = w}
<1>2. Core(s, None) /\ Fine(s)
  BY <1>1, SettledFew DEF IInv, Fine
<1>3. w \in Existing(s) /\ w \in Windows /\ w \in Layers
  BY <1>2, LiveIs, Apart DEF Live, Existing
<1>4. Bottom(s, s.save[w]) = w
  BY <1>2, <1>3 DEF Core, Saved
<1>5. /\ s.blocked[w] \in {0, 1}
      /\ s.blocked[w] = 0 => over = {}
      /\ s.blocked[w] = 1 => \E o \in over : \A x \in over : x = o
      /\ over # {} => Bare(s, w)
  BY <1>2, <1>3 DEF Core, Blocks
<1>6. over # {} => s.on[w] = <<>>
  BY <1>2, <1>3, <1>5, BareList
<1> HIDE DEF over
<1>7. s.blocked[w] = Cardinality(over) /\ s.blocked[w] <= 1
  <2>1. CASE s.blocked[w] = 0
    BY <1>5, <2>1, FS_EmptySet
  <2>2. CASE s.blocked[w] = 1
    <3>1. PICK o \in over : \A x \in over : x = o
      BY <1>5, <2>2
    <3>2. over = {o}
      BY <3>1
    <3>3. Cardinality({o}) = 1
      BY FS_Singleton
    <3>4. QED
      BY <2>2, <3>2, <3>3
  <2>3. QED
    BY <1>5, <2>1, <2>2
<1>8. QED
  BY <1>4, <1>6, <1>7 DEF over

\* and that pointers point to something alive.
LEMMA InvAlive == IInv => PointersAlive
<1>1. SUFFICES ASSUME IInv PROVE PointersAlive
  OBVIOUS
<1>2. Core(s, None) /\ Fine(s) /\ Settled(s, None, None) /\ s.displays \in Seq(Displays)
      /\ s.layouts \in Seq(Layouts)
  BY <1>1, SettledFew, Types DEF IInv, Fine, OthersTyped
<1>3. Live = Existing(s) /\ Used = Owned(s) /\ Stacked = OnOthers(s)
  BY <1>2, LiveIs DEF Live, Used, Owned, Stacked, OnOthers
<1>4. \A d \in Attached : d \in Displays /\ d # None /\ d \in ToSet(s.displays)
  BY <1>2, ElementOfSeq, LenProperties, Apart DEF Attached, ToSet
<1>5. FocusSound
  BY <1>2, <1>4 DEF Settled, Focused, FocusSound
<1>6. ForeAlive /\ OtherAlive /\ FlayerAlive
  BY <1>2, <1>3, <1>4 DEF Core, Points, ForeAlive, OtherAlive, FlayerAlive, Alive
<1>7. \A y \in ToSet(s.layouts) : y \in Layouts
  BY <1>2, ElementOfSeq, LenProperties DEF ToSet
<1>8. LayoutsAlive
  <2>1. LayoutsKept(s)
    BY <1>2 DEF Settled
  <2>2. QED
    BY <1>3, <1>4, <1>7, <2>1 DEF LayoutsKept, LayoutsAlive
<1>9. QED
  BY <1>5, <1>6, <1>8 DEF PointersAlive

-----------------------------------------------------------------------------
(* The theorems.                                                             *)

\* What no other display showed is still shown.
LEMMA ViewKept ==
  ASSUME NEW t, NEW u, Fine(t), NEW e \in Displays, NEW d, e # d, Aside(t, u, d)
  PROVE  View(t, e) = View(u, e)
<1>1. u.cvs[e] = t.cvs[e] /\ \A c \in Canvases : t.owner[c] = e => Shows(u, c) = Shows(t, c)
  BY DEF Aside
<1>2. \A c \in ToSet(t.cvs[e]) : c \in Canvases /\ t.owner[c] = e
  BY SettledOwner DEF Fine
<1>3. \A c \in ToSet(t.cvs[e]) : Shows(u, c) = Shows(t, c)
  BY <1>1, <1>2
<1>4. QED
  BY <1>1, <1>3 DEF View

\* The step of OthersUndisturbed.
Apartly ==
  LET both == Attached \intersect Attached'
      gone == Live \ Live'
  IN IF gone = {} THEN Cardinality({d \in both : View(s, d) # View(s', d)}) <= 1
     ELSE \A d \in both : \A c \in ToSet(s.cvs[d]) :
            IF Shows(s, c) \notin gone THEN Shows(s', c) = Shows(s, c)
            ELSE Shows(s', c) = None =>
                   \A w \in Live' : \E x \in ToSet(s.cvs[d]) : Shows(s', x) = w

\* A step leaves the views of other displays, or replaces the window that goes.
LEMMA StepApart ==
  ASSUME IInv, StepSound
  PROVE  Apartly
<1>1. Fine(s) /\ Fine(s') /\ s.displays \in Seq(Displays)
  BY SettledFew, Types DEF IInv, StepSound, Fine, OthersTyped
<1>2. Live = Existing(s) /\ Live' = Existing(s')
  BY <1>1, LiveIs DEF Live
<1>3. \A d \in Attached : d \in Displays /\ d \in ToSet(s.displays)
  BY <1>1, ElementOfSeq, LenProperties DEF Attached, ToSet
<1> DEFINE both == Attached \intersect Attached'
           gone == Live \ Live'
           other == {d \in both : View(s, d) # View(s', d)}
<1>4. CASE Existing(s) \subseteq Existing(s') /\ \E d : Aside(s, s', d)
  <2>1. PICK d : Aside(s, s', d)
    BY <1>4
  <2>2. gone = {}
    BY <1>2, <1>4
  <2>3. \A e \in both : e # d => View(s, e) = View(s', e)
    BY <1>1, <1>3, <2>1, ViewKept
  <2>4. other \subseteq {d}
    BY <2>3
  <2> HIDE DEF other
  <2>5. Cardinality(other) <= 1
    <3>1. IsFiniteSet({d}) /\ Cardinality({d}) = 1
      BY FS_Singleton
    <3>2. other \in SUBSET {d}
      BY <2>4
    <3>3. Cardinality(other) <= Cardinality({d})
      BY <3>1, <3>2, FS_Subset
    <3>4. QED
      BY <3>1, <3>3
  <2>6. QED
    BY <2>2, <2>5 DEF Apartly, other
<1>5. CASE \E w \in Existing(s) : /\ Existing(s') = Existing(s) \ {w} /\ (s').cvs = s.cvs
                                  /\ \A d \in ToSet(s.displays) : Dealt(s, s', w, d)
  <2>1. PICK w \in Existing(s) : /\ Existing(s') = Existing(s) \ {w} /\ (s').cvs = s.cvs
                                 /\ \A d \in ToSet(s.displays) : Dealt(s, s', w, d)
    BY <1>5
  <2>2. gone = {w} /\ Live' = Existing(s) \ {w}
    BY <1>2, <2>1
  <2>3. ASSUME NEW d \in both, NEW c \in ToSet(s.cvs[d])
        PROVE  IF Shows(s, c) \notin gone THEN Shows(s', c) = Shows(s, c)
               ELSE Shows(s', c) = None => \A y \in Live' : \E x \in ToSet(s.cvs[d]) : Shows(s', x) = y
    <3>1. Dealt(s, s', w, d)
      BY <1>3, <2>1
    <3>2. CASE Shows(s, c) # w
      BY <2>2, <3>1, <3>2 DEF Dealt
    <3>3. CASE Shows(s, c) = w
      BY <2>2, <3>1, <3>3 DEF Dealt
    <3>4. QED
      BY <3>2, <3>3
  <2>4. gone # {}
    BY <2>2
  <2>5. QED
    BY <2>3, <2>4 DEF Apartly
<1>6. QED
  BY <1>4, <1>5 DEF StepSound, Undisturbed

\* The inductive invariant, when commands come from the displays' keyboards.
THEOREM AlwaysInv ==
  ASSUME RemoteCmds = {}
  PROVE  Spec => []IInv
<1>1. Init => IInv
  BY StartsInv
<1>2. IInv /\ [Next]_vars => IInv'
  BY StepAny, StutterInv DEF StepSound
<1>3. QED
  BY <1>1, <1>2, PTL DEF Spec

\* The screens are well-formed records: every field has its type.
THEOREM TypeCorrect ==
  ASSUME RemoteCmds = {}
  PROVE  Spec => []TypeOK
<1>1. IInv => TypeOK
  BY InvTyped
<1>2. QED
  BY <1>1, AlwaysInv, PTL

\* After every event each canvas is in the list of the layer it shows and in no
\* other, no layer is lost, and a window is blocked just while a layer blocks it,
\* for any numbers of windows, canvases, layers and displays (layer.c, window.c).
THEOREM LayersCorrect ==
  ASSUME RemoteCmds = {}
  PROVE  Spec => []LayersSound
<1>1. IInv => LayersSound
  BY InvTyped, InvLinked, InvReached, InvBlocked DEF LayersSound
<1>2. QED
  BY <1>1, AlwaysInv, PTL

\* FreeWindow, FreeDisplay, KillLayerChain and RemoveLayout leave no pointer to
\* what they free, in no global and in no display.
THEOREM PointersCorrect ==
  ASSUME RemoteCmds = {}
  PROVE  Spec => []PointersAlive
<1>1. IInv => PointersAlive
  BY InvAlive
<1>2. QED
  BY <1>1, AlwaysInv, PTL

\* What a user does on a display changes what that display shows and no other
\* one; when a window goes, just the canvases that showed it change.
THEOREM OthersCorrect ==
  ASSUME RemoteCmds = {}
  PROVE  Spec => OthersUndisturbed
<1>1. IInv /\ [Next]_vars => [Apartly]_vars
  BY StepAny, StepApart
<1>2. QED
  BY <1>1, AlwaysInv, PTL DEF Spec, OthersUndisturbed, Apartly
=============================================================================
