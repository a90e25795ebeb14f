------------------------------ MODULE Windows ------------------------------
(***************************************************************************)
(* What is shown where: windows, the layers that cover them, the regions   *)
(* (canvases) of the displays, and the layouts that remember regions       *)
(* (layer.c, window.c, and parts of process.c, display.c, resize.c).       *)
(*                                                                         *)
(* A canvas points to the topmost layer it shows (c_layer), a layer lists  *)
(* the canvases that show it (l_cvlist) and points to the layer under it   *)
(* (l_next); a window points to the top layer to show with it              *)
(* (w_savelayer).  All of these are kept by hand, in functions that call   *)
(* each other, through the globals display, fore and flayer.  They are     *)
(* operators from screens (the record s) to screens here; an action is the *)
(* handling of one event.  Each window and canvas stands for its own layer *)
(* as well (w_layer and c_blank).                                          *)
(***************************************************************************)
EXTENDS Naturals, Sequences, FiniteSets, SequencesExt

CONSTANTS
  Wtab,          \* the windows in the order of their numbers
  CanvasPool,    \* canvases; the first unused one is allocated
  LayerPool,     \* overlay layers, allocated likewise
  Displays, Layouts,
  None,          \* a null pointer
  Commands,      \* the commands that are typed
  RemoteCmds,    \* the commands that are sent with -X
  StartWindows,  \* how many windows the start-up file makes
  MaxRegions,    \* bound: regions of a display
  MaxEvents      \* bound: events that are handled

Windows == ToSet(Wtab)
Canvases == ToSet(CanvasPool)
Overlays == ToSet(LayerPool)
Layers == Windows \union Canvases \union Overlays
Kinds == {"page", "list", "block"}  \* help and the like, the window list, input and copy mode

ASSUME WindowsAssumption ==
  /\ MaxRegions \in Nat \ {0} /\ MaxEvents \in Nat /\ StartWindows \in 1 .. Len(Wtab)
  /\ None \notin Layers \union Displays \union Layouts
  /\ Windows \intersect Canvases = {} /\ Overlays \intersect (Windows \union Canvases) = {}

\* windows have different numbers, and a pool is of different things, enough for Init
ASSUME PoolsAssumption ==
  /\ Wtab \in Seq(Windows) /\ IsInjective(Wtab)
  /\ CanvasPool \in Seq(Canvases) /\ IsInjective(CanvasPool) /\ Len(CanvasPool) >= 2
  /\ LayerPool \in Seq(Overlays) /\ IsInjective(LayerPool)

VARIABLES
  s,      \* the screens
  events  \* how many events were handled

vars == <<s, events>>

Maybe(S) == S \union {None}
Sizes == Maybe(Displays) \X (0 .. MaxRegions)  \* the regions of a display are equally large

Screens ==
  [ mru      : Seq(Windows),                  \* windows, the last used one first
    cl       : [Canvases -> Maybe(Layers)],   \* c_layer
    owner    : [Canvases -> Maybe(Displays)], \* c_display
    on       : [Layers -> Seq(Canvases)],     \* l_cvlist
    below    : [Overlays -> Maybe(Layers)],   \* l_next, None for an unused layer
    base     : [Overlays -> Maybe(Layers)],   \* l_bottom
    start    : [Overlays -> Maybe(Windows) \union {"gone"}],  \* start of a window list
    kind     : [Overlays -> Kinds],           \* l_layfn
    blocking : SUBSET Overlays,               \* l_blocking
    size     : [Layers -> Sizes],             \* l_width and l_height
    save     : [Windows -> Maybe(Layers)],    \* w_savelayer
    blocked  : [Windows -> 0 .. 2],           \* w_blocked
    displays : Seq(Displays),                 \* displays, the newest first
    cvs      : [Displays -> Seq(Canvases)],   \* d_cvlist
    forecv   : [Displays -> Maybe(Canvases)], \* d_forecv
    dfore    : [Displays -> Maybe(Windows)],  \* d_fore
    dother   : [Displays -> Maybe(Windows)],  \* d_other
    dlayout  : [Displays -> Maybe(Layouts)],  \* d_layout
    layouts  : Seq(Layouts),
    lay      : [Layouts -> [wins : Seq(Maybe(Windows)), focus : Nat]],
    last     : Maybe(Layouts),                \* layout_last
    detachwin      : Maybe(Windows),          \* u_detachwin and u_detachotherwin
    detachotherwin : Maybe(Windows),
    display  : Maybe(Displays),
    fore     : Maybe(Windows),
    flayer   : Maybe(Layers) ]

-----------------------------------------------------------------------------
(* Lists *)

\* LET y == x IN F(y); TLC's coverage expands a LET at each of its uses
With(x, F(_)) == F(x)

Unused(pool, S) == FoldLeft(LAMBDA q, x : IF x \in S THEN q ELSE Append(q, x), <<>>, pool)
Live == ToSet(s.mru)
Place(seq, x) == CHOOSE i \in DOMAIN seq : seq[i] = x
After(seq, x) ==  \* w_next and the like
  IF x \in ToSet(seq) /\ x # Last(seq) THEN seq[Place(seq, x) + 1] ELSE None
FirstIn(seq, P(_)) ==
  LET i == SelectInSeq(seq, P) IN IF i = 0 THEN None ELSE seq[i]
ToFront(seq, x) == Cons(x, RemoveFirst(seq, x))

-----------------------------------------------------------------------------
(* Layers *)

IsOverlay(l) == l \in Overlays
Bottom(t, l) == IF IsOverlay(l) THEN t.base[l] ELSE l
Layer2Window(t, l) == IF Bottom(t, l) \in Windows THEN Bottom(t, l) ELSE None
Shows(t, c) == Layer2Window(t, t.cl[c])

\* the overlays of the chain that starts at l, from the top
Chain(t, l) ==
  LET chain[x \in Maybe(Layers)] == IF IsOverlay(x) THEN <<x>> \o chain[t.below[x]] ELSE <<>>
  IN chain[l]

\* the canvases of one layer's list come to the front of another's
Moved(on, from, to) == [on EXCEPT ![to] = on[from] \o @, ![from] = <<>>]

\* the layer below is the window's and the overlay blocks it
Unblocks(t, o) == t.below[o] \in Windows /\ o \in t.blocking

\* ExitOverlayPage: flayer, an overlay, goes; its canvases show what is below
\* it, or, when a layer blocks the window, that layer
ExitOverlayPage(t) ==
  LET o == t.flayer
      p == Layer2Window(t, o)
      next == t.below[o]
      blocked == IF Unblocks(t, o) THEN [t.blocked EXCEPT ![p] = @ - 1] ELSE t.blocked
      warp == /\ next \in Windows /\ blocked[p] > 0
              /\ t.save[p] \notin {None, next} /\ t.on[o] # <<>>
      to == IF warp THEN t.save[p] ELSE next
  IN [t EXCEPT !.blocked = blocked, !.flayer = to,
               !.save = [w \in Windows |-> IF w = p /\ @[w] = o THEN to ELSE @[w]],
               !.cl = [c \in Canvases |-> IF c \in ToSet(t.on[o]) THEN to ELSE @[c]],
               !.on = Moved(@, o, to),
               !.below[o] = None, !.base[o] = None, !.blocking = @ \ {o}]

\* the loops "while (flayer->l_next) ExitOverlayPage()"
ExitAll(t) ==
  FoldLeft(LAMBDA u, i : IF IsOverlay(u.flayer) THEN ExitOverlayPage(u) ELSE u, t, LayerPool)

\* KillLayerChain: the canvases lose their layers; of each list the head
\* stays, and is passed down
KillLayerChain(t, l) ==
  LET chain == ToSet(Chain(t, l))
      cut == [t EXCEPT
        !.cl = [c \in Canvases |-> IF \E o \in chain : c \in ToSet(t.on[o]) THEN None ELSE @[c]],
        !.on = [o \in Layers |-> IF o \in chain /\ @[o] # <<>> THEN <<Head(@[o])>> ELSE @[o]],
        !.flayer = l]
  IN [ExitAll(cut) EXCEPT !.flayer = IF t.flayer \in chain THEN None ELSE t.flayer]

\* the saved layer of p that is replaced while no canvas shows it
SupersededNever(t, p, f) == FALSE
Superseded(t, p, f) == t.save[p] \notin {None, f} /\ t.on[t.save[p]] = <<>>

\* a new layer o on f takes over the canvas cv only, or all
Taken(on, f, own, cv) == IF own THEN <<cv>> ELSE on[f]
TakenOver(on, o, f, own, cv) ==
  [on EXCEPT ![o] = Taken(on, f, own, cv), ![f] = IF own THEN RemoveFirst(@, cv) ELSE <<>>]

\* InitOverlayPage on flayer.  The new layer covers the focused canvas of the
\* display only, or, when it blocks or covers an overlay, all canvases
InitOverlayPage(t, kind) ==
  LET o == Head(Unused(LayerPool, {x \in Overlays : t.below[x] # None}))
      f == t.flayer
      p == Layer2Window(t, f)
      block == kind = "block"
      cv == IF t.display # None /\ t.cl[t.forecv[t.display]] = f
            THEN t.forecv[t.display] ELSE None
      first == p # None /\ block /\ ~IsOverlay(f)
      saved == p # None /\ (first \/ t.save[p] = f)
      own == cv # None /\ ~IsOverlay(f) /\ ~block
  IN With(IF saved /\ Superseded(t, p, f) THEN KillLayerChain(t, t.save[p]) ELSE t, LAMBDA u :
     [u EXCEPT !.save = [w \in Windows |-> IF w = p /\ saved THEN o ELSE @[w]],
               !.blocked = [w \in Windows |-> IF w = p /\ first THEN @[w] + 1 ELSE @[w]],
               !.blocking = IF first THEN @ \union {o} ELSE @,
               !.cl = [c \in Canvases |-> IF c \in ToSet(Taken(u.on, f, own, cv)) THEN o ELSE @[c]],
               !.on = TakenOver(@, o, f, own, cv),
               !.below[o] = f, !.base[o] = Bottom(t, f), !.kind[o] = kind,
               !.size[o] = t.size[f], !.flayer = o])

LayersLeft(t) == \E o \in Overlays : t.below[o] = None

-----------------------------------------------------------------------------
(* Sizes *)

CanvasSize(t, c) == <<t.owner[c], Len(t.cvs[t.owner[c]])>>

\* MayResizeLayer: at most one canvas shows the chain
MayResizeLayer(t, l) ==
  LET shown == Chain(t, l) \o <<Bottom(t, l)>>
  IN FoldLeft(LAMBDA n, x : n + Len(t.on[x]), 0, shown) <= 1

\* ResizeLayer: all overlays of the window go; the window list may be resized
ResizeLayer(t, l, size) ==
  LET p == Layer2Window(t, l)
      b == Bottom(t, l)
      old == IF t.flayer = None THEN None
             ELSE IF t.flayer = l \/ Layer2Window(t, t.flayer) = p
                  THEN Bottom(t, t.flayer) ELSE t.flayer
      canvases == FoldLeft(LAMBDA q, d : q \o t.cvs[d], <<>>, t.displays)
      \* the tops of the chains of the window, as they are when their turn comes
      bare(u, c) == IF c # None /\ Shows(u, c) # p THEN u
                    ELSE ExitAll([u EXCEPT !.flayer = IF p = None THEN l
                                                      ELSE IF c = None THEN u.save[p] ELSE u.cl[c]])
      stays == p = None /\ IsOverlay(l) /\ t.below[l] = b /\ t.kind[l] = "list"
  IN IF t.size[l] = size THEN t
     ELSE [(IF stays THEN [t EXCEPT !.size[l] = size]
            ELSE FoldLeft(bare, t, (IF p = None THEN <<>> ELSE canvases) \o <<None>>))
           EXCEPT !.size[b] = size, !.flayer = IF stays THEN t.flayer ELSE old]

Refit(t, c) ==
  IF t.cl[c] # None /\ t.size[t.cl[c]] # CanvasSize(t, c) /\ MayResizeLayer(t, t.cl[c])
  THEN ResizeLayer(t, t.cl[c], CanvasSize(t, c)) ELSE t
ResizeLayersToCanvases(t, d) == FoldLeft(Refit, t, t.cvs[d])

\* Activate
Activate(t) ==
  IF t.display = None THEN t
  ELSE With(Refit(t, t.forecv[t.display]), LAMBDA u : [u EXCEPT !.fore = u.dfore[u.display]])

-----------------------------------------------------------------------------
(* Windows on canvases *)

\* SetCanvasWindow: cv shows window wi, or nothing.  First what it shows is
\* taken off, then the layer that no canvas shows any more is freed
OffCanvas(t, cv) ==
  LET d == t.display
      l == t.cl[cv]
      leaves == cv = t.forecv[d] /\ l # None /\ Layer2Window(t, l) # None
  IN [t EXCEPT !.on = [x \in Layers |-> IF x = l THEN RemoveFirst(@[x], cv) ELSE @[x]],
               !.cl[cv] = None,
               !.dother[d] = IF leaves THEN t.fore ELSE @,
               !.dfore[d] = IF leaves THEN None ELSE @]
FreeUnshown(t, l) ==
  IF l # None /\ t.on[l] = <<>> /\ (Layer2Window(t, l) = None \/ l # t.save[Layer2Window(t, l)])
  THEN KillLayerChain(t, l) ELSE t
OnCanvas(u, cv, wi) ==
  LET d == u.display
      focused == cv = u.forecv[d]
      to == IF wi = None THEN cv
            ELSE IF u.save[wi] # None /\ (u.blocked[wi] > 0 \/ u.on[u.save[wi]] = <<>>)
                 THEN u.save[wi] ELSE wi
  IN [u EXCEPT !.on[to] = Cons(cv, @), !.cl[cv] = to,
               !.flayer = IF @ = None THEN to ELSE @,
               !.dother[d] = IF wi # None /\ @ = wi THEN After(u.mru, wi) ELSE @,
               !.dfore[d] = IF focused THEN wi ELSE @,
               !.fore = IF focused THEN wi ELSE @,
               !.mru = IF focused /\ wi # None THEN ToFront(@, wi) ELSE @]
SetCanvasWindow(t, cv, wi) ==
  OnCanvas(FreeUnshown(OffCanvas([t EXCEPT !.display = t.owner[cv]], cv), t.cl[cv]), cv, wi)

SetForeWindow(t, wi) ==
  IF t.display = None THEN [t EXCEPT !.fore = wi]
  ELSE With(SetCanvasWindow(t, t.forecv[t.display], wi),
            LAMBDA u : [u EXCEPT !.flayer = u.cl[u.forecv[u.display]]])

\* SwitchWindow
SwitchWindow(t, wi) ==
  IF wi \notin ToSet(t.mru) THEN t
  ELSE IF t.display = None THEN [t EXCEPT !.fore = wi]
  ELSE IF wi = t.dfore[t.display] THEN t
  ELSE Activate(SetForeWindow(t, wi))

IsOnDisplay(t, wi) == \E c \in ToSet(t.cvs[t.display]) : Shows(t, c) = wi

\* FindNiceWindow: wi, unless the display shows it; then one whose own layer
\* no canvas shows, then one this display does not show
FindHiddenWindow(t, wi) ==
  IF t.display = None \/ (wi # None /\ ~IsOnDisplay(t, wi)) THEN wi
  ELSE FirstIn(t.mru, LAMBDA w : t.on[w] = <<>>)
FindNiceWindow(t, wi) ==
  LET hidden == FirstIn(t.mru, LAMBDA w : t.on[w] = <<>>)
      away == FirstIn(t.mru, LAMBDA w : t.on[w] # <<>> /\ ~IsOnDisplay(t, w))
  IN IF t.display = None \/ (wi # None /\ ~IsOnDisplay(t, wi)) THEN wi
     ELSE IF hidden # None THEN hidden ELSE away

\* MakeWindow: the first free number; the window covers the focused canvas
MakeWindow(t) ==
  LET w == Head(Unused(Wtab, ToSet(t.mru)))
      d == t.display
  IN Activate(SetForeWindow(
       [t EXCEPT !.mru = Cons(w, @), !.save[w] = w, !.blocked[w] = 0, !.on[w] = <<>>,
                 !.size[w] = IF d = None THEN @ ELSE CanvasSize(t, t.forecv[d]),
                 !.dother = [x \in Displays |-> IF x = d /\ t.dfore[x] # None
                                                THEN t.dfore[x] ELSE @[x]]], w))

WindowsLeft(t) == ToSet(t.mru) # Windows

\* FreeWindow: the displays forget w; next is its w_next.  (Its loop over the canvases
\* that still show w finds none: KillWindow has given each of them another window.)
ForgetFocused(t, w, next) ==
  [t EXCEPT !.dother = [d \in Displays |-> IF t.dfore[d] = w /\ @[d] = w THEN next ELSE @[d]],
            !.dfore = [d \in Displays |-> IF @[d] = w THEN None ELSE @[d]]]
Forget(t, w, next) ==
  [t EXCEPT !.dother = [d \in Displays |->
                         IF @[d] # w THEN @[d]
                         ELSE IF t.dfore[d] # None THEN After(t.mru, t.dfore[d]) ELSE next],
            !.dfore = [d \in Displays |-> IF @[d] = w THEN None ELSE @[d]]]

FreeWindow(t, w, next) ==
  With(IF t.save[w] # None THEN KillLayerChain(Forget(t, w, next), t.save[w]) ELSE Forget(t, w, next),
       LAMBDA k :
         [k EXCEPT !.cl = [c \in Canvases |-> IF c \in ToSet(k.on[w]) THEN c ELSE @[c]],
                   !.on = [l \in Layers |-> IF l \in ToSet(k.on[w]) THEN <<l>>
                                            ELSE IF l = w THEN <<>> ELSE @[l]],
                   !.flayer = IF @ = w THEN None ELSE @, !.save[w] = None, !.blocked[w] = 0])

\* KillWindow: every canvas that shows w gets another window, layouts forget
\* it, window lists that started at it know
Replace(t, w, c) ==
  IF Shows(t, c) # w THEN t
  ELSE SetCanvasWindow(t, c, FindNiceWindow(t, t.dother[t.display]))
ReplaceOnDisplay(t, w, d) ==
  LET shown == \E c \in ToSet(t.cvs[d]) : Shows(t, c) = w
  IN With(FoldLeft(LAMBDA u, c : Replace(u, w, c), [t EXCEPT !.display = d], t.cvs[d]),
          LAMBDA u : IF shown THEN Activate(u) ELSE u)
WithoutWindow(lay, w) ==
  [lay EXCEPT !.wins = [i \in DOMAIN lay.wins |-> IF lay.wins[i] = w THEN None ELSE lay.wins[i]]]
KillWindow(t, w) ==
  FreeWindow(
    [FoldLeft(LAMBDA u, d : ReplaceOnDisplay(u, w, d), [t EXCEPT !.mru = RemoveFirst(@, w)], t.displays)
     EXCEPT !.display = None,
            !.lay = [y \in Layouts |-> WithoutWindow(@[y], w)],
            !.start = [o \in Overlays |-> IF @[o] = w THEN "gone" ELSE @[o]]],
    w, After(t.mru, w))

-----------------------------------------------------------------------------
(* Canvases.  The order of d_cvlist stands for the tree of slices. *)

InitBlank(t, c, d) ==  \* CanvasInitBlank of a new canvas
  [t EXCEPT !.owner[c] = d, !.cl[c] = c, !.on[c] = <<c>>]

NewCanvases(t, n) ==
  SubSeq(Unused(CanvasPool, {c \in Canvases : t.owner[c] # None}), 1, n)

CanvasesLeft(t, n) == n <= Cardinality({c \in Canvases : t.owner[c] = None})

FreeCanvas(t, cv) ==
  LET d == t.display
      out == IF d = None THEN t
             ELSE [t EXCEPT !.forecv[d] = IF @ = cv THEN None ELSE @, !.cvs[d] = RemoveFirst(@, cv)]
  IN With(SetCanvasWindow(out, cv, None), LAMBDA u :
       [u EXCEPT !.flayer = IF @ = u.cl[cv] THEN None ELSE @,
                 !.cl[cv] = None, !.on[cv] = <<>>, !.owner[cv] = None])

\* the canvases of d go, but for one
FreeOthers(t, d, keep) ==
  FoldLeft(LAMBDA u, c : IF c = keep THEN u ELSE FreeCanvas(u, c), t, t.cvs[d])
FreeAllCanvases(t, d) == FreeOthers(t, d, None)

MakeDefaultCanvas(t, d) ==
  LET c == Head(NewCanvases(t, 1))
  IN [InitBlank(t, c, d) EXCEPT !.cvs[d] = <<c>>, !.forecv[d] = c, !.size[c] = <<d, 1>>]

\* AddCanvas: the new canvas comes after the focused one and is blank
AddCanvas(t, d) ==
  LET c == Head(NewCanvases(t, 1))
      at == Place(t.cvs[d], t.forecv[d])
  IN ResizeLayersToCanvases([InitBlank(t, c, d) EXCEPT !.cvs[d] = InsertAt(@, at + 1, c)], d)

\* RemCanvas: the focus goes to a neighbour
RemCanvas(t, d, to) ==
  With(FreeCanvas([t EXCEPT !.forecv[d] = to], t.forecv[d]), LAMBDA u :
       ResizeLayersToCanvases([u EXCEPT !.dfore[d] = Shows(u, to), !.flayer = u.cl[to]], d))

\* OneCanvas: all others go
OneCanvas(t, d) == ResizeLayersToCanvases(FreeOthers(t, d, t.forecv[d]), d)

\* focus
FocusOn(t, d, c) ==
  LET w == Shows(t, c)
  IN [t EXCEPT !.forecv[d] = c, !.dfore[d] = w, !.fore = w,
               !.dother[d] = IF @ = w THEN None ELSE @, !.flayer = t.cl[c]]

-----------------------------------------------------------------------------
(* Layouts *)

NoLayout == [wins |-> <<>>, focus |-> 1]

\* DupLayoutCv with save: the windows and the focus of the display's canvases
DupLayout(t, d) == [wins |-> [i \in DOMAIN t.cvs[d] |-> Shows(t, t.cvs[d][i])],
                    focus |-> Place(t.cvs[d], t.forecv[d])]

AutosaveLayout(t, d) ==
  IF t.dlayout[d] = None THEN t ELSE [t EXCEPT !.lay[t.dlayout[d]] = DupLayout(t, d)]

\* LoadLayout: new canvases that show nothing, then their windows one after the other
PutLayout(t, y, new) ==
  LET d == t.display
      saved == t.lay[y]
  IN FoldLeft(LAMBDA v, c : SetCanvasWindow(v, c, saved.wins[Place(new, c)]),
              [t EXCEPT !.cvs[d] = new, !.forecv[d] = new[saved.focus],
                        !.owner = [c \in Canvases |-> IF c \in ToSet(new) THEN d ELSE @[c]],
                        !.size = [l \in Layers |-> IF l \in ToSet(new)
                                                   THEN <<d, Len(new)>> ELSE @[l]]],
              new)
LoadLayout(t, y) ==
  LET d == t.display
      bare == FreeAllCanvases(AutosaveLayout(t, d), d)
      loaded(u) == PutLayout(u, y, NewCanvases(u, Len(u.lay[y].wins)))
  IN [ResizeLayersToCanvases(With(bare, loaded), d) EXCEPT !.dlayout[d] = y]

LoadNone(t, d) ==
  With(MakeDefaultCanvas(FreeAllCanvases(AutosaveLayout(t, d), d), d), LAMBDA u :
       [SetCanvasWindow(u, u.forecv[d], None) EXCEPT !.dlayout[d] = None])

\* NewLayout
NewLayout(t, d, y) ==
  With(LoadNone([t EXCEPT !.layouts = Cons(y, @)], d), LAMBDA u :
       [u EXCEPT !.lay[y] = DupLayout(u, d), !.dlayout[d] = y])

\* RemoveLayout: load the display's layout again, or another one
RemoveLayout(t, d, y) ==
  LET left == RemoveFirst(t.layouts, y)
      mine == IF t.dlayout[d] = y THEN None ELSE t.dlayout[d]
      next == After(t.layouts, y)
      u == [t EXCEPT !.layouts = left, !.dlayout[d] = mine, !.lay[y] = NoLayout]
  IN Activate(IF left = <<>> THEN u
              ELSE LoadLayout(u, IF mine # None THEN mine
                                 ELSE IF next # None THEN next ELSE Head(left)))

-----------------------------------------------------------------------------
(* Attaching and detaching *)

\* MakeDisplay and FinishAttach: the last layout, and the window of the last
\* detach if it is there; the window list when there is none to show
ShowLast(t, d) ==
  IF t.last = None THEN t
  ELSE With(LoadLayout(t, t.last), LAMBDA u : SetCanvasWindow(u, u.forecv[d], None))
ShowWindow(t, d, w) ==
  Activate(IF w # None THEN SetForeWindow([t EXCEPT !.fore = w], w)
           ELSE InitOverlayPage([t EXCEPT !.fore = None, !.flayer = t.cl[t.forecv[d]]], "list"))
Attach(s0, d) ==
  LET here(t, w) == IF w \in ToSet(t.mru) THEN w ELSE None
      other(t) == [t EXCEPT !.dother[d] = IF t.detachotherwin # None THEN here(t, t.detachotherwin) ELSE @]
      show(t) == ShowWindow(t, d, FindNiceWindow(t, here(t, t.detachwin)))
      new == MakeDefaultCanvas([s0 EXCEPT !.displays = Cons(d, @), !.display = d], d)
  IN With(other(ShowLast(new, d)), show)

\* Detach: the next attach shows what this display showed
Remember(t, d) ==
  LET known == t.dfore[d] # None
  IN [AutosaveLayout(t, d) EXCEPT !.detachwin = IF known THEN t.dfore[d] ELSE @,
                                  !.detachotherwin = IF known THEN t.dother[d] ELSE @,
                                  !.last = t.dlayout[d]]

\* FreeDisplay: its canvases show nothing, then they go
FreeDisplay(t, d) ==
  LET bare == FoldLeft(LAMBDA u, c : SetCanvasWindow(u, c, None), t, t.cvs[d])
      gone(u) == FreeAllCanvases([u EXCEPT !.displays = RemoveFirst(@, d)], d)
  IN [With(bare, gone) EXCEPT !.forecv[d] = None, !.dfore[d] = None, !.dother[d] = None,
                              !.dlayout[d] = None, !.cvs[d] = <<>>, !.display = None]

Detach(t, d) == FreeDisplay(Remember([t EXCEPT !.display = d], d), d)

-----------------------------------------------------------------------------
(* Events *)

\* nothing is attached, and there is one window
Blank ==
  [ mru |-> <<Wtab[1]>>, cl |-> [c \in Canvases |-> None], owner |-> [c \in Canvases |-> None],
    on |-> [l \in Layers |-> <<>>], below |-> [o \in Overlays |-> None],
    base |-> [o \in Overlays |-> None], start |-> [o \in Overlays |-> None],
    kind |-> [o \in Overlays |-> "page"], blocking |-> {},
    size |-> [l \in Layers |-> <<None, 0>>],
    save |-> [w \in Windows |-> IF w = Wtab[1] THEN w ELSE None],
    blocked |-> [w \in Windows |-> 0],
    displays |-> <<>>, cvs |-> [d \in Displays |-> <<>>],
    forecv |-> [d \in Displays |-> None], dfore |-> [d \in Displays |-> None],
    dother |-> [d \in Displays |-> None], dlayout |-> [d \in Displays |-> None],
    layouts |-> <<>>, lay |-> [y \in Layouts |-> NoLayout], last |-> None,
    detachwin |-> None, detachotherwin |-> None,
    display |-> None, fore |-> Wtab[1], flayer |-> None ]

\* the start-up file makes the windows on the first display, and others may attach
StartUp(t) == FoldLeft(LAMBDA u, w : MakeWindow(u), t, SubSeq(Wtab, 2, StartWindows))
Init ==
  /\ \E d, e \in Displays : s =
       With(StartUp(Attach(Blank, d)),
            LAMBDA t : [(IF e = d THEN t ELSE Attach(t, e)) EXCEPT !.display = None])
  /\ events = 0

Attached == ToSet(s.displays)

\* the end of an event; display is set again at the start of the next one
Handle(t) ==
  /\ events < MaxEvents
  /\ events' = events + 1
  /\ s' = [t EXCEPT !.display = None]

\* ProcessInput2
Key(d) == [s EXCEPT !.display = d, !.flayer = s.cl[s.forecv[d]], !.fore = s.dfore[d]]

\* DoCommandMsg: a command for window w, on any display
Remote(d, w) ==
  [s EXCEPT !.display = d, !.fore = w,
            !.flayer = IF s.blocked[w] > 0 \/ s.on[s.save[w]] = <<>> THEN s.save[w] ELSE w]

\* the contexts in which a command cmd may be run
Contexts(cmd) ==
  {Key(d) : d \in {x \in Attached : cmd \in Commands}} \union
  {Remote(d, w) : d \in {x \in (IF s.displays = <<>> THEN {None} ELSE Attached) : cmd \in RemoteCmds},
                  w \in Live}
Displayed(cmd) == {t \in Contexts(cmd) : t.display # None}

\* screen
Screen == \E t \in Contexts("screen") : WindowsLeft(t) /\ Handle(MakeWindow(t))

\* kill; the server ends with its last window, which is not modelled here
Kill == \E t \in Contexts("kill") :
  Len(t.mru) > 1 /\ t.fore # None /\ Handle(KillWindow(t, t.fore))

\* select, and other commands that end in SwitchWindow
Select == \E t \in Contexts("select"), w \in Live : Handle(SwitchWindow(t, w))
Unselect == \E t \in Contexts("unselect") : Handle(Activate(SetForeWindow(t, None)))

\* other: the other window, or, when the display has none, the next one
Other == \E t \in Contexts("other") :
  /\ t.fore # None /\ Len(t.mru) > 1  \* MoreWindows
  /\ IF t.display # None /\ t.dother[t.display] # None
     THEN Handle(SwitchWindow(t, t.dother[t.display]))
     ELSE \E w \in Live \ {t.fore} : Handle(SwitchWindow(t, w))

Split == \E t \in Displayed("split") :
  /\ Len(t.cvs[t.display]) < MaxRegions /\ CanvasesLeft(t, 1)
  /\ Handle(Activate(AddCanvas(t, t.display)))

RemoveRegion == \E t \in Displayed("remove") :
  LET seq == t.cvs[t.display]
      at == Place(seq, t.forecv[t.display])
  IN \E i \in {at - 1, at + 1} \intersect DOMAIN seq :
       Handle(Activate(RemCanvas(t, t.display, seq[i])))

Only == \E t \in Displayed("only") :
  Len(t.cvs[t.display]) > 1 /\ Handle(Activate(OneCanvas(t, t.display)))

Focus == \E t \in Displayed("focus") : \E c \in ToSet(t.cvs[t.display]) :
  Handle(FocusOn(t, t.display, c))

\* help, windowlist, copy and input: an overlay on flayer
Open == \E k \in Kinds : \E t \in Contexts(k) :
  LayersLeft(t) /\ t.flayer # None /\ Handle(InitOverlayPage(t, k))

\* windowlist -b: on a blank canvas, which goes back to the window it showed
WindowList == \E t \in Displayed("windowlist") :
  LET p == t.dfore[t.display]
      clear == IF p = None THEN t ELSE Activate(SetForeWindow(t, None))
  IN /\ LayersLeft(clear)
     /\ Handle(With(InitOverlayPage(clear, "list"), LAMBDA u : [u EXCEPT !.start[u.flayer] = p]))

\* a key leaves the overlay: help and input, then the window list (ESC)
Leave == \E d \in Attached :
  LET t == Key(d)
      at == t.start[t.flayer]
      to(u) == IF t.kind[t.flayer] # "list" THEN None
               ELSE IF at = "gone" THEN FindNiceWindow(u, u.dother[d]) ELSE at
      go(u) == With(to(u), LAMBDA w : IF w = None THEN u ELSE SwitchWindow(u, w))
  IN /\ IsOverlay(t.flayer)
     /\ Handle(With([ExitOverlayPage(t) EXCEPT !.display = d, !.start[t.flayer] = None], go))

\* a window is chosen from the list
Pick == \E d \in Attached : \E w \in Live :
  LET t == Key(d)
  IN /\ IsOverlay(t.flayer) /\ t.kind[t.flayer] = "list" /\ w # t.dfore[d]
     /\ Handle(SwitchWindow([ExitOverlayPage(t) EXCEPT !.display = d, !.start[t.flayer] = None], w))

\* layout new, layout select (and next, prev), layout remove.  A layout that
\* another display or the next attach would use is not removed, see README
LayoutNew == \E t \in Displayed("layout") : \E y \in Layouts \ ToSet(t.layouts) :
  Handle(Activate(NewLayout(t, t.display, y)))
LayoutSelect == \E t \in Displayed("layout") :
  \E y \in ToSet(t.layouts) \ {t.dlayout[t.display]} :
     /\ CanvasesLeft(FreeAllCanvases(t, t.display), Len(t.lay[y].wins))
     /\ Handle(Activate(LoadLayout(t, y)))
LayoutRemove == \E t \in Displayed("layout") : \E y \in ToSet(t.layouts) :
  /\ t.last # y /\ \A d \in Attached \ {t.display} : t.dlayout[d] # y
  /\ CanvasesLeft(FreeAllCanvases(t, t.display), MaxRegions)
  /\ Handle(RemoveLayout(t, t.display, y))

DoAttach == \E d \in Displays \ Attached :
  CanvasesLeft(s, MaxRegions) /\ LayersLeft(s) /\ Handle(Attach(s, d))

\* detach, hangup and remote detach; the globals are those of any display
DoDetach == \E d \in Attached : Handle(Detach(s, d)) \/ Handle(Detach(Key(d), d))

\* SigChldHandler or end of file: the process of w is gone
Died == \E w \in Live : Len(s.mru) > 1 /\ Handle(KillWindow(s, w))

Next ==
  \/ Screen \/ Kill \/ Select \/ Unselect \/ Other \/ Split \/ RemoveRegion \/ Only \/ Focus
  \/ Open \/ WindowList \/ Leave \/ Pick \/ LayoutNew \/ LayoutSelect \/ LayoutRemove
  \/ DoAttach \/ DoDetach \/ Died

Spec == Init /\ [][Next]_vars

-----------------------------------------------------------------------------
(* Properties *)

TypeOK == s \in Screens /\ events \in 0 .. MaxEvents

Used == {c \in Canvases : s.owner[c] # None}
Stacked == {o \in Overlays : s.below[o] # None}

\* A canvas is in the list of the layer it points to, once, and in no other.
Linked == \A l \in Layers :
  IsInjective(s.on[l]) /\ ToSet(s.on[l]) = {c \in Canvases : s.cl[c] = l}
AllShown == \A c \in Used : s.cl[c] # None

\* An overlay in use is the top layer of a canvas, or the one to show with its
\* window, or below one of these; only top layers are shown.
NoLayerLost == \A o \in Stacked :
  /\ \E x \in {s.cl[c] : c \in Used} \union {s.save[w] : w \in Live} :
       x # None /\ o \in ToSet(Chain(s, x))
  /\ IsOverlay(s.below[o]) => s.on[s.below[o]] = <<>>

\* A window is blocked while a blocking layer lies directly on it; then no
\* canvas shows the window itself.  The layer to show with it is on it.
Blocked == \A w \in Live :
  LET over == {o \in s.blocking : s.below[o] = w}
  IN /\ s.blocked[w] = Cardinality(over) /\ s.blocked[w] <= 1
     /\ over # {} => s.on[w] = <<>>
     /\ Bottom(s, s.save[w]) = w

\* After every event the lists of canvases and the chains of layers agree, however
\* InitOverlayPage, ExitOverlayPage, KillLayerChain, SetCanvasWindow and ResizeLayer
\* have called each other on the way (layer.c).
LayersSound == TypeOK /\ Linked /\ AllShown /\ NoLayerLost /\ Blocked

\* Between events no global and no display points to a window, canvas or layer
\* that was freed; d_fore is what the focused canvas shows.
FocusSound == \A d \in Attached :
  s.forecv[d] \in ToSet(s.cvs[d]) /\ s.dfore[d] = Shows(s, s.forecv[d])
ForeAlive == s.fore \in Maybe(Live)
OtherAlive == \A d \in Attached : s.dother[d] \in Maybe(Live)
FlayerAlive == s.flayer \in Maybe(Live \union Used \union Stacked)
LayoutsAlive ==
  /\ \A d \in Attached : s.dlayout[d] \in Maybe(ToSet(s.layouts))
  /\ \A y \in ToSet(s.layouts) : ToSet(s.lay[y].wins) \subseteq Maybe(Live)
\* FreeWindow, FreeDisplay, KillLayerChain and RemoveLayout leave no pointer to what
\* they free, and every focus agrees with what its canvas shows.
PointersAlive == FocusSound /\ ForeAlive /\ OtherAlive /\ FlayerAlive /\ LayoutsAlive

\* An event changes what is shown on one display at most.  Only when a window
\* goes may others change: then the canvases that showed it get another one, if
\* the display does not show all that are left, and no other canvas changes.
View(t, d) == [c \in ToSet(t.cvs[d]) |-> Shows(t, c)]
OthersUndisturbed == [][
  LET both == Attached \intersect Attached'
      gone == Live \ Live'
  IN IF gone = {} THEN Cardinality({d \in both : View(s, d) # View(s', d)}) <= 1
     ELSE \A d \in both : \A c \in ToSet(s.cvs[d]) :
            IF Shows(s, c) \notin gone THEN Shows(s', c) = Shows(s, c)
            ELSE Shows(s', c) = None =>
                   \A w \in Live' : \E x \in ToSet(s.cvs[d]) : Shows(s', x) = w ]_vars

=============================================================================
