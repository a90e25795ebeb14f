SPECIFICATION Spec
CONSTANTS
  w1 = w1  w2 = w2  w3 = w3
  c1 = c1  c2 = c2  c3 = c3  c4 = c4
  o1 = o1  o2 = o2  o3 = o3
  Wtab <- MCWtab
  CanvasPool <- MCCanvasPool
  LayerPool <- MCLayerPool
  Displays = {d1, d2}
  Layouts = {y1}
  None = None
  Commands = {"screen", "kill", "select", "unselect", "other", "split", "remove", "only", "focus", "page", "list", "block", "windowlist", "layout"}
  RemoteCmds = {"kill"}
  StartWindows = 2
  MaxRegions = 2
  MaxEvents = 4
INVARIANT OtherAlive
