---------------------------- MODULE AccessProofs ----------------------------
(* Proofs about Access: the tables stay sound, a lock is taken by those who *)
(* may write, and everybody's rights are his own (AclRights).               *)
EXTENDS Access, ListProofs, FiniteSetTheorems

-----------------------------------------------------------------------------
(* What is true of the tables between two commands, and within one.         *)

\* The list of users and the numbers they have.
Numbered(s) ==
  /\ IsInjective(s.users)
  /\ s.used = {s.id[u] : u \in Members(s)}
  /\ \A u, v \in Members(s) : s.id[u] = s.id[v] => u = v

Acyclic(s) == \A u \in Names : u \notin Lenders(s, u)
Linked(s) == Acyclic(s) /\ \A u \in People : s.grp[u] \subseteq Members(s)

Core(s) == s \in Tables /\ Within(s) /\ Numbered(s) /\ Linked(s)
Held(s) == \A w \in Windows : s.holder[w] \in Members(s) \union {NoUser, Freed}
Sound(s) == Core(s) /\ Held(s)

\* How t came from s.  Nobody comes or goes, and only the bits of the numbers
\* in ids are changed.
SamePeople(s, t) ==
  /\ t.users = s.users /\ t.id = s.id /\ t.grp = s.grp /\ t.used = s.used
  /\ t.max = s.max /\ t.open = s.open /\ t.defw = s.defw /\ t.defc = s.defc
NoNewHolders(s, t) == \A w \in Windows : t.holder[w] \in {s.holder[w], NoUser}
SameBits(s, t, i) ==
  /\ \A c \in Cmds : i \in t.cmd[c] <=> i \in s.cmd[c]
  /\ \A w \in s.open, b \in Bits : i \in t.win[w][b] <=> i \in s.win[w][b]
Changes(s, t, ids) ==
  /\ t \in Tables /\ Within(t) /\ SamePeople(s, t) /\ NoNewHolders(s, t)
  /\ t.umask = s.umask
  /\ \A i \in Nat \ ids : SameBits(s, t, i)

-----------------------------------------------------------------------------
(* Who lends rights to whom.                                                *)

\* The lenders of u are the smallest set that has his groups and theirs.
LEMMA LendersClosed ==
  ASSUME NEW s, s.grp \in [People -> SUBSET Names], NEW u \in People
  PROVE  /\ Lenders(s, u) \subseteq Names /\ s.grp[u] \subseteq Lenders(s, u)
         /\ \A x \in Lenders(s, u) : s.grp[x] \subseteq Lenders(s, u)
         /\ \A R \in SUBSET Names :
              s.grp[u] \subseteq R /\ (\A x \in R : s.grp[x] \subseteq R) => Lenders(s, u) \subseteq R
BY DEF Lenders, People

\* With fewer links nobody has more lenders.
LEMMA LendersFewer ==
  ASSUME NEW s, NEW t, s.grp \in [People -> SUBSET Names], t.grp \in [People -> SUBSET Names],
         \A u \in People : t.grp[u] \subseteq s.grp[u], Acyclic(s)
  PROVE  Acyclic(t)
<1> SUFFICES ASSUME NEW u \in Names PROVE Lenders(t, u) \subseteq Lenders(s, u)
  BY DEF Acyclic
<1>1. u \in People /\ Names \subseteq People
  BY DEF People
<1> DEFINE R == Lenders(s, u)
<1>2. R \in SUBSET Names /\ s.grp[u] \subseteq R /\ \A x \in R : s.grp[x] \subseteq R
  BY <1>1, LendersClosed
<1>3. t.grp[u] \subseteq R /\ \A x \in R : t.grp[x] \subseteq R
  BY <1>1, <1>2
<1> HIDE DEF R
<1>4. Lenders(t, u) \subseteq R
  BY <1>1, <1>2, <1>3, LendersClosed
<1>5. QED
  BY <1>4 DEF R

\* A link from u to v, who does not borrow from u, makes no cycle.
LEMMA LinkAcyclic ==
  ASSUME NEW s, NEW t, s.grp \in [People -> SUBSET Names], Acyclic(s),
         NEW u \in Names, NEW v \in Names, u # v, u \notin Lenders(s, v),
         t.grp = [s.grp EXCEPT ![u] = @ \union {v}]
  PROVE  Acyclic(t)
<1> SUFFICES ASSUME NEW x \in Names PROVE x \notin Lenders(t, x)
  BY DEF Acyclic
<1>1. Names \subseteq People
  BY DEF People
<1> DEFINE X == Lenders(s, x)
           V == Lenders(s, v)
           R == X \union {v} \union V
<1>2. /\ X \in SUBSET Names /\ s.grp[x] \subseteq X
      /\ \A y \in X : s.grp[y] \subseteq X
  BY <1>1, LendersClosed
<1>3. /\ V \in SUBSET Names /\ s.grp[v] \subseteq V
      /\ \A y \in V : s.grp[y] \subseteq V
  BY <1>1, LendersClosed
<1>4. t.grp \in [People -> SUBSET Names]
  BY <1>1
<1>5. x \notin X
  BY DEF Acyclic
<1>6. x \in V /\ u \in X => u \in V
  <2>1. x \in V => s.grp[x] \subseteq V /\ X \subseteq V
    BY <1>1, <1>3, LendersClosed
  <2>2. QED
    BY <2>1
<1>7. CASE u \notin X /\ x # u
  <2>1. t.grp[x] \subseteq X /\ \A y \in X : t.grp[y] \subseteq X
    BY <1>1, <1>2, <1>7
  <2> HIDE DEF X
  <2>2. Lenders(t, x) \subseteq X
    BY <1>1, <1>2, <1>4, <2>1, LendersClosed
  <2>3. QED
    BY <1>5, <2>2
<1>8. CASE u \in X \/ x = u
  <2>1. x \notin R
    BY <1>5, <1>6, <1>8
  <2>2. R \in SUBSET Names
    BY <1>2, <1>3
  <2>3. t.grp[x] \subseteq R
    BY <1>1, <1>2
  <2>4. \A y \in R : t.grp[y] \subseteq R
    <3> TAKE y \in R
    <3>1. y \in People
      BY <1>1, <2>2
    <3>2. t.grp[y] \subseteq s.grp[y] \union {v}
      BY <1>1, <3>1
    <3>3. s.grp[y] \subseteq R
      BY <1>2, <1>3
    <3>4. QED
      BY <3>2, <3>3
  <2> HIDE DEF R
  <2>5. Lenders(t, x) \subseteq R
    BY <1>1, <1>4, <2>2, <2>3, <2>4, LendersClosed
  <2>6. QED
    BY <2>1, <2>5
<1>9. QED
  BY <1>7, <1>8

-----------------------------------------------------------------------------
(* Bits are changed.                                                        *)

\* The fields have the right types.
LEMMA Fields ==
  ASSUME NEW s \in Tables
  PROVE  /\ s.users \in Seq(People) /\ s.id \in [People -> Nat]
         /\ s.grp \in [People -> SUBSET Names] /\ s.umask \in [People -> [Bits -> SUBSET Nat]]
         /\ s.used \in SUBSET Nat /\ s.max \in Nat /\ s.cmd \in [Cmds -> SUBSET Nat]
         /\ s.open \in SUBSET Windows /\ s.win \in [Windows -> [Bits -> SUBSET Nat]]
         /\ s.lock \in [Windows -> Locks]
         /\ s.holder \in [Windows -> Names \union {NoUser, Freed}]
         /\ s.defw \in [Bits -> BOOLEAN] /\ s.defc \in BOOLEAN
         /\ Members(s) \subseteq People
BY ElementOfSeq DEF Tables, Members, ToSet

\* Nobody's rights but those of the numbers given are changed.
LEMMA SetBitsSound ==
  ASSUME NEW s \in Tables, Within(s), NEW ids \in SUBSET (0 .. s.max - 1), NEW on \in BOOLEAN,
         NEW B, NEW O
  PROVE  Changes(s, SetBits(s, ids, on, B, O), ids)
<1> DEFINE t == SetBits(s, ids, on, B, O)
           put(field) == IF on THEN field \union ids ELSE field \ ids
           cmd == [c \in Cmds |-> IF c \in O /\ "exec" \in B THEN put(s.cmd[c]) ELSE s.cmd[c]]
           win == [w \in Windows |-> [b \in Bits |->
                     IF w \in O /\ b \in B THEN put(s.win[w][b]) ELSE s.win[w][b]]]
           below == 0 .. s.max - 1
<1>1. t = [s EXCEPT !.cmd = cmd, !.win = win]
  BY DEF SetBits
<1>2. s.max \in Nat /\ below \subseteq Nat /\ ids \subseteq below
  BY Fields
<1>3. \A field \in SUBSET Nat :
        /\ put(field) \in SUBSET Nat /\ (field \subseteq below => put(field) \subseteq below)
        /\ \A i \in Nat \ ids : i \in put(field) <=> i \in field
  BY <1>2
<1>4. s.cmd \in [Cmds -> SUBSET Nat] /\ s.win \in [Windows -> [Bits -> SUBSET Nat]] /\ s.open \subseteq Windows
  BY Fields
<1>5. /\ \A c \in Cmds : s.cmd[c] \subseteq below
      /\ \A w \in Windows, b \in Bits : s.win[w][b] \subseteq below
  BY DEF Within
<1> HIDE DEF put, below
<1>6. cmd \in [Cmds -> SUBSET Nat] /\ win \in [Windows -> [Bits -> SUBSET Nat]]
  BY <1>3, <1>4
<1>7. /\ \A c \in Cmds : cmd[c] \subseteq below
      /\ \A w \in Windows, b \in Bits : win[w][b] \subseteq below
  BY <1>3, <1>4, <1>5
<1>8. \A i \in Nat \ ids :
        /\ \A c \in Cmds : i \in cmd[c] <=> i \in s.cmd[c]
        /\ \A w \in s.open, b \in Bits : i \in win[w][b] <=> i \in s.win[w][b]
  BY <1>3, <1>4
<1> HIDE DEF cmd, win
<1>9. /\ t \in Tables /\ t.cmd = cmd /\ t.win = win /\ SamePeople(s, t)
      /\ t.umask = s.umask /\ t.holder = s.holder
  BY <1>1, <1>6 DEF Tables, SamePeople
<1> HIDE DEF t
<1>10. Within(t)
  BY <1>7, <1>9 DEF Within, SamePeople, below
<1>11. \A i \in Nat \ ids : SameBits(s, t, i)
  BY <1>8, <1>9 DEF SameBits
<1>12. QED
  BY <1>9, <1>10, <1>11 DEF Changes, NoNewHolders, t

\* Locks are lost, and nothing else is changed.
LEMMA WithdrawSound ==
  ASSUME NEW s \in Tables, Within(s), NEW U, NEW W \in SUBSET Windows
  PROVE  Changes(s, Withdraw(s, U, W), {})
<1> DEFINE t == Withdraw(s, U, W)
           lost == {w \in W : s.holder[w] \in U}
           holder == [w \in Windows |-> IF w \in lost THEN NoUser ELSE s.holder[w]]
           lock == [w \in Windows |-> IF w \in lost /\ s.lock[w] = "on" THEN "auto" ELSE s.lock[w]]
<1>1. t = [s EXCEPT !.holder = holder, !.lock = lock]
  BY DEF Withdraw
<1>2. holder \in [Windows -> Names \union {NoUser, Freed}] /\ lock \in [Windows -> Locks]
  BY Fields DEF Locks
<1>3. \A w \in Windows : holder[w] \in {s.holder[w], NoUser}
  OBVIOUS
<1> HIDE DEF holder, lock
<1>4. /\ t \in Tables /\ t.holder = holder /\ SamePeople(s, t)
      /\ t.umask = s.umask /\ t.cmd = s.cmd /\ t.win = s.win
  BY <1>1, <1>2 DEF Tables, SamePeople
<1> HIDE DEF t
<1>5. Within(t)
  BY <1>4 DEF Within, SamePeople
<1>6. \A i \in Nat : SameBits(s, t, i)
  BY <1>4 DEF SameBits
<1>7. QED
  BY <1>3, <1>4, <1>5, <1>6 DEF Changes, NoNewHolders, t

\* One change after another, of the same numbers or of fewer.
LEMMA ChangesTwice ==
  ASSUME NEW s, NEW t, NEW v, NEW I, NEW J \in SUBSET I,
         Changes(s, t, I), Changes(t, v, J)
  PROVE  Changes(s, v, I)
<1>1. \A i \in Nat \ I : SameBits(s, v, i)
  BY DEF Changes, SameBits, SamePeople
<1>2. NoNewHolders(s, v)
  BY DEF Changes, NoNewHolders
<1>3. SamePeople(s, v)
  BY DEF Changes, SamePeople
<1>4. QED
  BY <1>1, <1>2, <1>3 DEF Changes

\* AclSetPerm changes the bits of its users.
LEMMA SetPermSound ==
  ASSUME NEW s \in Tables, Within(s), NEW U, {s.id[u] : u \in U} \subseteq 0 .. s.max - 1,
         NEW on \in BOOLEAN, NEW B, NEW O
  PROVE  Changes(s, AclSetPerm(s, U, on, B, O), {s.id[u] : u \in U})
<1> DEFINE ids == {s.id[u] : u \in U}
           t == SetBits(s, ids, on, B, O)
<1>1. AclSetPerm(s, U, on, B, O)
        = IF ~on /\ "write" \in B THEN Withdraw(t, U, O \intersect Windows) ELSE t
  BY DEF AclSetPerm
<1> HIDE DEF ids
<1>2. Changes(s, t, ids)
  BY SetBitsSound DEF ids
<1> HIDE DEF t
<1>3. CASE ~on /\ "write" \in B
  <2>1. Changes(t, Withdraw(t, U, O \intersect Windows), {})
    BY <1>2, WithdrawSound DEF Changes
  <2>2. QED
    BY <1>1, <1>2, <1>3, <2>1, ChangesTwice DEF ids
<1>4. CASE ~(~on /\ "write" \in B)
  BY <1>1, <1>2, <1>4 DEF ids
<1>5. QED
  BY <1>3, <1>4

\* What was sound stays sound.
LEMMA ChangesCore ==
  ASSUME NEW s, Core(s), NEW t, NEW ids, Changes(s, t, ids)
  PROVE  Core(t) /\ Members(t) = Members(s) /\ (Held(s) => Held(t))
<1>1. Members(t) = Members(s) /\ t.id = s.id /\ t.used = s.used /\ t.grp = s.grp /\ t.users = s.users
  BY DEF Changes, SamePeople, Members
<1>2. \A u : Lenders(t, u) = Lenders(s, u)
  BY <1>1 DEF Lenders
<1>3. Numbered(t)
  BY <1>1 DEF Core, Numbered
<1>4. Linked(t)
  BY <1>1, <1>2 DEF Core, Linked, Acyclic
<1>5. Held(s) => Held(t)
  BY <1>1 DEF Held, Changes, NoNewHolders
<1>6. QED
  BY <1>1, <1>3, <1>4, <1>5 DEF Core, Changes

\* The number of a user is below maxusercount, and only his.
LEMMA IdBelow ==
  ASSUME NEW s, Core(s), NEW u \in Members(s)
  PROVE  /\ u \in People /\ s.id[u] \in s.used /\ s.id[u] \in 0 .. s.max - 1
         /\ s.id[u] \in Nat /\ \A v \in Members(s) \ {u} : s.id[v] # s.id[u]
BY Fields DEF Core, Numbered, Within

\* A user whose number, with its bits, is the same has the same rights.
LEMMA RightsSame ==
  ASSUME NEW s, NEW t, NEW v \in Members(s), v \in Members(t), t.id[v] = s.id[v],
         t.open = s.open, SameBits(s, t, s.id[v])
  PROVE  RightsOf(t, v) = RightsOf(s, v)
<1> DEFINE i == s.id[v]
<1>1. {c \in Cmds : i \in t.cmd[c]} = {c \in Cmds : i \in s.cmd[c]}
  BY DEF SameBits
<1>2. \A o \in s.open \X Bits : i \in t.win[o[1]][o[2]] <=> i \in s.win[o[1]][o[2]]
  BY DEF SameBits
<1>3. {o \in s.open \X Bits : i \in t.win[o[1]][o[2]]}
        = {o \in s.open \X Bits : i \in s.win[o[1]][o[2]]}
  BY <1>2
<1>4. QED
  BY <1>1, <1>3 DEF RightsOf

-----------------------------------------------------------------------------
(* A user is added.                                                         *)

\* The lowest number that is free.
LEMMA FreeIdIs ==
  ASSUME NEW s, Core(s)
  PROVE  FreeId(s) \in 0 .. s.max /\ FreeId(s) \notin s.used
<1> DEFINE T == {i \in Nat : i \notin s.used}
<1>1. s.max \in Nat /\ s.used \subseteq 0 .. s.max - 1
  BY Fields DEF Core, Within
<1>2. s.max \in T
  BY <1>1
<1>3. PICK m \in T : \A n \in T : m <= n
  BY <1>2, LeastNumber
<1>4. m \in 0 .. s.max
  BY <1>1, <1>2, <1>3
<1>5. \A j \in 0 .. m - 1 : j \in s.used
  BY <1>3, <1>4
<1>6. m \notin s.used
  BY <1>3
<1>7. QED
  BY <1>4, <1>5, <1>6 DEF FreeId

Regrown(s, max, cmd, umask, win) ==
  [s EXCEPT !.max = max, !.cmd = cmd, !.umask = umask, !.win = win]

\* Tables with new fields.
LEMMA RegrownIs ==
  ASSUME NEW s \in Tables, NEW max \in Nat, NEW cmd \in [Cmds -> SUBSET Nat],
         NEW umask \in [People -> [Bits -> SUBSET Nat]],
         NEW win \in [Windows -> [Bits -> SUBSET Nat]]
  PROVE  LET g == Regrown(s, max, cmd, umask, win) IN
         /\ g \in Tables /\ g.max = max /\ g.cmd = cmd /\ g.umask = umask /\ g.win = win
         /\ g.users = s.users /\ g.id = s.id /\ g.grp = s.grp /\ g.used = s.used
         /\ g.open = s.open /\ g.holder = s.holder
<1> DEFINE one == [s EXCEPT !.max = max, !.cmd = cmd]
           two == [one EXCEPT !.umask = umask, !.win = win]
<1>1. /\ one \in Tables /\ one.max = max /\ one.cmd = cmd
      /\ one.users = s.users /\ one.id = s.id /\ one.grp = s.grp /\ one.used = s.used
      /\ one.open = s.open /\ one.holder = s.holder
  BY DEF Tables
<1> HIDE DEF one
<1>2. /\ two \in Tables /\ two.max = one.max /\ two.cmd = one.cmd
      /\ two.umask = umask /\ two.win = win
      /\ two.users = one.users /\ two.id = one.id /\ two.grp = one.grp /\ two.used = one.used
      /\ two.open = one.open /\ two.holder = one.holder
  BY <1>1 DEF Tables
<1>3. two = Regrown(s, max, cmd, umask, win)
  BY DEF one, Regrown
<1>4. QED
  BY <1>1, <1>2, <1>3

\* All fields grow; the bits there were stay.
LEMMA GrowSound ==
  ASSUME NEW s, Core(s)
  PROVE  LET g == Grow(s) IN
         /\ g \in Tables /\ Within(g) /\ g.max = s.max + USER_CHUNK
         /\ g.users = s.users /\ g.id = s.id /\ g.grp = s.grp /\ g.used = s.used
         /\ g.open = s.open /\ g.holder = s.holder
         /\ \A i \in 0 .. s.max - 1 : SameBits(s, g, i)
<1> DEFINE g == Grow(s)
           ids == s.max .. s.max + USER_CHUNK - 1
           cmd == [c \in Cmds |-> GrowBitfield(s.cmd[c], ids, s.defc)]
           umask == [u \in People |-> [b \in Bits |->
                       IF u \in Members(s) THEN GrowBitfield(s.umask[u][b], ids, s.defw[b]) ELSE {}]]
           win == [w \in Windows |-> [b \in Bits |->
                     IF w \in s.open THEN GrowBitfield(s.win[w][b], ids, s.defw[b]) ELSE {}]]
           old == 0 .. s.max - 1
           below == 0 .. s.max + USER_CHUNK - 1
<1>1. g = Regrown(s, s.max + USER_CHUNK, cmd, umask, win)
  BY DEF Grow, GrowBy, Regrown
<1>2. /\ s.max \in Nat /\ USER_CHUNK \in Nat \ {0} /\ s.max + USER_CHUNK \in Nat
      /\ ids \subseteq below /\ below \subseteq Nat /\ old \subseteq below
      /\ \A i \in old : i \notin ids
  BY Fields, AccessAssumption DEF Core
<1>3. /\ s.cmd \in [Cmds -> SUBSET Nat] /\ s.win \in [Windows -> [Bits -> SUBSET Nat]]
      /\ s.umask \in [People -> [Bits -> SUBSET Nat]] /\ s.open \subseteq Windows
      /\ \A c \in Cmds : s.cmd[c] \subseteq old
      /\ \A w \in Windows, b \in Bits : s.win[w][b] \subseteq old
      /\ \A u \in People, b \in Bits : s.umask[u][b] \subseteq old
      /\ s.used \subseteq old
  BY Fields DEF Core, Within
<1> HIDE DEF ids, old, below
<1>4. \A field \in SUBSET Nat : \A default :
        field \subseteq old => /\ GrowBitfield(field, ids, default) \in SUBSET Nat
                               /\ GrowBitfield(field, ids, default) \subseteq below
                               /\ \A i \in old : i \in GrowBitfield(field, ids, default) <=> i \in field
  BY <1>2 DEF GrowBitfield
<1>5. /\ cmd \in [Cmds -> SUBSET Nat] /\ win \in [Windows -> [Bits -> SUBSET Nat]]
      /\ umask \in [People -> [Bits -> SUBSET Nat]]
  <2>1. \A c \in Cmds : GrowBitfield(s.cmd[c], ids, s.defc) \in SUBSET Nat
    BY <1>3, <1>4
  <2>2. \A w \in Windows, b \in Bits : GrowBitfield(s.win[w][b], ids, s.defw[b]) \in SUBSET Nat
    BY <1>3, <1>4
  <2>3. \A u \in People, b \in Bits : GrowBitfield(s.umask[u][b], ids, s.defw[b]) \in SUBSET Nat
    BY <1>3, <1>4
  <2>4. QED
    BY <2>1, <2>2, <2>3
<1>6. /\ \A c \in Cmds : cmd[c] \subseteq below
      /\ \A w \in Windows, b \in Bits : win[w][b] \subseteq below
      /\ \A u \in People, b \in Bits : umask[u][b] \subseteq below
  BY <1>3, <1>4
<1>7. \A i \in old : /\ \A c \in Cmds : i \in cmd[c] <=> i \in s.cmd[c]
                    /\ \A w \in s.open, b \in Bits : i \in win[w][b] <=> i \in s.win[w][b]
  <2>1. \A i \in old, c \in Cmds : i \in cmd[c] <=> i \in s.cmd[c]
    BY <1>3, <1>4
  <2>2. \A w \in s.open, b \in Bits : win[w][b] = GrowBitfield(s.win[w][b], ids, s.defw[b])
    BY <1>3
  <2>3. \A i \in old, w \in s.open, b \in Bits : i \in win[w][b] <=> i \in s.win[w][b]
    BY <1>3, <1>4, <2>2, SMTT(30)
  <2>4. QED
    BY <2>1, <2>3
<1> HIDE DEF cmd, umask, win
<1>8. s \in Tables
  BY DEF Core
<1>9. /\ g \in Tables /\ g.max = s.max + USER_CHUNK /\ g.cmd = cmd /\ g.umask = umask /\ g.win = win
      /\ g.users = s.users /\ g.id = s.id /\ g.grp = s.grp /\ g.used = s.used
      /\ g.open = s.open /\ g.holder = s.holder
  BY <1>1, <1>2, <1>5, <1>8, RegrownIs
<1> HIDE DEF g
<1>10. Within(g)
  <2>1. g.max = s.max + USER_CHUNK /\ g.used = s.used
    BY <1>9
  <2>2. 0 .. g.max - 1 = below
    BY <1>2, <2>1 DEF below
  <2>3. g.used \subseteq below
    BY <1>2, <1>3, <2>1
  <2>4. QED
    BY <1>6, <1>9, <2>2, <2>3 DEF Within
<1>11. \A i \in old : SameBits(s, g, i)
  BY <1>7, <1>9 DEF SameBits
<1>12. QED
  BY <1>9, <1>10, <1>11 DEF g, old

\* The fields after a user has entered.
Entered(g, u, i, umask, holder) ==
  [g EXCEPT !.users = Append(@, u), !.id[u] = i, !.grp[u] = {}, !.used = @ \union {i},
            !.umask[u] = umask, !.holder = holder]

IsEntered(t, g, u, i, umask, holder) ==
  /\ t \in Tables /\ t.users = Append(g.users, u) /\ t.id = [g.id EXCEPT ![u] = i]
  /\ t.grp = [g.grp EXCEPT ![u] = {}] /\ t.used = g.used \union {i}
  /\ t.umask = [g.umask EXCEPT ![u] = umask] /\ t.holder = holder
  /\ t.max = g.max /\ t.cmd = g.cmd /\ t.open = g.open /\ t.win = g.win

\* The fields of Entered.
LEMMA EnteredIs ==
  ASSUME NEW g \in Tables, NEW u \in People, NEW i \in Nat, NEW umask \in [Bits -> SUBSET Nat],
         NEW holder \in [Windows -> Names \union {NoUser, Freed}], Append(g.users, u) \in Seq(People)
  PROVE  IsEntered(Entered(g, u, i, umask, holder), g, u, i, umask, holder)
<1> DEFINE users == Append(g.users, u)
           id == [g.id EXCEPT ![u] = i]
           grp == [g.grp EXCEPT ![u] = {}]
           used == g.used \union {i}
           um == [g.umask EXCEPT ![u] = umask]
           one == [g EXCEPT !.users = users, !.id = id]
           two == [one EXCEPT !.grp = grp, !.used = used]
           three == [two EXCEPT !.umask = um, !.holder = holder]
<1>1. /\ users \in Seq(People) /\ id \in [People -> Nat] /\ grp \in [People -> SUBSET Names]
      /\ used \in SUBSET Nat /\ um \in [People -> [Bits -> SUBSET Nat]]
  BY Fields
<1>2. Entered(g, u, i, umask, holder) = three
  BY DEF Entered, Tables
<1> HIDE DEF users, id, grp, used, um
<1>3. /\ one \in Tables /\ one.users = users /\ one.id = id
      /\ one.grp = g.grp /\ one.used = g.used /\ one.umask = g.umask /\ one.holder = g.holder
      /\ one.max = g.max /\ one.cmd = g.cmd /\ one.open = g.open /\ one.win = g.win
  BY <1>1 DEF Tables
<1> HIDE DEF one
<1>4. /\ two \in Tables /\ two.users = one.users /\ two.id = one.id
      /\ two.grp = grp /\ two.used = used /\ two.umask = one.umask /\ two.holder = one.holder
      /\ two.max = one.max /\ two.cmd = one.cmd /\ two.open = one.open /\ two.win = one.win
  BY <1>1, <1>3 DEF Tables
<1> HIDE DEF two
<1>5. /\ three \in Tables /\ three.users = two.users /\ three.id = two.id
      /\ three.grp = two.grp /\ three.used = two.used /\ three.umask = um /\ three.holder = holder
      /\ three.max = two.max /\ three.cmd = two.cmd /\ three.open = two.open /\ three.win = two.win
  BY <1>1, <1>4 DEF Tables
<1> HIDE DEF three
<1>6. QED
  BY <1>2, <1>3, <1>4, <1>5 DEF users, id, grp, used, um, IsEntered

\* A user who was not there enters with a number of his own; the others keep
\* theirs, and what they may do.
LEMMA EnterSound ==
  ASSUME NEW s, Core(s), NEW u \in People, u \notin Members(s), NEW reuse \in BOOLEAN,
         reuse => u \in Names, NEW i \in 0 .. s.max, i \notin s.used
  PROVE  LET t == Enter(s, u, i, reuse) IN
         /\ Core(t) /\ Members(t) = Members(s) \union {u} /\ t.open = s.open
         /\ t.id[u] = i /\ \A v \in Members(s) : t.id[v] = s.id[v] /\ SameBits(s, t, s.id[v])
         /\ \A w \in Windows : \/ t.holder[w] = s.holder[w]
                               \/ s.holder[w] = Freed /\ t.holder[w] = u
<1> DEFINE t == Enter(s, u, i, reuse)
           g == IF i = s.max THEN Grow(s) ELSE s
           umask == [b \in Bits |-> GrowBitfield({i}, 0 .. g.max - 1, g.defw[b])]
           holder == [w \in Windows |-> IF g.holder[w] = Freed /\ reuse THEN u ELSE g.holder[w]]
<1>1. t = Entered(g, u, i, umask, holder)
  BY DEF Enter, Entered
<1>2. s.max \in Nat /\ USER_CHUNK \in Nat \ {0} /\ s \in Tables /\ Within(s)
  BY Fields, AccessAssumption DEF Core
<1>3. /\ g \in Tables /\ Within(g) /\ i < g.max
      /\ g.users = s.users /\ g.id = s.id /\ g.grp = s.grp /\ g.used = s.used
      /\ g.open = s.open /\ g.holder = s.holder
      /\ \A j \in 0 .. s.max - 1 : SameBits(s, g, j)
  <2>1. CASE i = s.max
    BY <1>2, <2>1, GrowSound
  <2>2. CASE i # s.max
    <3>1. g = s
      BY <2>2
    <3>2. \A j : SameBits(s, s, j)
      BY DEF SameBits
    <3>3. i < s.max
      BY <1>2, <2>2
    <3>4. QED
      BY <1>2, <3>1, <3>2, <3>3
  <2>3. QED
    BY <2>1, <2>2
<1> HIDE DEF g
<1>4. i \in Nat /\ g.max \in Nat /\ {i} \subseteq 0 .. g.max - 1 /\ 0 .. g.max - 1 \subseteq Nat
  BY <1>2, <1>3, Fields
<1>5. /\ umask \in [Bits -> SUBSET Nat] /\ \A b \in Bits : umask[b] \subseteq 0 .. g.max - 1
  BY <1>4 DEF GrowBitfield
<1>6. holder \in [Windows -> Names \union {NoUser, Freed}]
  BY <1>3, Fields
<1>7. /\ \A w \in Windows : holder[w] = s.holder[w] \/ (s.holder[w] = Freed /\ holder[w] = u)
  BY <1>3
<1> HIDE DEF umask, holder
<1>8. s.users \in Seq(People) /\ IsInjective(s.users) /\ u \notin ToSet(s.users)
  BY <1>2, Fields DEF Core, Numbered, Members
<1>9. /\ Append(s.users, u) \in Seq(People) /\ IsInjective(Append(s.users, u))
      /\ ToSet(Append(s.users, u)) = ToSet(s.users) \union {u}
  BY <1>8, ListAppended
<1>10. /\ t \in Tables /\ t.users = Append(s.users, u) /\ t.id = [s.id EXCEPT ![u] = i]
       /\ t.grp = [s.grp EXCEPT ![u] = {}] /\ t.used = s.used \union {i}
       /\ t.umask = [g.umask EXCEPT ![u] = umask] /\ t.holder = holder
       /\ t.max = g.max /\ t.cmd = g.cmd /\ t.open = s.open /\ t.win = g.win
  <2> DEFINE e == Entered(g, u, i, umask, holder)
  <2>1. /\ Append(g.users, u) \in Seq(People) /\ g \in Tables /\ i \in Nat
        /\ umask \in [Bits -> SUBSET Nat]
    BY <1>3, <1>4, <1>5, <1>9
  <2>2. IsEntered(e, g, u, i, umask, holder)
    BY <1>6, <2>1, EnteredIs
  <2>3. t = e
    BY <1>1
  <2> HIDE DEF t, e
  <2>4. QED
    BY <1>3, <2>2, <2>3 DEF IsEntered
<1> HIDE DEF t
<1>11. Members(t) = Members(s) \union {u}
  BY <1>9, <1>10 DEF Members
<1>12. /\ s.id \in [People -> Nat] /\ s.grp \in [People -> SUBSET Names] /\ Members(s) \subseteq People
       /\ g.umask \in [People -> [Bits -> SUBSET Nat]]
  BY <1>2, <1>3, Fields
<1>13. t.id[u] = i /\ \A v \in Members(s) : t.id[v] = s.id[v]
  BY <1>10, <1>12
<1>14. Numbered(t)
  <2>1. t.used = {t.id[v] : v \in Members(t)}
    <3>1. s.used = {s.id[v] : v \in Members(s)}
      BY DEF Core, Numbered
    <3>2. {t.id[v] : v \in Members(t)} = {s.id[v] : v \in Members(s)} \union {i}
      BY <1>11, <1>13
    <3>3. QED
      BY <1>10, <3>1, <3>2
  <2>2. \A v \in Members(s) : s.id[v] # i
    BY IdBelow
  <2>3. \A v, x \in Members(s) : s.id[v] = s.id[x] => v = x
    BY DEF Core, Numbered
  <2>4. \A v, x \in Members(t) : t.id[v] = t.id[x] => v = x
    BY <1>11, <1>13, <2>2, <2>3
  <2>5. QED
    BY <1>9, <1>10, <2>1, <2>4 DEF Numbered
<1>15. Linked(t)
  <2>1. t.grp \in [People -> SUBSET Names] /\ \A v \in People : t.grp[v] \subseteq s.grp[v]
    BY <1>10, <1>12
  <2>2. Acyclic(t)
    BY <1>12, <2>1, LendersFewer DEF Core, Linked
  <2>3. QED
    BY <1>11, <2>1, <2>2 DEF Core, Linked
<1>16. Within(t)
  <2>1. t.used \subseteq 0 .. g.max - 1
    BY <1>3, <1>4, <1>10 DEF Within
  <2>2. \A b \in Bits, v \in People : t.umask[v][b] \subseteq 0 .. g.max - 1
    BY <1>3, <1>5, <1>10, <1>12 DEF Within
  <2>3. QED
    BY <1>3, <1>10, <2>1, <2>2 DEF Within
<1>17. \A v \in Members(s) : SameBits(s, t, s.id[v])
  <2>1. \A v \in Members(s) : SameBits(s, g, s.id[v])
    BY <1>3, IdBelow
  <2>2. QED
    BY <1>10, <2>1 DEF SameBits
<1>18. QED
  BY <1>7, <1>10, <1>11, <1>13, <1>14, <1>15, <1>16, <1>17 DEF Core, t

\* Nothing is a change, too.
LEMMA ChangesNone ==
  ASSUME NEW s, Core(s), NEW ids
  PROVE  Changes(s, s, ids)
BY DEF Core, Changes, SamePeople, NoNewHolders, SameBits

\* The bits of one user.
LEMMA SetPermOne ==
  ASSUME NEW s, Core(s), NEW u, s.id[u] \in 0 .. s.max - 1, NEW on \in BOOLEAN, NEW B, NEW O
  PROVE  Changes(s, AclSetPerm(s, {u}, on, B, O), {s.id[u]})
<1>1. {s.id[v] : v \in {u}} = {s.id[u]}
  OBVIOUS
<1>2. s \in Tables /\ Within(s)
  BY DEF Core
<1>3. QED
  BY <1>1, <1>2, SetPermSound

\* The same after another change.
LEMMA SetPermAfter ==
  ASSUME NEW s, NEW t, Core(s), NEW u, s.id[u] \in 0 .. s.max - 1, Changes(s, t, {s.id[u]}),
         NEW on \in BOOLEAN, NEW B, NEW O
  PROVE  Changes(s, AclSetPerm(t, {u}, on, B, O), {s.id[u]})
<1>1. t.id = s.id /\ t.max = s.max
  BY DEF Changes, SamePeople
<1>2. Core(t)
  BY ChangesCore
<1>3. Changes(t, AclSetPerm(t, {u}, on, B, O), {s.id[u]})
  BY <1>1, <1>2, SetPermOne
<1>4. QED
  BY <1>3, ChangesTwice

\* The users of M are there now; what the others may do is as it was, and only
\* the new ones may find a lock to be theirs, one that was left by a user who
\* is gone.
Adds(s, t, M) ==
  /\ Sound(t) /\ Members(t) = Members(s) \union M /\ t.open = s.open
  /\ \A v \in Members(s) \ M : RightsOf(t, v) = RightsOf(s, v)
  /\ \A w \in Windows : \/ t.holder[w] \in {s.holder[w], NoUser}
                        \/ s.holder[w] = Freed /\ t.holder[w] \in M

\* UserAdd adds a user.
LEMMA UserAddSound ==
  ASSUME NEW s, Sound(s), NEW u \in People, u \notin Members(s),
         NEW reuse \in BOOLEAN, reuse => u \in Names
  PROVE  Adds(s, UserAdd(s, u, reuse), {u})
<1> DEFINE e == Enter(s, u, FreeId(s), reuse)
           f == FirstRights(e, u)
           n == NobodysRights(f, u)
<1>1. UserAdd(s, u, reuse) = n
  BY DEF UserAdd, UserAddAt
<1>2. Core(s) /\ FreeId(s) \in 0 .. s.max /\ FreeId(s) \notin s.used
  BY FreeIdIs DEF Sound
<1>3. /\ Core(e) /\ Members(e) = Members(s) \union {u} /\ e.open = s.open
      /\ \A v \in Members(s) : e.id[v] = s.id[v] /\ SameBits(s, e, s.id[v])
      /\ \A w \in Windows : \/ e.holder[w] = s.holder[w]
                            \/ s.holder[w] = Freed /\ e.holder[w] = u
  BY <1>2, EnterSound
<1> HIDE DEF e
<1>4. Held(e)
  BY <1>3 DEF Held, Sound
<1> DEFINE i == e.id[u]
<1>5. u \in Members(e) /\ i \in 0 .. e.max - 1
  BY <1>3, IdBelow
<1>6. Changes(e, f, {i})
  <2>1. Changes(e, e, {i})
    BY <1>3, ChangesNone
  <2>2. Changes(e, AclSetPerm(e, {u}, TRUE, Bits, Everything(e)), {i})
    BY <1>3, <1>5, SetPermOne
  <2>3. QED
    BY <2>1, <2>2 DEF FirstRights
<1> HIDE DEF f
<1>7. Changes(e, n, {i})
  <2> DEFINE m == AclSetPerm(f, {u}, FALSE, Bits, Everything(f))
  <2>1. Changes(e, m, {i})
    BY <1>3, <1>5, <1>6, SetPermAfter
  <2> HIDE DEF m
  <2>2. Changes(e, AclSetPerm(m, {u}, TRUE, {"exec"}, NobodyCmds), {i})
    BY <1>3, <1>5, <2>1, SetPermAfter
  <2>3. n = IF u # Nobody THEN f ELSE AclSetPerm(m, {u}, TRUE, {"exec"}, NobodyCmds)
    BY DEF NobodysRights, m
  <2>4. QED
    BY <1>6, <2>2, <2>3
<1> HIDE DEF n
<1>8. Core(n) /\ Held(n) /\ Members(n) = Members(e)
  BY <1>3, <1>4, <1>7, ChangesCore
<1>9. n.open = s.open /\ n.id = e.id
  BY <1>3, <1>7 DEF Changes, SamePeople
<1>10. \A v \in Members(s) \ {u} : RightsOf(n, v) = RightsOf(s, v)
  <2> TAKE v \in Members(s) \ {u}
  <2>1. v \in Members(e) /\ e.id[v] = s.id[v] /\ SameBits(s, e, s.id[v])
    BY <1>3
  <2>2. s.id[v] \in Nat \ {i}
    BY <1>3, <1>5, <2>1, IdBelow
  <2>3. SameBits(e, n, s.id[v])
    BY <1>7, <2>2 DEF Changes
  <2>4. SameBits(s, n, s.id[v])
    BY <1>3, <2>1, <2>3 DEF SameBits
  <2>5. QED
    BY <1>8, <1>9, <2>1, <2>4, RightsSame
<1>11. \A w \in Windows : \/ n.holder[w] \in {s.holder[w], NoUser}
                          \/ s.holder[w] = Freed /\ n.holder[w] \in {u}
  BY <1>3, <1>7 DEF Changes, NoNewHolders
<1>12. QED
  BY <1>1, <1>3, <1>8, <1>9, <1>10, <1>11 DEF Adds, Sound

\* One addition after another.
LEMMA AddsTwice ==
  ASSUME NEW s, NEW t, NEW v, NEW M, NEW N, Adds(s, t, M), Adds(t, v, N)
  PROVE  Adds(s, v, M \union N)
<1>1. \A w \in Windows : \/ v.holder[w] \in {s.holder[w], NoUser}
                         \/ s.holder[w] = Freed /\ v.holder[w] \in M \union N
  <2> TAKE w \in Windows
  <2>1. Freed # NoUser
    BY AccessAssumption
  <2>2. t.holder[w] \in {s.holder[w], NoUser} \/ (s.holder[w] = Freed /\ t.holder[w] \in M)
    BY DEF Adds
  <2>3. v.holder[w] \in {t.holder[w], NoUser} \/ (t.holder[w] = Freed /\ v.holder[w] \in N)
    BY DEF Adds
  <2>4. QED
    BY <2>1, <2>2, <2>3
<1>2. \A x \in Members(s) \ (M \union N) : RightsOf(v, x) = RightsOf(s, x)
  BY DEF Adds
<1>3. QED
  <2>1. Sound(v) /\ Members(v) = Members(s) \union (M \union N) /\ v.open = s.open
    BY DEF Adds
  <2>2. QED
    BY <1>1, <1>2, <2>1 DEF Adds

\* Nobody is added.
LEMMA AddsNone ==
  ASSUME NEW s, Sound(s)
  PROVE  Adds(s, s, {})
<1>1. Members(s) \union {} = Members(s)
  OBVIOUS
<1>2. QED
  BY <1>1 DEF Adds

\* UserEnsure adds a user who is not there.
LEMMA UserEnsureSound ==
  ASSUME NEW s, Sound(s), NEW u \in Names, NEW reuse \in BOOLEAN
  PROVE  Adds(s, UserEnsure(s, u, reuse), {u} \ Members(s))
<1>1. CASE u \in Members(s)
  <2>1. {u} \ Members(s) = {}
    BY <1>1
  <2>2. QED
    BY <1>1, <2>1, AddsNone DEF UserEnsure
<1>2. CASE u \notin Members(s)
  <2>1. {u} \ Members(s) = {u} /\ u \in People
    BY <1>2 DEF People
  <2>2. QED
    BY <1>2, <2>1, UserAddSound DEF UserEnsure
<1>3. QED
  BY <1>1, <1>2

\* The rights of a user are changed, and those of nobody else.
LEMMA PermAdds ==
  ASSUME NEW s, Sound(s), NEW u \in Members(s), NEW on \in BOOLEAN, NEW B, NEW O
  PROVE  Adds(s, AclSetPerm(s, {u}, on, B, O), {u})
<1> DEFINE t == AclSetPerm(s, {u}, on, B, O)
<1>1. Core(s) /\ Held(s) /\ s.id[u] \in 0 .. s.max - 1
  BY IdBelow DEF Sound
<1>2. Changes(s, t, {s.id[u]})
  BY <1>1, SetPermOne
<1> HIDE DEF t
<1>3. Core(t) /\ Held(t) /\ Members(t) = Members(s)
  BY <1>1, <1>2, ChangesCore
<1>4. \A v \in Members(s) \ {u} : RightsOf(t, v) = RightsOf(s, v)
  <2> TAKE v \in Members(s) \ {u}
  <2>1. s.id[v] \in Nat \ {s.id[u]}
    BY <1>1, IdBelow
  <2>2. SameBits(s, t, s.id[v]) /\ t.id = s.id /\ t.open = s.open
    BY <1>2, <2>1 DEF Changes, SamePeople
  <2>3. QED
    BY <1>3, <2>2, RightsSame
<1>5. QED
  BY <1>2, <1>3, <1>4 DEF Adds, Sound, Changes, NoNewHolders, SamePeople, t

\* acladd.
LEMMA EnrolSound ==
  ASSUME NEW s, Sound(s), NEW u \in Names, NEW reuse \in BOOLEAN
  PROVE  Adds(s, Enrol(s, u, reuse), {u})
<1> DEFINE t == UserEnsure(s, u, reuse)
           M == {u} \ Members(s)
<1>1. Adds(s, t, M)
  BY UserEnsureSound
<1> HIDE DEF t
<1>2. Sound(t) /\ u \in Members(t)
  BY <1>1 DEF Adds
<1>3. Adds(t, AclSetPerm(t, {u}, TRUE, Bits, Everything(t)), {u})
  BY <1>2, PermAdds
<1>4. M \union {u} = {u}
  OBVIOUS
<1> HIDE DEF M
<1>5. Adds(s, AclSetPerm(t, {u}, TRUE, Bits, Everything(t)), M \union {u})
  BY <1>1, <1>3, AddsTwice
<1>6. QED
  BY <1>4, <1>5 DEF Enrol, t

-----------------------------------------------------------------------------
(* A user is removed.                                                       *)

\* The user u is gone; the others may do what they could before, and his locks
\* point to memory that is free.
Removes(s, t, u) ==
  /\ Sound(t) /\ Members(t) = Members(s) \ {u} /\ t.open = s.open
  /\ \A v \in Members(t) : RightsOf(t, v) = RightsOf(s, v)
  /\ \A w \in Windows : t.holder[w] \in {s.holder[w], NoUser, Freed}

IsUnlisted(t, s, users, used, grp) ==
  /\ t \in Tables /\ t.users = users /\ t.used = used /\ t.grp = grp
  /\ t.id = s.id /\ t.max = s.max /\ t.cmd = s.cmd /\ t.umask = s.umask
  /\ t.open = s.open /\ t.win = s.win /\ t.holder = s.holder

\* The fields after he left the list and the groups.
LEMMA UnlistedIs ==
  ASSUME NEW s \in Tables, NEW users \in Seq(People), NEW used \in SUBSET Nat,
         NEW grp \in [People -> SUBSET Names]
  PROVE  IsUnlisted([s EXCEPT !.users = users, !.used = used, !.grp = grp], s, users, used, grp)
<1> DEFINE one == [s EXCEPT !.users = users, !.used = used]
           two == [one EXCEPT !.grp = grp]
<1>1. /\ one \in Tables /\ one.users = users /\ one.used = used /\ one.grp = s.grp
      /\ one.id = s.id /\ one.max = s.max /\ one.cmd = s.cmd /\ one.umask = s.umask
      /\ one.open = s.open /\ one.win = s.win /\ one.holder = s.holder
  BY DEF Tables
<1> HIDE DEF one
<1>2. /\ two \in Tables /\ two.users = one.users /\ two.used = one.used /\ two.grp = grp
      /\ two.id = one.id /\ two.max = one.max /\ two.cmd = one.cmd /\ two.umask = one.umask
      /\ two.open = one.open /\ two.win = one.win /\ two.holder = one.holder
  BY <1>1 DEF Tables
<1>3. two = [s EXCEPT !.users = users, !.used = used, !.grp = grp]
  BY DEF one
<1> HIDE DEF two
<1>4. QED
  BY <1>1, <1>2, <1>3 DEF IsUnlisted

\* He leaves the list, his number is free, nobody is linked to him.
LEMMA UnlistSound ==
  ASSUME NEW s, Core(s), NEW u \in Members(s)
  PROVE  LET t == Unlist(s, u) IN
         /\ Core(t) /\ Members(t) = Members(s) \ {u} /\ t.id = s.id /\ t.max = s.max
         /\ t.open = s.open /\ t.holder = s.holder /\ \A i : SameBits(s, t, i)
<1> DEFINE t == Unlist(s, u)
           users == RemoveFirst(s.users, u)
           used == s.used \ {s.id[u]}
           grp == [v \in People |-> IF v = u THEN {} ELSE s.grp[v] \ {u}]
<1>1. /\ s \in Tables /\ s.users \in Seq(People) /\ s.used \in SUBSET Nat
      /\ s.grp \in [People -> SUBSET Names] /\ Members(s) \subseteq People
      /\ IsInjective(s.users) /\ u \in ToSet(s.users)
  BY Fields DEF Core, Numbered, Members
<1>2. users \in Seq(People) /\ IsInjective(users) /\ ToSet(users) = Members(s) \ {u}
  BY <1>1, ListRemoved DEF Members
<1>3. used \in SUBSET Nat /\ grp \in [People -> SUBSET Names]
  BY <1>1
<1>4. \A v \in People : grp[v] \subseteq s.grp[v] \ {u}
  OBVIOUS
<1>5. t = [s EXCEPT !.users = users, !.used = used, !.grp = grp]
  BY DEF Unlist
<1> HIDE DEF users, grp
<1>6. IsUnlisted(t, s, users, used, grp)
  <2>1. IsUnlisted([s EXCEPT !.users = users, !.used = used, !.grp = grp], s, users, used, grp)
    BY <1>1, <1>2, <1>3, UnlistedIs
  <2>2. QED
    BY <1>5, <2>1
<1> HIDE DEF t
<1>7. Members(t) = Members(s) \ {u}
  BY <1>2, <1>6 DEF Members, IsUnlisted
<1>8. Numbered(t)
  <2>1. \A v, x \in Members(s) : s.id[v] = s.id[x] => v = x
    BY DEF Core, Numbered
  <2>2. s.used = {s.id[v] : v \in Members(s)}
    BY DEF Core, Numbered
  <2>3. used = {s.id[v] : v \in Members(t)}
    BY <1>7, <2>1, <2>2
  <2>4. QED
    BY <1>2, <1>6, <1>7, <2>1, <2>3 DEF Numbered, IsUnlisted
<1>9. Linked(t)
  <2>1. t.grp = grp
    BY <1>6 DEF IsUnlisted
  <2>2. Acyclic(t)
    BY <1>1, <1>3, <1>4, <2>1, LendersFewer DEF Core, Linked
  <2>3. \A v \in People : t.grp[v] \subseteq Members(t)
    BY <1>4, <1>7, <2>1 DEF Core, Linked
  <2>4. QED
    BY <2>2, <2>3 DEF Linked
<1>10. Within(t)
  BY <1>6 DEF IsUnlisted, Core, Within
<1>11. \A i : SameBits(s, t, i)
  BY <1>6 DEF IsUnlisted, SameBits
<1>12. QED
  BY <1>6, <1>7, <1>8, <1>9, <1>10, <1>11 DEF Core, IsUnlisted, t

\* His bits go back to the defaults.
LEMMA ResetSound ==
  ASSUME NEW s, Core(s), NEW u, s.id[u] \in 0 .. s.max - 1
  PROVE  Changes(s, Reset(s, u), {s.id[u]})
<1> DEFINE r == AclSetPerm(s, {u}, TRUE, {b \in Bits : s.defw[b]}, s.open)
           w == AclSetPerm(r, {u}, FALSE, {b \in Bits : ~s.defw[b]}, s.open)
<1>1. Reset(s, u) = AclSetPerm(w, {u}, w.defc, {"exec"}, Cmds)
  BY DEF Reset
<1>2. Changes(s, r, {s.id[u]})
  BY SetPermOne
<1> HIDE DEF r
<1>3. Changes(s, w, {s.id[u]})
  BY <1>2, SetPermAfter
<1> HIDE DEF w
<1>4. w.defc \in BOOLEAN
  BY <1>3, Fields DEF Changes
<1>5. QED
  BY <1>1, <1>3, <1>4, SetPermAfter

IsFreed(t, s, umask, id, holder) ==
  /\ t \in Tables /\ t.umask = umask /\ t.id = id /\ t.holder = holder
  /\ t.users = s.users /\ t.used = s.used /\ t.grp = s.grp /\ t.max = s.max /\ t.cmd = s.cmd
  /\ t.open = s.open /\ t.win = s.win

\* The fields after his structure was freed.
LEMMA FreedIs ==
  ASSUME NEW s \in Tables, NEW umask \in [People -> [Bits -> SUBSET Nat]],
         NEW id \in [People -> Nat], NEW holder \in [Windows -> Names \union {NoUser, Freed}]
  PROVE  IsFreed([s EXCEPT !.umask = umask, !.id = id, !.holder = holder], s, umask, id, holder)
<1> DEFINE one == [s EXCEPT !.umask = umask, !.id = id]
           two == [one EXCEPT !.holder = holder]
<1>1. /\ one \in Tables /\ one.umask = umask /\ one.id = id /\ one.holder = s.holder
      /\ one.users = s.users /\ one.used = s.used /\ one.grp = s.grp /\ one.max = s.max
      /\ one.cmd = s.cmd /\ one.open = s.open /\ one.win = s.win
  BY DEF Tables
<1> HIDE DEF one
<1>2. /\ two \in Tables /\ two.umask = one.umask /\ two.id = one.id /\ two.holder = holder
      /\ two.users = one.users /\ two.used = one.used /\ two.grp = one.grp /\ two.max = one.max
      /\ two.cmd = one.cmd /\ two.open = one.open /\ two.win = one.win
  BY <1>1 DEF Tables
<1>3. two = [s EXCEPT !.umask = umask, !.id = id, !.holder = holder]
  BY DEF one
<1> HIDE DEF two
<1>4. QED
  BY <1>1, <1>2, <1>3 DEF IsFreed

\* Who is not a user any more may lose his number and his umask.
LEMMA FreeUserSound ==
  ASSUME NEW s, Core(s), NEW u \in People \ Members(s)
  PROVE  LET t == FreeUser(s, u) IN
         /\ Core(t) /\ Members(t) = Members(s) /\ t.open = s.open
         /\ \A v \in Members(s) : t.id[v] = s.id[v]
         /\ \A i : SameBits(s, t, i)
         /\ \A w \in Windows : t.holder[w] = IF s.holder[w] = u THEN Freed ELSE s.holder[w]
<1> DEFINE t == FreeUser(s, u)
           umask == [v \in People |-> IF v = u THEN NoBits ELSE s.umask[v]]
           id == [s.id EXCEPT ![u] = 0]
           holder == [x \in Windows |-> IF s.holder[x] = u THEN Freed ELSE s.holder[x]]
<1>1. /\ s \in Tables /\ s.umask \in [People -> [Bits -> SUBSET Nat]] /\ s.id \in [People -> Nat]
      /\ s.holder \in [Windows -> Names \union {NoUser, Freed}] /\ Members(s) \subseteq People
  BY Fields DEF Core
<1>2. NoBits \in [Bits -> SUBSET Nat] /\ \A b \in Bits : NoBits[b] = {}
  BY DEF NoBits
<1>3. /\ umask \in [People -> [Bits -> SUBSET Nat]] /\ id \in [People -> Nat]
      /\ holder \in [Windows -> Names \union {NoUser, Freed}]
  BY <1>1, <1>2
<1>4. \A v \in Members(s) : id[v] = s.id[v]
  BY <1>1
<1>5. \A v \in People, b \in Bits : umask[v][b] = {} \/ umask[v][b] = s.umask[v][b]
  BY <1>2
<1>6. \A w \in Windows : holder[w] = IF s.holder[w] = u THEN Freed ELSE s.holder[w]
  OBVIOUS
<1>7. t = [s EXCEPT !.umask = umask, !.id = id, !.holder = holder]
  BY DEF FreeUser
<1> HIDE DEF umask, id, holder
<1>8. IsFreed(t, s, umask, id, holder)
  <2>1. IsFreed([s EXCEPT !.umask = umask, !.id = id, !.holder = holder], s, umask, id, holder)
    BY <1>1, <1>3, FreedIs
  <2>2. QED
    BY <1>7, <2>1
<1> HIDE DEF t
<1>9. Members(t) = Members(s)
  BY <1>8 DEF Members, IsFreed
<1>10. Numbered(t)
  <2>1. {t.id[v] : v \in Members(t)} = {s.id[v] : v \in Members(s)}
    BY <1>4, <1>8, <1>9 DEF IsFreed
  <2>2. \A v, x \in Members(t) : t.id[v] = t.id[x] => v = x
    BY <1>4, <1>8, <1>9 DEF IsFreed, Core, Numbered
  <2>3. QED
    BY <1>8, <2>1, <2>2 DEF IsFreed, Core, Numbered
<1>11. Linked(t)
  <2>1. t.grp = s.grp
    BY <1>8 DEF IsFreed
  <2>2. \A v : Lenders(t, v) = Lenders(s, v)
    BY <2>1 DEF Lenders
  <2>3. QED
    BY <1>9, <2>1, <2>2 DEF Core, Linked, Acyclic
<1>12. Within(t)
  <2>1. \A v \in People, b \in Bits : t.umask[v][b] \subseteq 0 .. s.max - 1
    BY <1>5, <1>8 DEF IsFreed, Core, Within
  <2>2. QED
    BY <1>8, <2>1 DEF IsFreed, Core, Within
<1>13. \A i : SameBits(s, t, i)
  BY <1>8 DEF IsFreed, SameBits
<1>14. QED
  BY <1>4, <1>6, <1>8, <1>9, <1>10, <1>11, <1>12, <1>13 DEF Core, IsFreed, t

\* UserDel removes a user.
LEMMA UserDelSound ==
  ASSUME NEW s, Sound(s), NEW u \in Members(s)
  PROVE  Removes(s, UserDel(s, u), u)
<1> DEFINE a == Unlist(s, u)
           b == Reset(a, u)
           t == FreeUser(b, u)
           i == s.id[u]
<1>1. UserDel(s, u) = t
  BY DEF UserDel
<1>2. Core(s) /\ i \in 0 .. s.max - 1 /\ u \in People
  BY IdBelow DEF Sound
<1>3. /\ Core(a) /\ Members(a) = Members(s) \ {u} /\ a.id = s.id /\ a.max = s.max
      /\ a.open = s.open /\ a.holder = s.holder /\ \A j : SameBits(s, a, j)
  BY <1>2, UnlistSound
<1> HIDE DEF a
<1>4. Changes(a, b, {i})
  BY <1>2, <1>3, ResetSound
<1> HIDE DEF b
<1>5. Core(b) /\ Members(b) = Members(a) /\ b.id = s.id /\ b.open = s.open
  BY <1>3, <1>4, ChangesCore DEF Changes, SamePeople
<1>6. /\ Core(t) /\ Members(t) = Members(b) /\ t.open = b.open
      /\ \A v \in Members(b) : t.id[v] = b.id[v]
      /\ \A j : SameBits(b, t, j)
      /\ \A w \in Windows : t.holder[w] = IF b.holder[w] = u THEN Freed ELSE b.holder[w]
  BY <1>2, <1>3, <1>5, FreeUserSound
<1> HIDE DEF t
<1>7. Members(t) = Members(s) \ {u} /\ t.open = s.open
  BY <1>3, <1>5, <1>6
<1>8. \A v \in Members(t) : RightsOf(t, v) = RightsOf(s, v)
  <2> TAKE v \in Members(t)
  <2>1. v \in Members(s) /\ v # u /\ v \in Members(b) /\ t.id[v] = s.id[v]
    BY <1>3, <1>5, <1>6, <1>7
  <2>2. s.id[v] \in Nat \ {i}
    BY <1>2, <2>1, IdBelow
  <2>3. SameBits(a, b, s.id[v])
    BY <1>4, <2>2 DEF Changes
  <2>4. SameBits(s, a, s.id[v]) /\ SameBits(b, t, s.id[v])
    BY <1>3, <1>6
  <2>5. SameBits(s, t, s.id[v])
    BY <1>3, <1>5, <2>3, <2>4 DEF SameBits
  <2>6. QED
    BY <1>7, <2>1, <2>5, RightsSame
<1>9. \A w \in Windows : b.holder[w] \in {s.holder[w], NoUser}
  BY <1>3, <1>4 DEF Changes, NoNewHolders
<1>10. \A w \in Windows : t.holder[w] \in {s.holder[w], NoUser, Freed}
  BY <1>6, <1>9
<1>11. Held(t)
  <2>1. \A w \in Windows : t.holder[w] # u \/ t.holder[w] \in {NoUser, Freed}
    BY <1>6
  <2>2. QED
    BY <1>7, <1>10, <2>1 DEF Held, Sound
<1>12. QED
  BY <1>1, <1>6, <1>7, <1>8, <1>10, <1>11 DEF Removes, Sound

-----------------------------------------------------------------------------
(* Umasks and defaults.                                                     *)

\* Only umasks and defaults are different.
Kept(s, t) ==
  /\ Core(t) /\ t.users = s.users /\ t.id = s.id /\ t.open = s.open /\ t.holder = s.holder
  /\ \A i : SameBits(s, t, i)

\* What was sound stays sound, and everybody may do what he could.
LEMMA KeptSound ==
  ASSUME NEW s, Sound(s), NEW t, Kept(s, t)
  PROVE  /\ Sound(t) /\ Members(t) = Members(s)
         /\ \A v \in Members(s) : RightsOf(t, v) = RightsOf(s, v)
<1>1. Members(t) = Members(s)
  BY DEF Kept, Members
<1>2. Held(t)
  BY <1>1 DEF Kept, Sound, Held
<1>3. \A v \in Members(s) : RightsOf(t, v) = RightsOf(s, v)
  BY <1>1, RightsSame DEF Kept
<1>4. QED
  BY <1>1, <1>2, <1>3 DEF Kept, Sound

\* The bits of a user in somebody's umask.
LEMMA SetUmaskSound ==
  ASSUME NEW s, Core(s), NEW uu \in People, NEW u \in Members(s), NEW on \in BOOLEAN, NEW B
  PROVE  Kept(s, SetUmask(s, uu, u, on, B))
<1> DEFINE t == SetUmask(s, uu, u, on, B)
           i == s.id[u]
           bits == [b \in Bits |-> IF b \notin B THEN s.umask[uu][b]
                                   ELSE IF on THEN s.umask[uu][b] \union {i}
                                   ELSE s.umask[uu][b] \ {i}]
           below == 0 .. s.max - 1
           umask == [s.umask EXCEPT ![uu] = bits]
<1>1. /\ s \in Tables /\ s.umask \in [People -> [Bits -> SUBSET Nat]] /\ i \in below
      /\ i \in Nat /\ \A v \in People, b \in Bits : s.umask[v][b] \subseteq below
  BY Fields, IdBelow DEF Core, Within
<1>2. t = [s EXCEPT !.umask = umask]
  BY DEF SetUmask
<1> HIDE DEF below, i
<1>3. bits \in [Bits -> SUBSET Nat] /\ \A b \in Bits : bits[b] \subseteq below
  BY <1>1
<1> HIDE DEF bits
<1>4. /\ umask \in [People -> [Bits -> SUBSET Nat]]
      /\ \A v \in People, b \in Bits : umask[v][b] \subseteq below
  BY <1>1, <1>3
<1> HIDE DEF umask
<1>5. /\ t \in Tables /\ t.umask = umask /\ t.users = s.users /\ t.id = s.id /\ t.grp = s.grp
      /\ t.used = s.used /\ t.max = s.max /\ t.cmd = s.cmd /\ t.open = s.open /\ t.win = s.win
      /\ t.holder = s.holder
  BY <1>1, <1>2, <1>4 DEF Tables
<1> HIDE DEF t
<1>6. Within(t)
  BY <1>4, <1>5 DEF Within, Core, below
<1>7. Numbered(t) /\ Linked(t)
  BY <1>5 DEF Core, Numbered, Linked, Acyclic, Lenders, Members
<1>8. QED
  BY <1>5, <1>6, <1>7 DEF Kept, Core, SameBits, t

\* The defaults.
LEMMA DefaultsSound ==
  ASSUME NEW s, Core(s), NEW c \in BOOLEAN, NEW w \in [Bits -> BOOLEAN]
  PROVE  Kept(s, [s EXCEPT !.defc = c]) /\ Kept(s, [s EXCEPT !.defw = w])
<1> SUFFICES ASSUME NEW t, t = [s EXCEPT !.defc = c] \/ t = [s EXCEPT !.defw = w]
             PROVE  Kept(s, t)
  OBVIOUS
<1>1. /\ t \in Tables /\ t.users = s.users /\ t.id = s.id /\ t.grp = s.grp /\ t.umask = s.umask
      /\ t.used = s.used /\ t.max = s.max /\ t.cmd = s.cmd /\ t.open = s.open /\ t.win = s.win
      /\ t.holder = s.holder
  BY DEF Core, Tables
<1>2. Within(t)
  BY <1>1 DEF Within, Core
<1>3. Numbered(t) /\ Linked(t)
  BY <1>1 DEF Core, Numbered, Linked, Acyclic, Lenders, Members
<1>4. QED
  BY <1>1, <1>2, <1>3 DEF Kept, Core, SameBits

\* Nobody comes or goes, and nobody's rights change; a lock may be lost.
Stays(s, t) ==
  /\ Sound(t) /\ Members(t) = Members(s) /\ t.open = s.open
  /\ \A v \in Members(s) : RightsOf(t, v) = RightsOf(s, v)
  /\ \A w \in Windows : t.holder[w] \in {s.holder[w], NoUser, Freed}

\* `?' is added, sets the defaults, and is removed.
LEMMA SetDefaultsSound ==
  ASSUME NEW s, Sound(s), Unknown \notin Members(s), NEW uu \in People,
         NEW on \in BOOLEAN, NEW B, NEW forCmds \in BOOLEAN
  PROVE  Stays(s, SetDefaults(s, uu, on, B, forCmds))
<1> DEFINE a == UserAdd(s, Unknown, FALSE)
           t == SetUmask(a, uu, Unknown, on, B)
           has(b) == t.id[Unknown] \in t.umask[uu][b]
           c == IF forCmds THEN [t EXCEPT !.defc = has("exec")]
                ELSE [t EXCEPT !.defw = [b \in Bits |-> has(b)]]
           d == UserDel(c, Unknown)
<1>1. SetDefaults(s, uu, on, B, forCmds) = d
  BY DEF SetDefaults
<1>2. Adds(s, a, {Unknown})
  <2>1. Unknown \in People
    BY DEF People
  <2>2. QED
    BY <2>1, UserAddSound
<1> HIDE DEF a
<1>3. Sound(a) /\ Unknown \in Members(a)
  BY <1>2 DEF Adds
<1>4. Kept(a, t)
  BY <1>3, SetUmaskSound DEF Sound
<1> HIDE DEF t
<1>5. Sound(t) /\ Members(t) = Members(a) /\ \A v \in Members(a) : RightsOf(t, v) = RightsOf(a, v)
  BY <1>3, <1>4, KeptSound
<1>6. Kept(t, c)
  <2>1. has("exec") \in BOOLEAN /\ [b \in Bits |-> has(b)] \in [Bits -> BOOLEAN]
    OBVIOUS
  <2> HIDE DEF has
  <2>2. QED
    BY <1>5, <2>1, DefaultsSound DEF Sound
<1> HIDE DEF c
<1>7. Sound(c) /\ Members(c) = Members(a) /\ \A v \in Members(a) : RightsOf(c, v) = RightsOf(a, v)
  BY <1>5, <1>6, KeptSound
<1>8. Removes(c, d, Unknown)
  BY <1>3, <1>7, UserDelSound
<1> HIDE DEF d
<1>9. Members(d) = Members(s) /\ d.open = s.open
  BY <1>2, <1>4, <1>6, <1>7, <1>8 DEF Adds, Kept, Removes
<1>10. \A v \in Members(s) : RightsOf(d, v) = RightsOf(s, v)
  BY <1>2, <1>7, <1>8, <1>9 DEF Adds, Removes
<1>11. \A w \in Windows : d.holder[w] \in {s.holder[w], NoUser, Freed}
  <2> TAKE w \in Windows
  <2>1. d.holder[w] \in {a.holder[w], NoUser, Freed}
    BY <1>4, <1>6, <1>8 DEF Kept, Removes
  <2>2. a.holder[w] \in {s.holder[w], NoUser} \/ a.holder[w] = Unknown
    BY <1>2 DEF Adds
  <2>3. d.holder[w] \in Members(s) \union {NoUser, Freed}
    BY <1>8, <1>9 DEF Removes, Sound, Held
  <2>4. QED
    BY <2>1, <2>2, <2>3
<1>12. QED
  BY <1>1, <1>8, <1>9, <1>10, <1>11 DEF Stays, Removes

-----------------------------------------------------------------------------
(* Locks move, and nothing else does.                                       *)

OnlyLocks(s, t) ==
  /\ t \in Tables /\ Held(t)
  /\ t.users = s.users /\ t.id = s.id /\ t.grp = s.grp /\ t.umask = s.umask /\ t.used = s.used
  /\ t.max = s.max /\ t.cmd = s.cmd /\ t.open = s.open /\ t.win = s.win

\* LockToWriters of one step: who has a lock had it before, or found it where
\* a freed user had left it, or he or the sender of his command may write.
Takes(s, t) ==
  \A w \in Windows :
    \/ t.holder[w] \notin Names
    \/ s.holder[w] \in {t.holder[w], Freed}
    \/ \E v \in {t.holder[w]} \union Remotes : v \in Members(t) /\ MayWin(t, NoUser, v, "write", w)

\* The tables stay sound, and so do everybody's permissions.
LEMMA OnlyLocksSound ==
  ASSUME NEW s, Sound(s), NEW t, OnlyLocks(s, t)
  PROVE  /\ Sound(t) /\ Members(t) = Members(s) /\ t.open = s.open
         /\ \A v \in Members(s) : RightsOf(t, v) = RightsOf(s, v)
         /\ \A eff, u, b, w : MayWin(t, eff, u, b, w) = MayWin(s, eff, u, b, w)
<1>1. Members(t) = Members(s)
  BY DEF OnlyLocks, Members
<1>2. \A v : Lenders(t, v) = Lenders(s, v)
  BY DEF OnlyLocks, Lenders
<1>3. Within(t)
  BY DEF OnlyLocks, Sound, Core, Within
<1>4. Numbered(t)
  BY <1>1 DEF OnlyLocks, Sound, Core, Numbered
<1>5. Linked(t)
  BY <1>1, <1>2 DEF OnlyLocks, Sound, Core, Linked, Acyclic
<1>6. \A v \in Members(s) : RightsOf(t, v) = RightsOf(s, v)
  BY <1>1, RightsSame DEF OnlyLocks, SameBits
<1>7. \A eff, u, b, w : MayWin(t, eff, u, b, w) = MayWin(s, eff, u, b, w)
  BY <1>2 DEF OnlyLocks, MayWin, Holds
<1>8. QED
  BY <1>1, <1>3, <1>4, <1>5, <1>6, <1>7 DEF OnlyLocks, Sound, Core

\* Others hold the locks.
LEMMA LocksAre ==
  ASSUME NEW s, Sound(s), Unknown \notin Members(s),
         NEW holder \in [Windows -> Members(s) \union {NoUser, Freed}],
         NEW t, t = [s EXCEPT !.holder = holder]
  PROVE  OnlyLocks(s, t) /\ t.holder = holder
<1>1. Members(s) \subseteq Names
  BY Fields DEF Sound, Core, People
<1>2. holder \in [Windows -> Names \union {NoUser, Freed}]
  BY <1>1
<1>3. /\ t \in Tables /\ t.holder = holder
      /\ t.users = s.users /\ t.id = s.id /\ t.grp = s.grp /\ t.umask = s.umask /\ t.used = s.used
      /\ t.max = s.max /\ t.cmd = s.cmd /\ t.open = s.open /\ t.win = s.win
  BY <1>2 DEF Sound, Core, Tables
<1>4. Held(t)
  BY <1>3 DEF Held, Members
<1>5. QED
  BY <1>3, <1>4 DEF OnlyLocks

\* The locks are of another kind.
LEMMA ModesAre ==
  ASSUME NEW s, Sound(s), NEW lock \in [Windows -> Locks], NEW t, t = [s EXCEPT !.lock = lock]
  PROVE  OnlyLocks(s, t) /\ t.holder = s.holder
<1>1. /\ t \in Tables /\ t.holder = s.holder
      /\ t.users = s.users /\ t.id = s.id /\ t.grp = s.grp /\ t.umask = s.umask /\ t.used = s.used
      /\ t.max = s.max /\ t.cmd = s.cmd /\ t.open = s.open /\ t.win = s.win
  BY DEF Sound, Core, Tables
<1>2. Held(t)
  BY <1>1 DEF Held, Members, Sound
<1>3. QED
  BY <1>1, <1>2 DEF OnlyLocks

\* The same for the holder of one window.
LEMMA LockIs ==
  ASSUME NEW s, Sound(s), Unknown \notin Members(s), NEW w \in Windows,
         NEW u \in Members(s) \union {NoUser, Freed}, NEW t, t = [s EXCEPT !.holder[w] = u]
  PROVE  OnlyLocks(s, t) /\ t.holder = [s.holder EXCEPT ![w] = u]
<1> DEFINE holder == [s.holder EXCEPT ![w] = u]
<1>1. s \in Tables /\ s.holder \in [Windows -> Names \union {NoUser, Freed}]
  BY Fields DEF Sound, Core
<1>2. holder \in [Windows -> Members(s) \union {NoUser, Freed}]
  BY <1>1 DEF Sound, Held
<1>3. t = [s EXCEPT !.holder = holder]
  OBVIOUS
<1> HIDE DEF holder
<1>4. OnlyLocks(s, t) /\ t.holder = holder
  BY <1>2, <1>3, LocksAre
<1>5. QED
  BY <1>4 DEF holder

\* ReleaseAutoWritelock only gives locks back.
LEMMA ReleaseSound ==
  ASSUME NEW s, Sound(s), Unknown \notin Members(s), NEW dead
  PROVE  /\ OnlyLocks(s, Release(s, dead))
         /\ \A w \in Windows : Release(s, dead).holder[w] \in {s.holder[w], NoUser}
<1> DEFINE keeps(u, w) == \E d \in Displays \ dead : disp[d].user = u /\ disp[d].fore = w
           leaves(u, w) == \E d \in dead : disp[d].user = u /\ disp[d].fore = w
           holder == [w \in Windows |->
             IF s.lock[w] = "auto" /\ s.holder[w] # NoUser /\ leaves(s.holder[w], w) /\ ~keeps(s.holder[w], w)
             THEN NoUser ELSE s.holder[w]]
           t == Release(s, dead)
<1>1. t = [s EXCEPT !.holder = holder]
  BY DEF Release
<1> HIDE DEF keeps, leaves, t
<1>2. \A w \in Windows : holder[w] \in {s.holder[w], NoUser}
  OBVIOUS
<1>3. holder \in [Windows -> Members(s) \union {NoUser, Freed}]
  BY DEF Sound, Held
<1> HIDE DEF holder
<1>4. OnlyLocks(s, t) /\ t.holder = holder
  BY <1>1, <1>3, LocksAre
<1>5. QED
  BY <1>2, <1>4 DEF t

\* ObtainAutoWritelock gives the lock to a user who may write.
LEMMA ObtainSound ==
  ASSUME NEW s, Sound(s), Unknown \notin Members(s), NEW u \in Members(s),
         NEW w \in Windows \union {NoWin}
  PROVE  LET t == Obtain(s, u, w) IN
         /\ OnlyLocks(s, t)
         /\ \A x \in Windows : \/ t.holder[x] = s.holder[x]
                               \/ t.holder[x] = u /\ MayWin(s, NoUser, u, "write", x)
<1>1. CASE w # NoWin /\ s.lock[w] = "auto" /\ s.holder[w] = NoUser /\ MayWin(s, NoUser, u, "write", w)
  <2>1. PICK t : t = [s EXCEPT !.holder[w] = u]
    OBVIOUS
  <2>2. OnlyLocks(s, t) /\ t.holder = [s.holder EXCEPT ![w] = u]
    <3>1. w \in Windows /\ u \in Members(s) \union {NoUser, Freed}
      BY <1>1
    <3>2. QED
      BY <2>1, <3>1, LockIs, ZenonT(40)
  <2>3. s.holder \in [Windows -> Names \union {NoUser, Freed}]
    BY Fields DEF Sound, Core
  <2>4. \A x \in Windows : x # w => t.holder[x] = s.holder[x]
    BY <2>2, <2>3
  <2>5. t.holder[w] = u
    BY <1>1, <2>2, <2>3
  <2>6. Obtain(s, u, w) = t
    BY <1>1, <2>1 DEF Obtain
  <2>7. QED
    BY <1>1, <2>2, <2>4, <2>5, <2>6
<1>2. CASE ~(w # NoWin /\ s.lock[w] = "auto" /\ s.holder[w] = NoUser /\ MayWin(s, NoUser, u, "write", w))
  <2>1. Obtain(s, u, w) = s
    BY <1>2 DEF Obtain
  <2>2. OnlyLocks(s, s)
    BY DEF OnlyLocks, Sound, Core
  <2>3. QED
    BY <2>1, <2>2
<1>3. QED
  BY <1>1, <1>2

-----------------------------------------------------------------------------
(* Who is given what.                                                       *)

Bit(s, i, o) == IF o[1] \in Cmds THEN i \in s.cmd[o[1]] ELSE i \in s.win[o[1]][o[2]]
Objs(s, B, O) == {o \in Exists(s) : o[1] \in O /\ o[2] \in B}

\* A command and its right, or a window and one of its bits.
LEMMA ExistsIs ==
  ASSUME NEW s \in Tables, NEW o \in Exists(s)
  PROVE  \/ o = <<o[1], "exec">> /\ o[1] \in Cmds /\ o[2] = "exec"
         \/ o = <<o[1], o[2]>> /\ o[1] \in s.open /\ o[1] \notin Cmds /\ o[1] \in Windows /\ o[2] \in Bits
<1>1. s.open \subseteq Windows /\ Cmds \intersect Windows = {}
  BY Fields, AccessAssumption
<1>2. QED
  BY <1>1 DEF Exists

\* A right is the bit of the user's number.
LEMMA InRights ==
  ASSUME NEW s \in Tables, NEW u \in Members(s)
  PROVE  RightsOf(s, u) = {o \in Exists(s) : Bit(s, s.id[u], o)}
<1> DEFINE i == s.id[u]
           R == {<<c, "exec">> : c \in {c \in Cmds : i \in s.cmd[c]}}
                  \union {o \in s.open \X Bits : i \in s.win[o[1]][o[2]]}
<1>1. RightsOf(s, u) = R
  BY DEF RightsOf
<1>2. s.open \subseteq Windows /\ Cmds \intersect Windows = {}
  BY Fields, AccessAssumption
<1>3. ASSUME NEW o \in R PROVE o \in Exists(s) /\ Bit(s, i, o)
  BY <1>2 DEF Exists, Bit
<1>4. ASSUME NEW o \in Exists(s), Bit(s, i, o) PROVE o \in R
  BY <1>2, <1>4 DEF Exists, Bit
<1>5. QED
  BY <1>1, <1>3, <1>4

\* Rights are rights to what exists.
LEMMA RightsExist ==
  ASSUME NEW s \in Tables, NEW u
  PROVE  RightsOf(s, u) \subseteq Exists(s)
<1>1. CASE u \in Members(s)
  BY <1>1, InRights
<1>2. CASE u \notin Members(s)
  BY <1>2 DEF RightsOf
<1>3. QED
  BY <1>1, <1>2

\* SetBits sets or clears exactly the bits it is asked for.
LEMMA SetBitsIs ==
  ASSUME NEW s \in Tables, NEW ids, NEW on \in BOOLEAN, NEW B, NEW O, NEW i \in ids,
         NEW o \in Exists(s)
  PROVE  Bit(SetBits(s, ids, on, B, O), i, o)
           <=> IF o[1] \in O /\ o[2] \in B THEN on ELSE Bit(s, i, o)
<1> DEFINE t == SetBits(s, ids, on, B, O)
           put(field) == IF on THEN field \union ids ELSE field \ ids
           cmd == [c \in Cmds |-> IF c \in O /\ "exec" \in B THEN put(s.cmd[c]) ELSE s.cmd[c]]
           win == [w \in Windows |-> [b \in Bits |->
                     IF w \in O /\ b \in B THEN put(s.win[w][b]) ELSE s.win[w][b]]]
<1>1. t = [s EXCEPT !.cmd = cmd, !.win = win]
  BY DEF SetBits
<1>2. \A field : i \in put(field) <=> on
  OBVIOUS
<1> HIDE DEF put
<1>3. \A c \in Cmds : i \in cmd[c] <=> IF c \in O /\ "exec" \in B THEN on ELSE i \in s.cmd[c]
  BY <1>2
<1>4. \A w \in Windows, b \in Bits :
        i \in win[w][b] <=> IF w \in O /\ b \in B THEN on ELSE i \in s.win[w][b]
  BY <1>2
<1> HIDE DEF cmd, win
<1>5. t.cmd = cmd /\ t.win = win
  BY <1>1 DEF Tables
<1> HIDE DEF t
<1>6. CASE o[1] \in Cmds
  <2>1. o[2] = "exec"
    BY <1>6, ExistsIs
  <2>2. Bit(t, i, o) <=> IF o[1] \in O /\ o[2] \in B THEN on ELSE i \in s.cmd[o[1]]
    BY <1>3, <1>5, <1>6, <2>1 DEF Bit
  <2>3. QED
    BY <1>6, <2>2 DEF Bit, t
<1>7. CASE o[1] \notin Cmds
  <2>1. o[1] \in Windows /\ o[2] \in Bits
    BY <1>7, ExistsIs
  <2>2. Bit(t, i, o) <=> IF o[1] \in O /\ o[2] \in B THEN on ELSE i \in s.win[o[1]][o[2]]
    BY <1>4, <1>5, <1>7, <2>1 DEF Bit
  <2>3. QED
    BY <1>7, <2>2 DEF Bit, t
<1>8. QED
  BY <1>6, <1>7

\* With the locks that are lost, too.
LEMMA SetPermIs ==
  ASSUME NEW s \in Tables, NEW U, NEW on \in BOOLEAN, NEW B, NEW O, NEW u \in U,
         NEW o \in Exists(s)
  PROVE  Bit(AclSetPerm(s, U, on, B, O), s.id[u], o)
           <=> IF o[1] \in O /\ o[2] \in B THEN on ELSE Bit(s, s.id[u], o)
<1> DEFINE ids == {s.id[v] : v \in U}
           t == SetBits(s, ids, on, B, O)
           x == AclSetPerm(s, U, on, B, O)
<1>1. x = IF ~on /\ "write" \in B THEN Withdraw(t, U, O \intersect Windows) ELSE t
  BY DEF AclSetPerm
<1>2. Bit(t, s.id[u], o) <=> IF o[1] \in O /\ o[2] \in B THEN on ELSE Bit(s, s.id[u], o)
  BY SetBitsIs
<1>3. \A U1, W : Withdraw(t, U1, W).cmd = t.cmd /\ Withdraw(t, U1, W).win = t.win
  BY DEF Withdraw, SetBits, Tables
<1> HIDE DEF t
<1>4. x.cmd = t.cmd /\ x.win = t.win
  BY <1>1, <1>3
<1> HIDE DEF x
<1>5. QED
  BY <1>2, <1>4 DEF Bit, x

\* The users of U are given, or denied, the bits B of O, and nobody else is.
IsSet(s, t, U, on, B, O) ==
  /\ Sound(t) /\ Members(t) = Members(s) /\ t.open = s.open
  /\ \A w \in Windows : t.holder[w] \in {s.holder[w], NoUser}
  /\ \A v \in Members(s) \ U : RightsOf(t, v) = RightsOf(s, v)
  /\ \A v \in U : RightsOf(t, v) = IF on THEN RightsOf(s, v) \union Objs(s, B, O)
                                   ELSE RightsOf(s, v) \ Objs(s, B, O)

\* AclSetPerm gives its users what it names, or denies it to them, and changes
\* nobody else's rights.
LEMMA PermRights ==
  ASSUME NEW s, Sound(s), NEW U \in SUBSET Members(s), NEW on \in BOOLEAN, NEW B, NEW O
  PROVE  IsSet(s, AclSetPerm(s, U, on, B, O), U, on, B, O)
<1> DEFINE t == AclSetPerm(s, U, on, B, O)
           ids == {s.id[u] : u \in U}
<1>1. Core(s) /\ Held(s) /\ s \in Tables /\ Within(s)
  BY DEF Sound, Core
<1>2. ids \subseteq 0 .. s.max - 1
  BY <1>1, IdBelow
<1>3. Changes(s, t, ids)
  BY <1>1, <1>2, SetPermSound
<1>4. \A v \in U, o \in Exists(s) :
        Bit(t, s.id[v], o) <=> IF o[1] \in O /\ o[2] \in B THEN on ELSE Bit(s, s.id[v], o)
  BY <1>1, SetPermIs
<1>5. \A v \in Members(s) \ U : s.id[v] \in Nat \ ids
  BY <1>1, IdBelow
<1> HIDE DEF t, ids
<1>6. Core(t) /\ Held(t) /\ Members(t) = Members(s)
  BY <1>1, <1>3, ChangesCore
<1>7. /\ t.open = s.open /\ t.id = s.id
      /\ \A w \in Windows : t.holder[w] \in {s.holder[w], NoUser}
  BY <1>3 DEF Changes, SamePeople, NoNewHolders
<1>8. \A v \in Members(s) \ U : RightsOf(t, v) = RightsOf(s, v)
  BY <1>3, <1>5, <1>6, <1>7, RightsSame DEF Changes
<1>9. \A v \in U : RightsOf(t, v) = IF on THEN RightsOf(s, v) \union Objs(s, B, O)
                                    ELSE RightsOf(s, v) \ Objs(s, B, O)
  <2> TAKE v \in U
  <2>1. Exists(t) = Exists(s)
    BY <1>7 DEF Exists
  <2>2. RightsOf(s, v) = {o \in Exists(s) : Bit(s, s.id[v], o)}
    BY <1>1, InRights
  <2>3. RightsOf(t, v) = {o \in Exists(s) : Bit(t, s.id[v], o)}
    BY <1>6, <1>7, <2>1, InRights DEF Core
  <2>4. QED
    BY <1>4, <2>2, <2>3 DEF Objs
<1>10. QED
  BY <1>6, <1>7, <1>8, <1>9 DEF Sound, IsSet, t

-----------------------------------------------------------------------------
(* Links, windows and copies of rights.                                     *)

\* Other groups, without a cycle.
LEMMA RegroupSound ==
  ASSUME NEW s, Sound(s), NEW grp \in [People -> SUBSET Names],
         \A u \in People : grp[u] \subseteq Members(s),
         NEW t, t = [s EXCEPT !.grp = grp], Acyclic(t)
  PROVE  Stays(s, t)
<1>1. /\ t \in Tables /\ t.users = s.users /\ t.id = s.id /\ t.grp = grp /\ t.umask = s.umask
      /\ t.used = s.used /\ t.max = s.max /\ t.cmd = s.cmd /\ t.open = s.open /\ t.win = s.win
      /\ t.holder = s.holder
  BY DEF Sound, Core, Tables
<1>2. Members(t) = Members(s)
  BY <1>1 DEF Members
<1>3. Within(t)
  BY <1>1 DEF Within, Sound, Core
<1>4. Numbered(t) /\ Linked(t) /\ Held(t)
  BY <1>1, <1>2 DEF Sound, Core, Numbered, Linked, Held
<1>5. \A v \in Members(s) : RightsOf(t, v) = RightsOf(s, v)
  BY <1>1, <1>2, RightsSame DEF SameBits
<1>6. QED
  BY <1>1, <1>2, <1>3, <1>4, <1>5 DEF Stays, Sound, Core

\* AclLinkUser, when v has no rights from u.
LEMMA LinkSound ==
  ASSUME NEW s, Sound(s), NEW u \in Names, NEW v \in Names \intersect Members(s),
         u # v, u \notin Lenders(s, v)
  PROVE  Stays(s, [s EXCEPT !.grp[u] = @ \union {v}])
<1> DEFINE grp == [s.grp EXCEPT ![u] = @ \union {v}]
           t == [s EXCEPT !.grp = grp]
<1>1. /\ s \in Tables /\ s.grp \in [People -> SUBSET Names] /\ Acyclic(s)
      /\ \A x \in People : s.grp[x] \subseteq Members(s)
  BY Fields DEF Sound, Core, Linked
<1>2. grp \in [People -> SUBSET Names] /\ \A x \in People : grp[x] \subseteq Members(s)
  BY <1>1
<1>3. t.grp = grp
  BY <1>1 DEF Tables
<1>4. Acyclic(t)
  BY <1>1, <1>3, LinkAcyclic
<1>5. t = [s EXCEPT !.grp[u] = @ \union {v}]
  OBVIOUS
<1> HIDE DEF grp, t
<1>6. Stays(s, t)
  BY <1>2, <1>4, RegroupSound DEF t
<1>7. QED
  BY <1>5, <1>6

\* aclgrp none.
LEMMA UnlinkSound ==
  ASSUME NEW s, Sound(s), NEW u
  PROVE  Stays(s, [s EXCEPT !.grp[u] = {}])
<1> DEFINE grp == [s.grp EXCEPT ![u] = {}]
           t == [s EXCEPT !.grp = grp]
<1>1. /\ s \in Tables /\ s.grp \in [People -> SUBSET Names] /\ Acyclic(s)
      /\ \A x \in People : s.grp[x] \subseteq Members(s)
  BY Fields DEF Sound, Core, Linked
<1>2. /\ grp \in [People -> SUBSET Names]
      /\ \A x \in People : grp[x] \subseteq s.grp[x] /\ grp[x] \subseteq Members(s)
  BY <1>1
<1>3. t.grp = grp
  BY <1>1 DEF Tables
<1>4. t = [s EXCEPT !.grp[u] = {}]
  OBVIOUS
<1> HIDE DEF grp, t
<1>5. Acyclic(t)
  BY <1>1, <1>2, <1>3, LendersFewer
<1>6. Stays(s, t)
  BY <1>2, <1>5, RegroupSound DEF t
<1>7. QED
  BY <1>4, <1>6

\* Other windows, with their bits: what stays sound.
LEMMA WindowsSound ==
  ASSUME NEW s, Sound(s), NEW t \in Tables, Within(t), Held(t),
         t.users = s.users, t.id = s.id, t.grp = s.grp, t.used = s.used
  PROVE  Sound(t) /\ Members(t) = Members(s)
<1>1. Members(t) = Members(s)
  BY DEF Members
<1>2. \A v : Lenders(t, v) = Lenders(s, v)
  BY DEF Lenders
<1>3. Numbered(t)
  BY <1>1 DEF Sound, Core, Numbered
<1>4. Linked(t)
  BY <1>1, <1>2 DEF Sound, Core, Linked, Acyclic
<1>5. QED
  BY <1>1, <1>3, <1>4 DEF Sound, Core

\* A window has come, and nobody's rights to the others changed.
IsWithWindow(s, t, w) ==
  /\ Sound(t) /\ Members(t) = Members(s) /\ t.open = s.open \union {w} /\ t.holder = s.holder
  /\ \A v \in Members(s) : RightsOf(t, v) \intersect Exists(s) = RightsOf(s, v)

\* A new window.
LEMMA NewWindowSound ==
  ASSUME NEW s, Sound(s), NEW w \in Windows \ s.open, NEW u \in Members(s), NEW lock \in Locks,
         NEW t, t = [NewWindowAcl(s, w, u) EXCEPT !.lock[w] = lock]
  PROVE  IsWithWindow(s, t, w)
<1> DEFINE open == s.open \union {w}
           win == [s.win EXCEPT ![w] = s.umask[u]]
           one == [s EXCEPT !.open = open, !.win = win]
           two == [one EXCEPT !.lock[w] = lock]
<1>1. /\ s \in Tables /\ s.win \in [Windows -> [Bits -> SUBSET Nat]] /\ u \in People
      /\ s.umask \in [People -> [Bits -> SUBSET Nat]] /\ s.open \subseteq Windows
  BY Fields DEF Sound, Core
<1>2. open \subseteq Windows /\ win \in [Windows -> [Bits -> SUBSET Nat]]
  BY <1>1
<1>3. /\ \A x \in Windows : x # w => win[x] = s.win[x]
      /\ win[w] = s.umask[u]
  BY <1>1
<1>4. t = two
  BY DEF NewWindowAcl
<1> HIDE DEF open, win
<1>5. /\ one \in Tables /\ one.users = s.users /\ one.id = s.id /\ one.grp = s.grp
      /\ one.used = s.used /\ one.umask = s.umask /\ one.max = s.max /\ one.cmd = s.cmd
      /\ one.open = open /\ one.win = win /\ one.holder = s.holder
  BY <1>1, <1>2 DEF Tables
<1> HIDE DEF one
<1>6. /\ t \in Tables /\ t.users = one.users /\ t.id = one.id /\ t.grp = one.grp
      /\ t.used = one.used /\ t.umask = one.umask /\ t.max = one.max /\ t.cmd = one.cmd
      /\ t.open = one.open /\ t.win = one.win /\ t.holder = one.holder
  <2>1. /\ two \in Tables /\ two.users = one.users /\ two.id = one.id /\ two.grp = one.grp
        /\ two.used = one.used /\ two.umask = one.umask /\ two.max = one.max /\ two.cmd = one.cmd
        /\ two.open = one.open /\ two.win = one.win /\ two.holder = one.holder
    BY <1>5 DEF Tables
  <2> HIDE DEF two
  <2>2. QED
    BY <1>4, <2>1
<1>7. Within(t)
  <2> DEFINE below == 0 .. s.max - 1
  <2>1. /\ s.used \subseteq below /\ \A c \in Cmds : s.cmd[c] \subseteq below
        /\ \A x \in Windows, b \in Bits : s.win[x][b] \subseteq below
        /\ \A x \in People, b \in Bits : s.umask[x][b] \subseteq below
    BY DEF Sound, Core, Within
  <2>2. \A x \in Windows, b \in Bits : win[x][b] \subseteq below
    BY <1>1, <1>3, <2>1
  <2>3. 0 .. t.max - 1 = below
    BY <1>5, <1>6
  <2> HIDE DEF below
  <2>4. QED
    BY <1>5, <1>6, <2>1, <2>2, <2>3 DEF Within
<1>8. Held(t)
  BY <1>5, <1>6 DEF Held, Members, Sound
<1>9. Sound(t) /\ Members(t) = Members(s)
  BY <1>5, <1>6, <1>7, <1>8, WindowsSound
<1>10. ASSUME NEW v \in Members(s) PROVE RightsOf(t, v) \intersect Exists(s) = RightsOf(s, v)
  <2>1. RightsOf(t, v) = {o \in Exists(t) : Bit(t, t.id[v], o)}
    BY <1>6, <1>9, InRights
  <2>2. RightsOf(s, v) = {o \in Exists(s) : Bit(s, s.id[v], o)}
    BY <1>1, InRights
  <2>3. Exists(s) \subseteq Exists(t)
    BY <1>5, <1>6 DEF Exists, open
  <2>4. \A o \in Exists(s) : Bit(t, t.id[v], o) <=> Bit(s, s.id[v], o)
    <3> TAKE o \in Exists(s)
    <3>1. o[1] \in Cmds \/ (o[1] \in Windows /\ o[1] # w)
      BY <1>1, ExistsIs
    <3>2. QED
      BY <1>3, <1>5, <1>6, <3>1 DEF Bit
  <2>5. QED
    BY <2>1, <2>2, <2>3, <2>4
<1>11. QED
  BY <1>5, <1>6, <1>9, <1>10 DEF open, IsWithWindow

IsWindowFreed(t, s, open, win, lock, holder) ==
  /\ t \in Tables /\ t.open = open /\ t.win = win /\ t.lock = lock /\ t.holder = holder
  /\ t.users = s.users /\ t.id = s.id /\ t.grp = s.grp /\ t.used = s.used /\ t.max = s.max
  /\ t.cmd = s.cmd /\ t.umask = s.umask

\* The fields after a window was freed.
LEMMA WindowFreedIs ==
  ASSUME NEW s \in Tables, NEW open \in SUBSET Windows,
         NEW win \in [Windows -> [Bits -> SUBSET Nat]], NEW lock \in [Windows -> Locks],
         NEW holder \in [Windows -> Names \union {NoUser, Freed}]
  PROVE  IsWindowFreed([s EXCEPT !.open = open, !.win = win, !.lock = lock, !.holder = holder],
                       s, open, win, lock, holder)
<1> DEFINE one == [s EXCEPT !.open = open, !.win = win]
           two == [one EXCEPT !.lock = lock, !.holder = holder]
<1>1. /\ one \in Tables /\ one.open = open /\ one.win = win
      /\ one.users = s.users /\ one.id = s.id /\ one.grp = s.grp /\ one.used = s.used
      /\ one.max = s.max /\ one.cmd = s.cmd /\ one.umask = s.umask
  BY DEF Tables
<1>2. two = [s EXCEPT !.open = open, !.win = win, !.lock = lock, !.holder = holder]
  OBVIOUS
<1> HIDE DEF one
<1>3. /\ two \in Tables /\ two.open = one.open /\ two.win = one.win
      /\ two.lock = lock /\ two.holder = holder
      /\ two.users = one.users /\ two.id = one.id /\ two.grp = one.grp /\ two.used = one.used
      /\ two.max = one.max /\ two.cmd = one.cmd /\ two.umask = one.umask
  BY <1>1 DEF Tables
<1> HIDE DEF two
<1>4. QED
  BY <1>1, <1>2, <1>3 DEF IsWindowFreed

\* A window is freed: the rights to it are gone, the others stay.
LEMMA FreeWindowSound ==
  ASSUME NEW s, Sound(s), NEW w \in Windows
  PROVE  LET t == FreeWindowAcl(s, w) IN
         /\ Sound(t) /\ Members(t) = Members(s) /\ t.open = s.open \ {w}
         /\ \A v \in Members(s) : RightsOf(t, v) = RightsOf(s, v) \intersect Exists(t)
         /\ \A x \in Windows : t.holder[x] \in {s.holder[x], NoUser}
<1> DEFINE open == s.open \ {w}
           win == [s.win EXCEPT ![w] = NoBits]
           lock == [s.lock EXCEPT ![w] = "off"]
           holder == [s.holder EXCEPT ![w] = NoUser]
           t == FreeWindowAcl(s, w)
<1>1. /\ s \in Tables /\ s.win \in [Windows -> [Bits -> SUBSET Nat]] /\ s.open \subseteq Windows
      /\ s.lock \in [Windows -> Locks] /\ s.holder \in [Windows -> Names \union {NoUser, Freed}]
  BY Fields DEF Sound, Core
<1>2. NoBits \in [Bits -> SUBSET Nat] /\ \A b \in Bits : NoBits[b] = {}
  BY DEF NoBits
<1>3. /\ open \in SUBSET Windows /\ win \in [Windows -> [Bits -> SUBSET Nat]]
      /\ lock \in [Windows -> Locks] /\ holder \in [Windows -> Names \union {NoUser, Freed}]
  BY <1>1, <1>2 DEF Locks
<1>4. /\ \A x \in Windows : x # w => win[x] = s.win[x]
      /\ win[w] = NoBits
      /\ \A x \in Windows : holder[x] \in {s.holder[x], NoUser}
  BY <1>1
<1>5. t = [s EXCEPT !.open = open, !.win = win, !.lock = lock, !.holder = holder]
  BY DEF FreeWindowAcl
<1> HIDE DEF open, win, lock, holder
<1>6. IsWindowFreed([s EXCEPT !.open = open, !.win = win, !.lock = lock, !.holder = holder],
                    s, open, win, lock, holder)
  BY <1>1, <1>3, WindowFreedIs
<1>7. IsWindowFreed(t, s, open, win, lock, holder)
  BY <1>5, <1>6
<1> HIDE DEF t
<1>8. Within(t)
  <2> DEFINE below == 0 .. s.max - 1
  <2>1. /\ s.used \subseteq below /\ \A c \in Cmds : s.cmd[c] \subseteq below
        /\ \A x \in Windows, b \in Bits : s.win[x][b] \subseteq below
        /\ \A x \in People, b \in Bits : s.umask[x][b] \subseteq below
    BY DEF Sound, Core, Within
  <2>2. \A x \in Windows, b \in Bits : win[x][b] \subseteq below
    <3> TAKE x \in Windows, b \in Bits
    <3>1. win[x] = s.win[x] \/ win[x] = NoBits
      BY <1>4
    <3>2. s.win[x][b] \subseteq below /\ NoBits[b] \subseteq below
      BY <1>2, <2>1
    <3>3. QED
      BY <3>1, <3>2
  <2>3. 0 .. t.max - 1 = below
    BY <1>7 DEF IsWindowFreed
  <2> HIDE DEF below
  <2>4. QED
    BY <1>7, <2>1, <2>2, <2>3 DEF Within, IsWindowFreed
<1>9. Held(t)
  BY <1>4, <1>7 DEF Held, Members, Sound, IsWindowFreed
<1>10. Sound(t) /\ Members(t) = Members(s)
  BY <1>7, <1>8, <1>9, WindowsSound DEF IsWindowFreed
<1>11. ASSUME NEW v \in Members(s) PROVE RightsOf(t, v) = RightsOf(s, v) \intersect Exists(t)
  <2>1. RightsOf(t, v) = {o \in Exists(t) : Bit(t, t.id[v], o)}
    BY <1>7, <1>10, InRights DEF IsWindowFreed
  <2>2. RightsOf(s, v) = {o \in Exists(s) : Bit(s, s.id[v], o)}
    BY <1>1, InRights
  <2>3. Exists(t) \subseteq Exists(s)
    BY <1>7 DEF Exists, open, IsWindowFreed
  <2>4. \A o \in Exists(t) : Bit(t, t.id[v], o) <=> Bit(s, s.id[v], o)
    <3> TAKE o \in Exists(t)
    <3>1. t \in Tables /\ t.open = s.open \ {w}
      BY <1>7 DEF IsWindowFreed, open
    <3>2. o[1] \in Cmds \/ (o[1] \in Windows /\ o[1] # w)
      BY <3>1, ExistsIs
    <3>3. QED
      BY <1>4, <1>7, <3>2 DEF Bit, IsWindowFreed
  <2>5. QED
    BY <2>1, <2>2, <2>3, <2>4
<1>12. QED
  BY <1>4, <1>7, <1>10, <1>11 DEF IsWindowFreed, open, t

-----------------------------------------------------------------------------
\* aclchg u=v, before the locks are taken from u.
Copied(s, u, v) ==
  LET i == s.id[u]
      like(field) == IF s.id[v] \in field THEN field \union {i} ELSE field \ {i}
  IN [s EXCEPT !.cmd = [c \in Cmds |-> like(@[c])],
               !.win = [w \in Windows |-> [b \in Bits |-> like(@[w][b])]]]

\* The bits of u are those of v.
LEMMA CopiedSound ==
  ASSUME NEW s, Sound(s), NEW u \in Members(s), NEW v \in Members(s), u # v
  PROVE  LET t == Copied(s, u, v) IN
         Changes(s, t, {s.id[u]}) /\ \A o \in Exists(s) : Bit(t, s.id[u], o) <=> Bit(s, s.id[v], o)
<1> DEFINE t == Copied(s, u, v)
           i == s.id[u]
           j == s.id[v]
           like(field) == IF j \in field THEN field \union {i} ELSE field \ {i}
           cmd == [c \in Cmds |-> like(s.cmd[c])]
           win == [w \in Windows |-> [b \in Bits |-> like(s.win[w][b])]]
           below == 0 .. s.max - 1
<1>1. /\ s \in Tables /\ s.cmd \in [Cmds -> SUBSET Nat] /\ s.open \subseteq Windows
      /\ s.win \in [Windows -> [Bits -> SUBSET Nat]] /\ i \in below /\ i \in Nat
      /\ \A c \in Cmds : s.cmd[c] \subseteq below
      /\ \A w \in Windows, b \in Bits : s.win[w][b] \subseteq below
  BY Fields, IdBelow DEF Sound, Core, Within
<1>2. t = [s EXCEPT !.cmd = cmd, !.win = win]
  BY DEF Copied
<1> HIDE DEF i, j, below
<1>3. \A field \in SUBSET Nat :
        /\ like(field) \in SUBSET Nat /\ (field \subseteq below => like(field) \subseteq below)
        /\ (i \in like(field) <=> j \in field)
        /\ \A k \in Nat \ {i} : k \in like(field) <=> k \in field
  BY <1>1
<1> HIDE DEF like
<1>4. /\ cmd \in [Cmds -> SUBSET Nat] /\ \A c \in Cmds : cmd[c] \subseteq below
      /\ \A c \in Cmds : i \in cmd[c] <=> j \in s.cmd[c]
      /\ \A k \in Nat \ {i}, c \in Cmds : k \in cmd[c] <=> k \in s.cmd[c]
  BY <1>1, <1>3
<1>5. /\ win \in [Windows -> [Bits -> SUBSET Nat]]
      /\ \A w \in Windows, b \in Bits : win[w][b] \subseteq below
      /\ \A w \in Windows, b \in Bits : i \in win[w][b] <=> j \in s.win[w][b]
      /\ \A k \in Nat \ {i}, w \in Windows, b \in Bits : k \in win[w][b] <=> k \in s.win[w][b]
  BY <1>1, <1>3
<1> HIDE DEF cmd, win
<1>6. /\ t \in Tables /\ t.cmd = cmd /\ t.win = win /\ SamePeople(s, t)
      /\ t.umask = s.umask /\ t.holder = s.holder
  BY <1>1, <1>2, <1>4, <1>5 DEF Tables, SamePeople
<1> HIDE DEF t
<1>7. Within(t)
  BY <1>4, <1>5, <1>6 DEF Within, SamePeople, below, Sound, Core
<1>8. \A k \in Nat \ {i} : SameBits(s, t, k)
  BY <1>1, <1>4, <1>5, <1>6 DEF SameBits
<1>9. \A o \in Exists(s) : Bit(t, i, o) <=> Bit(s, j, o)
  <2> TAKE o \in Exists(s)
  <2>1. o[1] \in Cmds \/ (o[1] \notin Cmds /\ o[1] \in Windows /\ o[2] \in Bits)
    BY <1>1, ExistsIs
  <2>2. QED
    BY <1>4, <1>5, <1>6, <2>1 DEF Bit
<1>10. QED
  BY <1>6, <1>7, <1>8, <1>9 DEF Changes, NoNewHolders, t, i, j

\* u has the rights of v now, and nobody else's rights change.
LEMMA CopySound ==
  ASSUME NEW s, Sound(s), NEW u \in Members(s), NEW v \in Members(s), u # v, NEW W \in SUBSET Windows
  PROVE  LET t == Withdraw(Copied(s, u, v), {u}, W) IN
         /\ Sound(t) /\ Members(t) = Members(s) /\ t.open = s.open
         /\ RightsOf(t, u) = RightsOf(s, v)
         /\ \A x \in Members(s) \ {u} : RightsOf(t, x) = RightsOf(s, x)
         /\ \A w \in Windows : t.holder[w] \in {s.holder[w], NoUser}
<1> DEFINE c == Copied(s, u, v)
           t == Withdraw(c, {u}, W)
           i == s.id[u]
<1>1. Changes(s, c, {i}) /\ \A o \in Exists(s) : Bit(c, i, o) <=> Bit(s, s.id[v], o)
  BY CopiedSound
<1>2. Core(s) /\ Held(s) /\ s \in Tables
  BY DEF Sound, Core
<1> HIDE DEF c
<1>3. c \in Tables /\ Within(c)
  BY <1>1 DEF Changes
<1>4. Changes(c, t, {})
  BY <1>3, WithdrawSound
<1>5. t.cmd = c.cmd /\ t.win = c.win
  BY <1>3 DEF Withdraw, Tables
<1> HIDE DEF t
<1>6. Changes(s, t, {i})
  BY <1>1, <1>4, ChangesTwice
<1>7. Core(t) /\ Held(t) /\ Members(t) = Members(s)
  BY <1>2, <1>6, ChangesCore
<1>8. t.open = s.open /\ t.id = s.id /\ \A w \in Windows : t.holder[w] \in {s.holder[w], NoUser}
  BY <1>6 DEF Changes, SamePeople, NoNewHolders
<1>9. \A x \in Members(s) \ {u} : RightsOf(t, x) = RightsOf(s, x)
  <2> TAKE x \in Members(s) \ {u}
  <2>1. s.id[x] \in Nat \ {i}
    BY <1>2, IdBelow
  <2>2. SameBits(s, t, s.id[x])
    BY <1>6, <2>1 DEF Changes
  <2>3. QED
    BY <1>7, <1>8, <2>2, RightsSame
<1>10. RightsOf(t, u) = RightsOf(s, v)
  <2>1. Exists(t) = Exists(s) /\ t \in Tables
    BY <1>7, <1>8 DEF Exists, Core
  <2>2. RightsOf(t, u) = {o \in Exists(s) : Bit(t, i, o)}
    BY <1>7, <1>8, <2>1, InRights
  <2>3. RightsOf(s, v) = {o \in Exists(s) : Bit(s, s.id[v], o)}
    BY <1>2, InRights
  <2>4. \A o : Bit(t, i, o) <=> Bit(c, i, o)
    BY <1>5 DEF Bit
  <2>5. QED
    BY <1>1, <2>2, <2>3, <2>4
<1>11. QED
  BY <1>7, <1>8, <1>9, <1>10 DEF Sound, t, c

-----------------------------------------------------------------------------
(* The invariant, and what every step does.                                 *)

DispSound(s, p) ==
  /\ p \in [Displays -> [user : Names \union {NoUser}, fore : Windows \union {NoWin}]]
  /\ \A d \in Displays : p[d].user \in Members(s) \union {NoUser} /\ p[d].fore \in s.open \union {NoWin}

IInv ==
  /\ Sound(acl) /\ Unknown \notin Members(acl)
  /\ DispSound(acl, disp)
  /\ done \in 0 .. MaxCommands

StepSound ==
  /\ Sound(acl') /\ Unknown \notin Members(acl') /\ DispSound(acl', disp')
  /\ Takes(acl, acl')
  /\ Abstract!Next \/ UNCHANGED Abstract!vars

\* Nobody comes or goes, no window does, and nobody's rights change.
LEMMA AbsStutter ==
  ASSUME Members(acl') = Members(acl), acl'.open = acl.open,
         \A v \in Members(acl) : RightsOf(acl', v) = RightsOf(acl, v)
  PROVE  UNCHANGED Abstract!vars
<1>1. \A v \in Names : RightsOf(acl', v) = RightsOf(acl, v)
  <2> TAKE v \in Names
  <2>1. CASE v \in Members(acl)
    BY <2>1
  <2>2. CASE v \notin Members(acl)
    BY <2>2 DEF RightsOf
  <2>3. QED
    BY <2>1, <2>2
<1>2. Exists(acl') = Exists(acl)
  BY DEF Exists
<1>3. QED
  BY <1>1, <1>2 DEF Abstract!vars

\* Users come.
LEMMA AbsAdd ==
  ASSUME Sound(acl'), NEW M \in SUBSET Names, M \intersect Members(acl) = {},
         Members(acl') = Members(acl) \union M, acl'.open = acl.open,
         \A v \in Members(acl) : RightsOf(acl', v) = RightsOf(acl, v)
  PROVE  Abstract!Next \/ UNCHANGED Abstract!vars
<1>1. CASE M = {}
  <2>1. Members(acl') = Members(acl)
    BY <1>1
  <2>2. QED
    BY <2>1, AbsStutter
<1>2. CASE M # {}
  <2>1. Members(acl) \subseteq Members(acl') /\ Members(acl) # Members(acl')
    BY <1>2
  <2>2. Exists(acl') = Exists(acl)
    BY DEF Exists
  <2>3. \A v \in Names : RightsOf(acl', v) \subseteq Exists(acl)
    BY <2>2, RightsExist DEF Sound, Core
  <2>4. \A v \in Names : v \in Members(acl) \/ v \notin Members(acl') => RightsOf(acl', v) = RightsOf(acl, v)
    <3> SUFFICES ASSUME NEW v \in Names, v \notin Members(acl') PROVE RightsOf(acl', v) = RightsOf(acl, v)
      OBVIOUS
    <3>1. v \notin Members(acl)
      BY <2>1
    <3>2. QED
      BY <3>1 DEF RightsOf
  <2>5. Abstract!Add
    BY <2>1, <2>2, <2>3, <2>4 DEF Abstract!Add
  <2>6. QED
    BY <2>5 DEF Abstract!Next
<1>3. QED
  BY <1>1, <1>2

\* Some users are given or denied something.
LEMMA AbsSet ==
  ASSUME Sound(acl), NEW on \in BOOLEAN, NEW U \in SUBSET Members(acl), NEW B, NEW O,
         IsSet(acl, acl', U, on, B, O)
  PROVE  Abstract!Next
<1> DEFINE X == Objs(acl, B, O)
<1>1. X \in SUBSET Exists(acl)
  BY DEF Objs
<1>2. Exists(acl') = Exists(acl) /\ Members(acl') = Members(acl)
  BY DEF Exists, IsSet
<1>3. \A v \in Members(acl) \ U : RightsOf(acl', v) = RightsOf(acl, v)
  BY DEF IsSet
<1>4. \A v \in U : RightsOf(acl', v) = IF on THEN RightsOf(acl, v) \union X ELSE RightsOf(acl, v) \ X
  BY DEF IsSet
<1> HIDE DEF X
<1>5. \A v \in Names \ Members(acl) : RightsOf(acl', v) = {} /\ RightsOf(acl, v) = {}
  BY <1>2 DEF RightsOf
<1>6. CASE on
  <2>1. \A v \in Names : RightsOf(acl', v) \in {RightsOf(acl, v), IF v \in Members(acl) THEN RightsOf(acl, v) \union X ELSE {}}
    BY <1>5, <1>4, <1>6, <1>3
  <2>2. Abstract!Give(X)
    BY <1>2, <2>1 DEF Abstract!Give
  <2>3. QED
    BY <1>1, <2>2 DEF Abstract!Next
<1>7. CASE ~on
  <2>1. \A v \in Names : RightsOf(acl', v) \in {RightsOf(acl, v), RightsOf(acl, v) \ X}
    BY <1>5, <1>4, <1>7, <1>3
  <2>2. Abstract!Deny(X)
    BY <1>2, <2>1 DEF Abstract!Deny
  <2>3. QED
    BY <1>1, <2>2 DEF Abstract!Next
<1>8. QED
  BY <1>6, <1>7

\* One user has the rights of another.
LEMMA AbsCopy ==
  ASSUME NEW u \in Members(acl) \intersect Names, NEW v \in Members(acl) \intersect Names,
         Members(acl') = Members(acl), acl'.open = acl.open, RightsOf(acl', u) = RightsOf(acl, v),
         \A x \in Members(acl) \ {u} : RightsOf(acl', x) = RightsOf(acl, x)
  PROVE  Abstract!Next
<1>1. Exists(acl') = Exists(acl)
  BY DEF Exists
<1>2. \A x \in Names \ {u} : RightsOf(acl', x) = RightsOf(acl, x)
  <2> TAKE x \in Names \ {u}
  <2>1. CASE x \in Members(acl)
    BY <2>1
  <2>2. CASE x \notin Members(acl)
    BY <2>2 DEF RightsOf
  <2>3. QED
    BY <2>1, <2>2
<1> DEFINE before == [x \in Names |-> RightsOf(acl, x)]
           after == [x \in Names |-> RightsOf(acl', x)]
<1>3. after = [before EXCEPT ![u] = before[v]]
  BY <1>2
<1>4. Abstract!Copy
  BY <1>1, <1>3 DEF Abstract!Copy
<1>5. QED
  BY <1>4 DEF Abstract!Next

\* A user goes.
LEMMA AbsRemove ==
  ASSUME NEW u \in Members(acl) \intersect Names, Members(acl') = Members(acl) \ {u},
         acl'.open = acl.open, \A v \in Members(acl') : RightsOf(acl', v) = RightsOf(acl, v)
  PROVE  Abstract!Next
<1>1. Exists(acl') = Exists(acl)
  BY DEF Exists
<1>2. \A x \in Names \ {u} : RightsOf(acl', x) = RightsOf(acl, x)
  <2> TAKE x \in Names \ {u}
  <2>1. CASE x \in Members(acl)
    BY <2>1
  <2>2. CASE x \notin Members(acl)
    BY <2>2 DEF RightsOf
  <2>3. QED
    BY <2>1, <2>2
<1>3. RightsOf(acl', u) = {}
  BY DEF RightsOf
<1> DEFINE before == [x \in Names |-> RightsOf(acl, x)]
           after == [x \in Names |-> RightsOf(acl', x)]
<1>4. after = [before EXCEPT ![u] = {}]
  BY <1>2, <1>3
<1>5. Abstract!Remove
  BY <1>1, <1>4 DEF Abstract!Remove
<1>6. QED
  BY <1>5 DEF Abstract!Next

\* A window comes.
LEMMA AbsCreate ==
  ASSUME Sound(acl), Sound(acl'), Members(acl') = Members(acl), NEW w \in Windows \ acl.open,
         acl'.open = acl.open \union {w},
         \A v \in Members(acl) : RightsOf(acl', v) \intersect Exists(acl) = RightsOf(acl, v)
  PROVE  Abstract!Next
<1>1. Exists(acl) \subseteq Exists(acl')
  BY DEF Exists
<1>2. <<w, "exec">> \in Exists(acl') /\ <<w, "exec">> \notin Exists(acl)
  BY AccessAssumption DEF Exists
<1>3. \A v \in Names :
        /\ RightsOf(acl', v) \subseteq Exists(acl')
        /\ RightsOf(acl', v) \intersect Exists(acl) = RightsOf(acl, v)
        /\ v \notin Members(acl) => RightsOf(acl', v) = {}
  <2> TAKE v \in Names
  <2>1. RightsOf(acl', v) \subseteq Exists(acl')
    BY RightsExist DEF Sound, Core
  <2>2. CASE v \in Members(acl)
    BY <2>1, <2>2
  <2>3. CASE v \notin Members(acl)
    BY <2>3 DEF RightsOf
  <2>4. QED
    BY <2>2, <2>3
<1>4. Abstract!Create
  BY <1>1, <1>2, <1>3 DEF Abstract!Create
<1>5. QED
  BY <1>4 DEF Abstract!Next

\* A window goes.
LEMMA AbsDestroy ==
  ASSUME Sound(acl), Members(acl') = Members(acl), NEW w \in acl.open,
         acl'.open = acl.open \ {w},
         \A v \in Members(acl) : RightsOf(acl', v) = RightsOf(acl, v) \intersect Exists(acl')
  PROVE  Abstract!Next
<1>1. Exists(acl') \subseteq Exists(acl)
  BY DEF Exists
<1>2. w \in Windows
  BY Fields DEF Sound, Core
<1>3. <<w, "exec">> \in Exists(acl) /\ <<w, "exec">> \notin Exists(acl')
  BY <1>2, AccessAssumption DEF Exists
<1>4. \A v \in Names : RightsOf(acl', v) = RightsOf(acl, v) \intersect Exists(acl')
  <2> TAKE v \in Names
  <2>1. CASE v \in Members(acl)
    BY <2>1
  <2>2. CASE v \notin Members(acl)
    BY <2>2 DEF RightsOf
  <2>3. QED
    BY <2>1, <2>2
<1>5. Abstract!Destroy
  BY <1>1, <1>3, <1>4 DEF Abstract!Destroy
<1>6. QED
  BY <1>5 DEF Abstract!Next

-----------------------------------------------------------------------------
(* The commands.                                                            *)

\* Displays need their users and windows, no more.
LEMMA DispStays ==
  ASSUME NEW s, NEW t, NEW p, DispSound(s, p), Members(s) \subseteq Members(t), s.open \subseteq t.open
  PROVE  DispSound(t, p)
BY DEF DispSound

\* Users are names.
LEMMA MembersNamed ==
  ASSUME NEW s, Sound(s), Unknown \notin Members(s)
  PROVE  Members(s) \subseteq Names
BY Fields DEF Sound, Core, People

\* A user of a display is a user of the session.
LEMMA AttachedIs ==
  ASSUME IInv, NEW d \in Attached
  PROVE  /\ d \in Displays /\ disp[d].user \in Members(acl) /\ disp[d].user \in Names
         /\ disp[d].fore \in Windows \union {NoWin} /\ disp[d].fore \in acl.open \union {NoWin}
BY DEF IInv, DispSound, Attached

\* The session's first user.
LEMMA HeadIs ==
  ASSUME IInv, acl.users # <<>>
  PROVE  Head(acl.users) \in Members(acl)
<1>1. acl.users \in Seq(People)
  BY Fields DEF IInv, Sound, Core
<1>2. Head(acl.users) = acl.users[1] /\ 1 \in DOMAIN acl.users
  BY <1>1, LenProperties
<1>3. QED
  BY <1>2 DEF Members, ToSet

\* A step that leaves users, windows and rights alone, and takes no lock.
LEMMA StaysStep ==
  ASSUME IInv, Stays(acl, acl'), DispSound(acl', disp')
  PROVE  StepSound
<1>1. Sound(acl') /\ Unknown \notin Members(acl')
  BY DEF Stays, IInv
<1>2. Takes(acl, acl')
  BY AccessAssumption DEF Stays, Takes
<1>3. UNCHANGED Abstract!vars
  BY AbsStutter DEF Stays
<1>4. QED
  BY <1>1, <1>2, <1>3 DEF StepSound

\* acladd.
LEMMA AclAddSound ==
  ASSUME IInv, NEW u \in Names, NEW reuse \in BOOLEAN, AclAdd(u, reuse)
  PROVE  StepSound
<1>1. acl' = Enrol(acl, u, reuse) /\ disp' = disp
  BY DEF AclAdd
<1>2. Adds(acl, acl', {u})
  BY <1>1, EnrolSound DEF IInv
<1>3. Sound(acl') /\ Members(acl') = Members(acl) \union {u} /\ acl'.open = acl.open
  BY <1>2 DEF Adds
<1>4. Unknown \notin Members(acl')
  BY <1>3, AccessAssumption DEF IInv
<1>5. DispSound(acl', disp')
  BY <1>1, <1>3, DispStays DEF IInv
<1>6. Takes(acl, acl')
  BY <1>2, AccessAssumption DEF Adds, Takes
<1>7. CASE u \in Members(acl)
  <2>1. acl' = AclSetPerm(acl, {u}, TRUE, Bits, Everything(acl))
    BY <1>1, <1>7 DEF Enrol, UserEnsure
  <2> DEFINE t == AclSetPerm(acl, {u}, TRUE, Bits, Everything(acl))
  <2>2. {u} \in SUBSET Members(acl) /\ TRUE \in BOOLEAN
    BY <1>7
  <2>3. IsSet(acl, t, {u}, TRUE, Bits, Everything(acl))
    BY <2>2, PermRights DEF IInv
  <2>4. IsSet(acl, acl', {u}, TRUE, Bits, Everything(acl))
    BY <2>1, <2>3
  <2>5. Abstract!Next
    BY <2>2, <2>4, AbsSet DEF IInv
  <2>6. QED
    BY <1>3, <1>4, <1>5, <1>6, <2>5 DEF StepSound
<1>8. CASE u \notin Members(acl)
  <2>1. {u} \in SUBSET Names /\ {u} \intersect Members(acl) = {} /\ Members(acl) \ {u} = Members(acl)
    BY <1>8
  <2>2. \A v \in Members(acl) : RightsOf(acl', v) = RightsOf(acl, v)
    BY <1>2, <2>1 DEF Adds
  <2>3. Abstract!Next \/ UNCHANGED Abstract!vars
    BY <1>3, <2>1, <2>2, AbsAdd
  <2>4. QED
    BY <1>3, <1>4, <1>5, <1>6, <2>3 DEF StepSound
<1>9. QED
  BY <1>7, <1>8

\* aclchg.
LEMMA AclChgSound ==
  ASSUME IInv, NEW S, NEW on \in BOOLEAN, NEW B, NEW O, AclChg(S, on, B, O)
  PROVE  StepSound
<1>1. acl' = AclSetPerm(acl, S, on, B, O) /\ disp' = disp /\ S \in SUBSET Members(acl)
  BY DEF AclChg
<1>2. IsSet(acl, AclSetPerm(acl, S, on, B, O), S, on, B, O)
  BY <1>1, PermRights DEF IInv
<1>3. IsSet(acl, acl', S, on, B, O)
  BY <1>1, <1>2
<1>4. Sound(acl') /\ Members(acl') = Members(acl) /\ acl'.open = acl.open
  BY <1>3 DEF IsSet
<1>5. DispSound(acl', disp')
  BY <1>1, <1>4, DispStays DEF IInv
<1>6. Takes(acl, acl')
  BY <1>3, AccessAssumption DEF Takes, IsSet
<1>7. Abstract!Next
  BY <1>1, <1>3, AbsSet DEF IInv
<1>8. QED
  BY <1>4, <1>5, <1>6, <1>7 DEF StepSound, IInv

\* aclchg u=v.
LEMMA AclCopySound ==
  ASSUME IInv, NEW u \in Names, NEW v \in Names, AclCopy(u, v)
  PROVE  StepSound
<1>1. u \in Members(acl) /\ v \in Members(acl) /\ u # v /\ disp' = disp
  BY DEF AclCopy
<1> DEFINE c == Copied(acl, u, v)
           lost == {w \in acl.open : "write" \in Bits /\ acl.id[u] \notin c.win[w]["write"]}
           t == Withdraw(c, {u}, lost)
<1>2. acl' = t
  BY DEF AclCopy, Copied
<1>3. lost \in SUBSET Windows
  BY Fields DEF IInv, Sound, Core
<1> HIDE DEF lost, c
<1>4. /\ Sound(t) /\ Members(t) = Members(acl) /\ t.open = acl.open
      /\ RightsOf(t, u) = RightsOf(acl, v)
      /\ \A x \in Members(acl) \ {u} : RightsOf(t, x) = RightsOf(acl, x)
      /\ \A w \in Windows : t.holder[w] \in {acl.holder[w], NoUser}
  BY <1>1, <1>3, CopySound DEF IInv, c
<1> HIDE DEF t
<1>5. DispSound(acl', disp')
  BY <1>1, <1>2, <1>4, DispStays DEF IInv
<1>6. Takes(acl, acl')
  BY <1>2, <1>4, AccessAssumption DEF Takes
<1>7. Abstract!Next
  BY <1>1, <1>2, <1>4, AbsCopy
<1>8. QED
  BY <1>2, <1>4, <1>5, <1>6, <1>7 DEF StepSound, IInv

\* acldel.
LEMMA AclDelSound ==
  ASSUME IInv, NEW u \in Names, AclDel(u)
  PROVE  StepSound
<1> DEFINE his == {d \in Displays : disp[d].user = u}
           r == Release(acl, his)
           t == UserDel(r, u)
<1>1. /\ u \in Members(acl) /\ acl' = t
      /\ disp' = [d \in Displays |-> IF d \in his THEN [user |-> NoUser, fore |-> NoWin] ELSE disp[d]]
  BY DEF AclDel
<1>2. OnlyLocks(acl, r) /\ \A w \in Windows : r.holder[w] \in {acl.holder[w], NoUser}
  BY ReleaseSound DEF IInv
<1> HIDE DEF r
<1>3. /\ Sound(r) /\ Members(r) = Members(acl) /\ r.open = acl.open
      /\ \A v \in Members(acl) : RightsOf(r, v) = RightsOf(acl, v)
  BY <1>2, OnlyLocksSound DEF IInv
<1>4. Removes(r, t, u)
  BY <1>1, <1>3, UserDelSound
<1> HIDE DEF t
<1>5. /\ Sound(t) /\ Members(t) = Members(acl) \ {u} /\ t.open = acl.open
      /\ \A v \in Members(t) : RightsOf(t, v) = RightsOf(acl, v)
      /\ \A w \in Windows : t.holder[w] \in {acl.holder[w], NoUser, Freed}
  BY <1>2, <1>3, <1>4 DEF Removes
<1>6. DispSound(acl', disp')
  <2>1. NoUser \in Names \union {NoUser} /\ NoWin \in Windows \union {NoWin}
    OBVIOUS
  <2>2. /\ disp \in [Displays -> [user : Names \union {NoUser}, fore : Windows \union {NoWin}]]
        /\ \A d \in Displays : /\ disp[d].user \in Members(acl) \union {NoUser}
                               /\ disp[d].fore \in acl.open \union {NoWin}
    BY DEF IInv, DispSound
  <2>3. disp' \in [Displays -> [user : Names \union {NoUser}, fore : Windows \union {NoWin}]]
    BY <1>1, <2>2
  <2>4. ASSUME NEW d \in Displays
        PROVE  disp'[d].user \in Members(t) \union {NoUser} /\ disp'[d].fore \in t.open \union {NoWin}
    <3>1. CASE d \in his
      BY <1>1, <3>1
    <3>2. CASE d \notin his
      BY <1>1, <1>5, <2>2, <3>2
    <3>3. QED
      BY <3>1, <3>2
  <2>5. QED
    BY <1>1, <2>3, <2>4 DEF DispSound
<1>7. Takes(acl, acl')
  BY <1>1, <1>5, AccessAssumption DEF Takes
<1>8. Abstract!Next
  BY <1>1, <1>5, AbsRemove
<1>9. QED
  BY <1>1, <1>5, <1>6, <1>7, <1>8 DEF StepSound, IInv

\* Users come, then a step that leaves their rights alone.
LEMMA AddsStep ==
  ASSUME IInv, NEW s, NEW M \in SUBSET Names, Adds(acl, s, M), M \intersect Members(acl) = {},
         Stays(s, acl'), DispSound(acl', disp')
  PROVE  StepSound
<1>1. /\ Sound(acl') /\ Members(acl') = Members(acl) \union M /\ acl'.open = acl.open
  BY DEF Adds, Stays
<1>2. Members(acl) \ M = Members(acl)
  OBVIOUS
<1>3. \A v \in Members(acl) : RightsOf(acl', v) = RightsOf(acl, v)
  BY <1>1, <1>2 DEF Adds, Stays
<1>4. Abstract!Next \/ UNCHANGED Abstract!vars
  BY <1>1, <1>3, AbsAdd
<1>5. Takes(acl, acl')
  BY AccessAssumption DEF Adds, Stays, Takes
<1>6. Unknown \notin Members(acl')
  BY <1>1, AccessAssumption DEF IInv
<1>7. QED
  BY <1>1, <1>4, <1>5, <1>6 DEF StepSound

\* A user who may be there already, or not.
LEMMA EnsureNamed ==
  ASSUME NEW s, Sound(s), Unknown \notin Members(s), NEW u \in Names, NEW reuse \in BOOLEAN
  PROVE  LET t == UserEnsure(s, u, reuse) IN
         /\ Adds(s, t, {u} \ Members(s)) /\ Sound(t) /\ Unknown \notin Members(t)
         /\ Members(t) = Members(s) \union {u}
<1> DEFINE t == UserEnsure(s, u, reuse)
<1>1. Adds(s, t, {u} \ Members(s))
  BY UserEnsureSound
<1> HIDE DEF t
<1>2. Sound(t) /\ Members(t) = Members(s) \union {u}
  BY <1>1 DEF Adds
<1>3. Unknown # u
  BY AccessAssumption
<1>4. QED
  BY <1>1, <1>2, <1>3 DEF t

\* aclgrp u v.
LEMMA AclLinkSound ==
  ASSUME IInv, NEW u \in Names, NEW v \in Names, u # v, NEW reuse \in BOOLEAN, AclLinkUser(u, v, reuse)
  PROVE  StepSound
<1> DEFINE one == UserEnsure(acl, u, reuse)
           s == UserEnsure(one, v, FALSE)
           M == ({u} \ Members(acl)) \union ({v} \ Members(one))
<1>1. /\ acl' = IF u \in Lenders(s, v) THEN s ELSE [s EXCEPT !.grp[u] = @ \union {v}]
      /\ disp' = disp
  BY DEF AclLinkUser
<1>2. /\ Adds(acl, one, {u} \ Members(acl)) /\ Sound(one) /\ Unknown \notin Members(one)
      /\ Members(one) = Members(acl) \union {u}
  BY EnsureNamed DEF IInv
<1> HIDE DEF one
<1>3. /\ Adds(one, s, {v} \ Members(one)) /\ Sound(s)
      /\ Members(s) = Members(one) \union {v}
  BY <1>2, EnsureNamed
<1> HIDE DEF s
<1>4. Adds(acl, s, M)
  BY <1>2, <1>3, AddsTwice
<1>5. M \in SUBSET Names /\ M \intersect Members(acl) = {}
  BY <1>2
<1> HIDE DEF M
<1>6. Stays(s, acl')
  <2>1. CASE u \in Lenders(s, v)
    BY <1>1, <1>3, <2>1 DEF Stays
  <2>2. CASE u \notin Lenders(s, v)
    <3>1. Stays(s, [s EXCEPT !.grp[u] = @ \union {v}])
      BY <1>3, <2>2, LinkSound
    <3>2. QED
      BY <1>1, <2>2, <3>1
  <2>3. QED
    BY <2>1, <2>2
<1>7. DispSound(acl', disp')
  BY <1>1, <1>4, <1>6, DispStays DEF IInv, Adds, Stays
<1>8. QED
  BY <1>4, <1>5, <1>6, <1>7, AddsStep

\* aclgrp u none.
LEMMA AclUnlinkSound ==
  ASSUME IInv, NEW u, AclUnlink(u)
  PROVE  StepSound
<1>1. acl' = [acl EXCEPT !.grp[u] = {}] /\ disp' = disp
  BY DEF AclUnlink
<1>2. Stays(acl, [acl EXCEPT !.grp[u] = {}])
  BY UnlinkSound DEF IInv
<1>3. Stays(acl, acl')
  BY <1>1, <1>2
<1>4. DispSound(acl', disp')
  BY <1>1, <1>3, DispStays DEF IInv, Stays
<1>5. QED
  BY <1>3, <1>4, StaysStep

\* umask.
LEMMA UmaskSound ==
  ASSUME IInv, NEW uu, NEW u, NEW on \in BOOLEAN, NEW B, NEW forCmds \in BOOLEAN,
         Umask(uu, u, on, B, forCmds)
  PROVE  StepSound
<1>1. uu \in Members(acl)
  <2>1. acl.users # <<>> /\ uu \in Speakers
    BY DEF Umask
  <2>2. CASE Attached = {}
    BY <2>1, <2>2, HeadIs DEF Speakers
  <2>3. CASE Attached # {}
    <3>1. PICK d \in Attached : uu = disp[d].user
      BY <2>1, <2>3 DEF Speakers
    <3>2. QED
      BY <3>1, AttachedIs
  <2>4. QED
    BY <2>2, <2>3
<1>2. uu \in People
  BY <1>1, Fields DEF IInv, Sound, Core
<1>3. Stays(acl, acl')
  <2>1. CASE u \in Members(acl) /\ acl' = SetUmask(acl, uu, u, on, B)
    <3>1. Kept(acl, SetUmask(acl, uu, u, on, B))
      BY <1>2, <2>1, SetUmaskSound DEF IInv, Sound
    <3>2. Kept(acl, acl')
      BY <2>1, <3>1
    <3>3. /\ Sound(acl') /\ Members(acl') = Members(acl)
          /\ \A v \in Members(acl) : RightsOf(acl', v) = RightsOf(acl, v)
      BY <3>2, KeptSound DEF IInv
    <3>4. QED
      BY <3>2, <3>3 DEF Stays, Kept
  <2>2. CASE acl' = SetDefaults(acl, uu, on, B, forCmds)
    <3>1. Stays(acl, SetDefaults(acl, uu, on, B, forCmds))
      BY <1>2, SetDefaultsSound DEF IInv
    <3>2. QED
      BY <2>2, <3>1
  <2>3. QED
    BY <2>1, <2>2 DEF Umask
<1>4. disp' = disp
  BY DEF Umask
<1>5. DispSound(acl', disp')
  BY <1>3, <1>4, DispStays DEF IInv, Stays
<1>6. QED
  BY <1>3, <1>5, StaysStep

-----------------------------------------------------------------------------
(* The displays.                                                            *)

\* One display has another user and another window, who and which are there.
LEMMA DispSet ==
  ASSUME IInv, acl' \in Tables, Members(acl) \subseteq Members(acl'), acl.open \subseteq acl'.open,
         NEW d, NEW u \in (Names \intersect Members(acl')) \union {NoUser},
         NEW w \in acl'.open \union {NoWin}, disp' = [disp EXCEPT ![d] = [user |-> u, fore |-> w]]
  PROVE  DispSound(acl', disp')
<1>1. acl'.open \subseteq Windows /\ acl.open \subseteq acl'.open
  BY Fields
<1>2. disp' \in [Displays -> [user : Names \union {NoUser}, fore : Windows \union {NoWin}]]
  BY <1>1 DEF DispSound, IInv
<1>3. ASSUME NEW e \in Displays
      PROVE  disp'[e].user \in Members(acl') \union {NoUser} /\ disp'[e].fore \in acl'.open \union {NoWin}
  <2>1. CASE e = d
    BY <2>1 DEF DispSound, IInv
  <2>2. CASE e # d
    BY <1>1, <2>2 DEF DispSound, IInv
  <2>3. QED
    BY <2>1, <2>2
<1>4. QED
  BY <1>2, <1>3 DEF DispSound

\* Locks move: a user who is there gets one only if he, or the sender, may write.
LEMMA LocksStep ==
  ASSUME IInv, OnlyLocks(acl, acl'), DispSound(acl', disp'),
         \A w \in Windows :
           \/ acl'.holder[w] \in {acl.holder[w], NoUser}
           \/ \E v \in {acl'.holder[w]} \union Remotes : v \in Members(acl) /\ MayWin(acl, NoUser, v, "write", w)
  PROVE  StepSound
<1>1. /\ Sound(acl') /\ Members(acl') = Members(acl) /\ acl'.open = acl.open
      /\ \A v \in Members(acl) : RightsOf(acl', v) = RightsOf(acl, v)
      /\ \A eff, u, b, w : MayWin(acl', eff, u, b, w) = MayWin(acl, eff, u, b, w)
  BY OnlyLocksSound DEF IInv
<1>2. Takes(acl, acl')
  <2> SUFFICES ASSUME NEW w \in Windows
               PROVE  \/ acl'.holder[w] \notin Names
                      \/ acl.holder[w] \in {acl'.holder[w], Freed}
                      \/ \E v \in {acl'.holder[w]} \union Remotes :
                           v \in Members(acl') /\ MayWin(acl', NoUser, v, "write", w)
    BY DEF Takes
  <2>1. CASE acl'.holder[w] \in {acl.holder[w], NoUser}
    BY <2>1, AccessAssumption
  <2>2. CASE \E v \in {acl'.holder[w]} \union Remotes : v \in Members(acl) /\ MayWin(acl, NoUser, v, "write", w)
    <3>1. PICK v \in {acl'.holder[w]} \union Remotes : v \in Members(acl) /\ MayWin(acl, NoUser, v, "write", w)
      BY <2>2
    <3>2. v \in Members(acl') /\ MayWin(acl', NoUser, v, "write", w)
      BY <1>1, <3>1
    <3>3. QED
      BY <3>2
  <2>3. QED
    BY <2>1, <2>2
<1>3. UNCHANGED Abstract!vars
  BY <1>1, AbsStutter
<1>4. QED
  BY <1>1, <1>2, <1>3 DEF StepSound, IInv

\* A change of locks after another.
LEMMA OnlyLocksTwice ==
  ASSUME NEW s, NEW t, NEW x, OnlyLocks(s, t), OnlyLocks(t, x)
  PROVE  OnlyLocks(s, x)
BY DEF OnlyLocks

\* A lock is released and another one obtained.
LEMMA ReleaseObtain ==
  ASSUME NEW s, Sound(s), Unknown \notin Members(s), NEW dead, NEW u \in Members(s),
         NEW w \in Windows \union {NoWin}, NEW t, t = Obtain(Release(s, dead), u, w)
  PROVE  /\ OnlyLocks(s, t)
         /\ \A x \in Windows : \/ t.holder[x] \in {s.holder[x], NoUser}
                               \/ t.holder[x] = u /\ MayWin(s, NoUser, u, "write", x)
<1> DEFINE r == Release(s, dead)
<1>1. OnlyLocks(s, r) /\ \A x \in Windows : r.holder[x] \in {s.holder[x], NoUser}
  BY ReleaseSound
<1>2. t = Obtain(r, u, w)
  OBVIOUS
<1> HIDE DEF r
<1>3. /\ Sound(r) /\ Members(r) = Members(s)
      /\ \A eff, v, b, x : MayWin(r, eff, v, b, x) = MayWin(s, eff, v, b, x)
  BY <1>1, OnlyLocksSound
<1> DEFINE o == Obtain(r, u, w)
<1>4. /\ OnlyLocks(r, o)
      /\ \A x \in Windows : \/ o.holder[x] = r.holder[x]
                            \/ o.holder[x] = u /\ MayWin(r, NoUser, u, "write", x)
  BY <1>3, ObtainSound
<1>5. t = o
  BY <1>2
<1> HIDE DEF o
<1>6. OnlyLocks(s, t)
  BY <1>1, <1>4, <1>5, OnlyLocksTwice
<1>7. QED
  BY <1>1, <1>3, <1>4, <1>5, <1>6

\* su.
LEMMA SuSound ==
  ASSUME IInv, NEW d \in Displays, NEW u \in Names, Su(d, u)
  PROVE  StepSound
<1>1. /\ d \in Attached /\ u \in Members(acl) /\ acl' = acl
      /\ disp' = [disp EXCEPT ![d].user = u]
  BY DEF Su, Allowed
<1>2. disp[d].fore \in acl.open \union {NoWin}
  BY <1>1, AttachedIs
<1>3. disp[d] \in [user : Names \union {NoUser}, fore : Windows \union {NoWin}]
  BY DEF IInv, DispSound
<1>4. disp' = [disp EXCEPT ![d] = [user |-> u, fore |-> disp[d].fore]]
  <2>1. [disp[d] EXCEPT !.user = u] = [user |-> u, fore |-> disp[d].fore]
    BY <1>3
  <2>2. QED
    BY <1>1, <2>1
<1>5. DispSound(acl', disp')
  BY <1>1, <1>2, <1>4, DispSet DEF IInv, Sound, Core
<1>6. Stays(acl, acl')
  BY <1>1 DEF Stays, IInv
<1>7. QED
  BY <1>5, <1>6, StaysStep

\* A display changes to a window that its user may see, or to none.
LEMMA SwitchSound ==
  ASSUME IInv, NEW d \in Displays, NEW w \in Windows \union {NoWin}, Switch(d, w)
  PROVE  StepSound
<1> DEFINE u == disp[d].user
<1>1. /\ d \in Attached /\ w \in acl.open \union {NoWin}
      /\ acl' = Obtain(Release(acl, {d}), u, w) /\ disp' = [disp EXCEPT ![d].fore = w]
  BY DEF Switch, Readable
<1>2. u \in Members(acl) \intersect Names
  BY <1>1, AttachedIs
<1>3. disp[d] \in [user : Names \union {NoUser}, fore : Windows \union {NoWin}]
  BY DEF IInv, DispSound
<1>4. disp' = [disp EXCEPT ![d] = [user |-> u, fore |-> w]]
  <2>1. [disp[d] EXCEPT !.fore = w] = [user |-> u, fore |-> w]
    BY <1>3
  <2>2. QED
    BY <1>1, <2>1
<1> HIDE DEF u
<1>5. /\ OnlyLocks(acl, acl')
      /\ \A x \in Windows : \/ acl'.holder[x] \in {acl.holder[x], NoUser}
                            \/ acl'.holder[x] = u /\ MayWin(acl, NoUser, u, "write", x)
  BY <1>1, <1>2, ReleaseObtain DEF IInv
<1>6. acl' \in Tables /\ Members(acl') = Members(acl) /\ acl'.open = acl.open
  BY <1>5, OnlyLocksSound DEF OnlyLocks, IInv
<1>7. DispSound(acl', disp')
  BY <1>1, <1>2, <1>4, <1>6, DispSet
<1>8. QED
  BY <1>2, <1>5, <1>7, LocksStep

\* A display goes.
LEMMA DetachSound ==
  ASSUME IInv, NEW d \in Displays, Detach(d)
  PROVE  StepSound
<1> DEFINE r == Release(acl, {d})
<1>1. acl' = r /\ disp' = [disp EXCEPT ![d] = [user |-> NoUser, fore |-> NoWin]]
  BY DEF Detach
<1>2. OnlyLocks(acl, r) /\ \A w \in Windows : r.holder[w] \in {acl.holder[w], NoUser}
  BY ReleaseSound DEF IInv
<1> HIDE DEF r
<1>3. acl' \in Tables /\ Members(acl') = Members(acl) /\ acl'.open = acl.open
  BY <1>1, <1>2, OnlyLocksSound DEF OnlyLocks, IInv
<1>4. DispSound(acl', disp')
  BY <1>1, <1>3, DispSet
<1>5. QED
  BY <1>1, <1>2, <1>4, LocksStep

\* A user types.
LEMMA TypingSound ==
  ASSUME IInv, NEW d \in Displays, Typing(d)
  PROVE  StepSound
<1> DEFINE u == disp[d].user
           w == disp[d].fore
           t == Obtain(acl, u, w)
<1>1. d \in Attached /\ acl' = t /\ disp' = disp
  BY DEF Typing
<1>2. u \in Members(acl) /\ w \in Windows \union {NoWin}
  BY <1>1, AttachedIs
<1> HIDE DEF u, w
<1>3. /\ OnlyLocks(acl, t)
      /\ \A x \in Windows : \/ t.holder[x] = acl.holder[x]
                            \/ t.holder[x] = u /\ MayWin(acl, NoUser, u, "write", x)
  BY <1>2, ObtainSound DEF IInv
<1> HIDE DEF t
<1>4. Members(acl') = Members(acl) /\ acl'.open = acl.open
  BY <1>1, <1>3, OnlyLocksSound DEF OnlyLocks, IInv
<1>5. DispSound(acl', disp')
  BY <1>1, <1>4, DispStays DEF IInv
<1>6. QED
  BY <1>1, <1>2, <1>3, <1>5, LocksStep

\* writelock.
LEMMA WritelockSound ==
  ASSUME IInv, NEW d \in Displays, NEW eff \in {NoUser} \union Remotes, NEW lock \in Locks,
         Writelock(d, eff, lock)
  PROVE  StepSound
<1> DEFINE u == disp[d].user
           w == disp[d].fore
           may == MayWin(acl, eff, u, "write", w)
           locks == [acl.lock EXCEPT ![w] = lock]
           holder == [acl.holder EXCEPT ![w] = IF may THEN u ELSE @]
<1>1. /\ d \in Attached /\ Sender(d, eff) /\ w # NoWin /\ disp' = disp
      /\ acl' = [acl EXCEPT !.lock[w] = lock, !.holder[w] = IF may THEN u ELSE @]
  BY DEF Writelock, Allowed
<1>2. u \in Members(acl) /\ w \in Windows
  BY <1>1, AttachedIs
<1>3. /\ acl.lock \in [Windows -> Locks] /\ acl.holder \in [Windows -> Names \union {NoUser, Freed}]
      /\ \A x \in Windows : acl.holder[x] \in Members(acl) \union {NoUser, Freed}
  BY Fields DEF IInv, Sound, Core, Held
<1>4. acl' = [acl EXCEPT !.lock = locks, !.holder = holder]
  BY <1>1
<1> HIDE DEF u, w, may
<1>5. /\ locks \in [Windows -> Locks] /\ holder \in [Windows -> Members(acl) \union {NoUser, Freed}]
      /\ \A x \in Windows : \/ holder[x] = acl.holder[x]
                            \/ holder[x] = u /\ x = w /\ may
  BY <1>2, <1>3
<1> HIDE DEF locks, holder
<1>6. OnlyLocks(acl, acl') /\ acl'.holder = holder
  <2>1. PICK m : m = [acl EXCEPT !.lock = locks]
    OBVIOUS
  <2>2. Sound(acl) /\ Unknown \notin Members(acl) /\ locks \in [Windows -> Locks]
    BY <1>5 DEF IInv
  <2>3. OnlyLocks(acl, m)
    BY <2>1, <2>2, ModesAre
  <2>4. Sound(m) /\ Members(m) = Members(acl)
    BY <2>2, <2>3, OnlyLocksSound
  <2>5. acl' = [m EXCEPT !.holder = holder]
    BY <1>4, <2>1
  <2>6. holder \in [Windows -> Members(m) \union {NoUser, Freed}]
    BY <1>5, <2>4
  <2>7. OnlyLocks(m, acl') /\ acl'.holder = holder
    BY <2>2, <2>4, <2>5, <2>6, LocksAre
  <2>8. QED
    BY <2>3, <2>7, OnlyLocksTwice
<1>7. may => \E v \in {u} \union Remotes : v \in Members(acl) /\ MayWin(acl, NoUser, v, "write", w)
  <2>1. CASE eff = NoUser
    BY <1>2, <2>1 DEF may
  <2>2. CASE eff # NoUser
    <3>1. eff \in Remotes /\ eff \in Members(acl)
      BY <1>1, <2>2 DEF Sender
    <3>2. may => MayWin(acl, NoUser, eff, "write", w)
      BY <2>2 DEF may, MayWin, Asked
    <3>3. QED
      BY <3>1, <3>2
  <2>3. QED
    BY <2>1, <2>2
<1>8. \A x \in Windows :
           \/ acl'.holder[x] \in {acl.holder[x], NoUser}
           \/ \E v \in {acl'.holder[x]} \union Remotes : v \in Members(acl) /\ MayWin(acl, NoUser, v, "write", x)
  BY <1>5, <1>6, <1>7
<1>9. Members(acl') = Members(acl) /\ acl'.open = acl.open
  BY <1>6, OnlyLocksSound DEF OnlyLocks, IInv
<1>10. DispSound(acl', disp')
  BY <1>1, <1>9, DispStays DEF IInv
<1>11. QED
  BY <1>6, <1>8, <1>10, LocksStep

\* A window comes.
LEMMA CreateStep ==
  ASSUME IInv, NEW w \in Windows \ acl.open, NEW s, Sound(s), Members(s) = Members(acl),
         s.open = acl.open \union {w},
         \A v \in Members(acl) : RightsOf(s, v) \intersect Exists(acl) = RightsOf(acl, v),
         OnlyLocks(s, acl'), DispSound(acl', disp'),
         \A x \in Windows :
           \/ acl'.holder[x] \in {acl.holder[x], NoUser}
           \/ acl'.holder[x] \in Members(acl) /\ MayWin(s, NoUser, acl'.holder[x], "write", x)
  PROVE  StepSound
<1>1. /\ Sound(acl') /\ Members(acl') = Members(acl) /\ acl'.open = acl.open \union {w}
      /\ \A v \in Members(acl) : RightsOf(acl', v) \intersect Exists(acl) = RightsOf(acl, v)
      /\ \A eff, u, b, x : MayWin(acl', eff, u, b, x) = MayWin(s, eff, u, b, x)
  BY OnlyLocksSound
<1>2. Abstract!Next
  BY <1>1, AbsCreate DEF IInv
<1>3. Takes(acl, acl')
  BY <1>1, AccessAssumption DEF Takes
<1>4. QED
  BY <1>1, <1>2, <1>3 DEF StepSound, IInv

\* MakeWindow.
LEMMA MakeWindowSound ==
  ASSUME IInv, NEW d \in Displays, NEW w \in Windows, NEW lock \in Locks, MakeWindow(d, w, lock)
  PROVE  StepSound
<1> DEFINE on == d \in Attached
           u == IF on THEN disp[d].user ELSE Head(acl.users)
<1>1. PICK s : s = [NewWindowAcl(acl, w, u) EXCEPT !.lock[w] = lock]
  OBVIOUS
<1>2. PICK who : who = IF on /\ MayWin(s, NoUser, u, "write", w) THEN u ELSE NoUser
  OBVIOUS
<1>3. PICK t : t = [s EXCEPT !.holder[w] = who]
  OBVIOUS
<1>4. /\ w \notin acl.open /\ acl.users # <<>>
      /\ on => acl' = Obtain(Release(t, {d}), u, w) /\ disp' = [disp EXCEPT ![d].fore = w]
      /\ ~on => acl' = t /\ disp' = disp
  BY <1>1, <1>2, <1>3 DEF MakeWindow
<1>5. u \in Members(acl) /\ (on => u \in Names /\ u = disp[d].user)
  BY <1>4, AttachedIs, HeadIs
<1> HIDE DEF on, u
<1>6. /\ Sound(s) /\ Members(s) = Members(acl) /\ s.open = acl.open \union {w} /\ s.holder = acl.holder
      /\ \A v \in Members(acl) : RightsOf(s, v) \intersect Exists(acl) = RightsOf(acl, v)
  <2>1. Sound(acl) /\ w \in Windows \ acl.open
    BY <1>4 DEF IInv
  <2>2. IsWithWindow(acl, s, w)
    BY <1>5, <1>1, <2>1, NewWindowSound
  <2>3. QED
    BY <2>2 DEF IsWithWindow
<1>7. /\ who \in Members(s) \union {NoUser, Freed} /\ Unknown \notin Members(s)
      /\ who = NoUser \/ (who = u /\ MayWin(s, NoUser, u, "write", w))
  <2>1. Unknown \notin Members(s) /\ u \in Members(s)
    BY <1>5, <1>6 DEF IInv
  <2>2. QED
    BY <1>2, <2>1
<1>8. OnlyLocks(s, t) /\ t.holder = [s.holder EXCEPT ![w] = who]
  <2>1. Sound(s) /\ Unknown \notin Members(s) /\ who \in Members(s) \union {NoUser, Freed}
    BY <1>6, <1>7
  <2> DEFINE holder == [s.holder EXCEPT ![w] = who]
  <2>2. t = [s EXCEPT !.holder = holder]
    BY <1>3
  <2>3. holder \in [Windows -> Members(s) \union {NoUser, Freed}]
    <3>1. s.holder \in [Windows -> Members(s) \union {NoUser, Freed}]
      BY <1>6, Fields DEF Sound, Core, Held
    <3>2. QED
      BY <2>1, <3>1
  <2> HIDE DEF holder
  <2>4. OnlyLocks(s, t) /\ t.holder = holder
    BY <2>1, <2>2, <2>3, LocksAre
  <2>5. QED
    BY <2>4 DEF holder
<1>9. \A x \in Windows : \/ t.holder[x] \in {acl.holder[x], NoUser}
                         \/ t.holder[x] = u /\ MayWin(s, NoUser, u, "write", x)
  <2>1. s.holder \in [Windows -> Names \union {NoUser, Freed}]
    BY <1>6, Fields DEF Sound, Core
  <2>2. QED
    BY <1>6, <1>7, <1>8, <2>1
<1>10. /\ Sound(t) /\ Members(t) = Members(acl) /\ t.open = acl.open \union {w} /\ Unknown \notin Members(t)
      /\ \A eff, v, b, x : MayWin(t, eff, v, b, x) = MayWin(s, eff, v, b, x)
  BY <1>6, <1>8, OnlyLocksSound DEF IInv
<1>11. CASE on
  <2>1. /\ OnlyLocks(t, acl')
        /\ \A x \in Windows : \/ acl'.holder[x] \in {t.holder[x], NoUser}
                              \/ acl'.holder[x] = u /\ MayWin(t, NoUser, u, "write", x)
    <3>1. acl' = Obtain(Release(t, {d}), u, w)
      BY <1>4, <1>11
    <3>2. u \in Members(t) /\ w \in Windows \union {NoWin}
      BY <1>5, <1>10
    <3>3. QED
      BY <1>10, <3>1, <3>2, ReleaseObtain
  <2>2. OnlyLocks(s, acl')
    BY <1>8, <2>1, OnlyLocksTwice
  <2>3. \A x \in Windows :
           \/ acl'.holder[x] \in {acl.holder[x], NoUser}
           \/ acl'.holder[x] \in Members(acl) /\ MayWin(s, NoUser, acl'.holder[x], "write", x)
    BY <1>5, <1>9, <1>10, <2>1
  <2>4. acl' \in Tables /\ Members(acl') = Members(acl) /\ acl'.open = acl.open \union {w}
    BY <1>6, <2>2, OnlyLocksSound DEF OnlyLocks
  <2>5. disp' = [disp EXCEPT ![d] = [user |-> u, fore |-> w]]
    <3>1. disp[d] \in [user : Names \union {NoUser}, fore : Windows \union {NoWin}]
      BY DEF IInv, DispSound
    <3>2. [disp[d] EXCEPT !.fore = w] = [user |-> u, fore |-> w]
      BY <1>5, <1>11, <3>1
    <3>3. QED
      BY <1>4, <1>11, <3>2
  <2>6. DispSound(acl', disp')
    <3>1. /\ u \in (Names \intersect Members(acl')) \union {NoUser} /\ w \in acl'.open \union {NoWin}
          /\ Members(acl) \subseteq Members(acl') /\ acl.open \subseteq acl'.open
      BY <1>5, <1>11, <2>4
    <3>2. QED
      BY <2>4, <2>5, <3>1, DispSet
  <2>7. QED
    BY <1>4, <1>6, <2>2, <2>3, <2>6, CreateStep
<1>12. CASE ~on
  <2>1. acl' = t /\ disp' = disp
    BY <1>4, <1>12
  <2>2. DispSound(acl', disp')
    BY <1>10, <2>1, DispStays DEF IInv
  <2>3. OnlyLocks(s, acl')
    BY <1>8, <2>1
  <2>4. \A x \in Windows :
           \/ acl'.holder[x] \in {acl.holder[x], NoUser}
           \/ acl'.holder[x] \in Members(acl) /\ MayWin(s, NoUser, acl'.holder[x], "write", x)
    BY <1>5, <1>9, <2>1
  <2>5. QED
    BY <1>4, <1>6, <2>2, <2>3, <2>4, CreateStep
<1>13. QED
  BY <1>11, <1>12

\* KillWindow: the displays that come to another window may take its lock.
LEMMA KillWindowSound ==
  ASSUME IInv, NEW w \in Windows, NEW next \in [Displays -> Windows \union {NoWin}],
         KillWindow(w, next)
  PROVE  StepSound
<1> DEFINE s == FreeWindowAcl(acl, w)
           writers(v) == {disp[d].user : d \in {d \in Displays :
                            /\ disp[d].fore = w /\ next[d] = v
                            /\ MayWin(s, NoUser, disp[d].user, "write", v)}}
           taken == {v \in s.open : s.lock[v] = "auto" /\ s.holder[v] = NoUser /\ writers(v) # {}}
<1>1. PICK by \in [taken -> Names] :
        /\ \A v \in taken : by[v] \in writers(v)
        /\ acl' = [s EXCEPT !.holder = [v \in Windows |-> IF v \in taken THEN by[v] ELSE @[v]]]
  BY DEF KillWindow
<1> DEFINE holder == [v \in Windows |-> IF v \in taken THEN by[v] ELSE s.holder[v]]
<1>2. acl' = [s EXCEPT !.holder = holder]
  BY <1>1
<1>3. w \in acl.open
  BY DEF KillWindow
<1>4. \A v \in taken : by[v] \in Members(acl) /\ MayWin(s, NoUser, by[v], "write", v)
  <2> TAKE v \in taken
  <2>1. PICK d \in Displays : by[v] = disp[d].user /\ MayWin(s, NoUser, disp[d].user, "write", v)
    BY <1>1
  <2>2. disp[d].user \in Members(acl) \union {NoUser} /\ by[v] \in Names
    BY <1>1 DEF IInv, DispSound
  <2>3. QED
    BY <2>1, <2>2, AccessAssumption
<1> HIDE DEF taken, writers
<1>5. /\ Sound(s) /\ Members(s) = Members(acl) /\ s.open = acl.open \ {w}
      /\ \A v \in Members(acl) : RightsOf(s, v) = RightsOf(acl, v) \intersect Exists(s)
      /\ \A x \in Windows : s.holder[x] \in {acl.holder[x], NoUser}
  BY FreeWindowSound DEF IInv
<1> HIDE DEF s
<1>6. holder \in [Windows -> Members(s) \union {NoUser, Freed}]
  BY <1>4, <1>5 DEF Sound, Held
<1>7. \A v \in Windows : \/ holder[v] = s.holder[v]
                         \/ holder[v] \in Members(acl) /\ MayWin(s, NoUser, holder[v], "write", v)
  BY <1>4
<1> HIDE DEF holder
<1>8. OnlyLocks(s, acl') /\ acl'.holder = holder
  BY <1>2, <1>5, <1>6, LocksAre DEF IInv
<1>9. /\ Sound(acl') /\ Members(acl') = Members(acl) /\ acl'.open = acl.open \ {w}
      /\ \A v \in Members(acl) : RightsOf(acl', v) = RightsOf(s, v)
      /\ \A eff, u, b, x : MayWin(acl', eff, u, b, x) = MayWin(s, eff, u, b, x)
  BY <1>5, <1>8, OnlyLocksSound
<1>10. \A v \in Members(acl) : RightsOf(acl', v) = RightsOf(acl, v) \intersect Exists(acl')
  BY <1>5, <1>9 DEF Exists
<1>11. Abstract!Next
  BY <1>3, <1>9, <1>10, AbsDestroy DEF IInv
<1>12. Takes(acl, acl')
  <2> SUFFICES ASSUME NEW v \in Windows
               PROVE  \/ acl'.holder[v] \notin Names
                      \/ acl.holder[v] \in {acl'.holder[v], Freed}
                      \/ \E u \in {acl'.holder[v]} \union Remotes :
                           u \in Members(acl') /\ MayWin(acl', NoUser, u, "write", v)
    BY DEF Takes
  <2>1. CASE holder[v] = s.holder[v]
    BY <1>5, <1>8, <2>1, AccessAssumption
  <2>2. CASE holder[v] \in Members(acl) /\ MayWin(s, NoUser, holder[v], "write", v)
    BY <1>8, <1>9, <2>2
  <2>3. QED
    BY <1>7, <2>1, <2>2
<1>13. DispSound(acl', disp')
  <2>1. disp' = [d \in Displays |-> [disp[d] EXCEPT !.fore = next[d]]]
    BY DEF KillWindow
  <2>2. \A d \in Displays : disp[d] \in [user : Names \union {NoUser}, fore : Windows \union {NoWin}]
    BY DEF IInv, DispSound
  <2>3. \A d \in Displays : disp'[d] = [user |-> disp[d].user, fore |-> next[d]]
    BY <2>1, <2>2
  <2>4. \A d \in Displays : next[d] \in (acl.open \ {w}) \union {NoWin}
    <3> TAKE d \in Displays
    <3>1. disp[d].fore \in acl.open \union {NoWin}
      BY DEF IInv, DispSound
    <3>2. IF disp[d].fore = w THEN next[d] # w /\ Readable(disp[d].user, next[d])
          ELSE next[d] = disp[d].fore
      BY DEF KillWindow
    <3>3. Readable(disp[d].user, next[d]) => next[d] \in acl.open \union {NoWin}
      BY DEF Readable
    <3>4. QED
      BY <3>1, <3>2, <3>3, AccessAssumption
  <2>5. \A d \in Displays : disp[d].user \in Members(acl') \union {NoUser}
    BY <1>9 DEF IInv, DispSound
  <2>6. disp' \in [Displays -> [user : Names \union {NoUser}, fore : Windows \union {NoWin}]]
    BY <2>1, <2>2
  <2>7. QED
    BY <1>9, <2>3, <2>4, <2>5, <2>6 DEF DispSound
<1>14. QED
  BY <1>9, <1>11, <1>12, <1>13 DEF StepSound, IInv

\* MakeDisplay, for a user or for the owner who comes back.
LEMMA AttachSound ==
  ASSUME IInv, NEW d \in Displays, NEW u \in Names, NEW w \in Windows \union {NoWin},
         NEW reuse \in BOOLEAN, Attach(d, u, w, reuse)
  PROVE  StepSound
<1> DEFINE s == UserEnsure(acl, u, reuse)
           o == Obtain(s, u, w)
<1>1. /\ acl' = o /\ disp' = [disp EXCEPT ![d] = [user |-> u, fore |-> w]]
      /\ u \in Members(acl) => w \in acl.open \union {NoWin}
      /\ u \notin Members(acl) => w = NoWin
  BY DEF Attach, Readable
<1>2. /\ Adds(acl, s, {u} \ Members(acl)) /\ Sound(s) /\ Unknown \notin Members(s)
      /\ Members(s) = Members(acl) \union {u}
  BY EnsureNamed DEF IInv
<1>3. u \in Members(acl) => s = acl
  BY DEF UserEnsure
<1>4. u \notin Members(acl) => acl' = s
  BY <1>1 DEF Obtain
<1> HIDE DEF s
<1>5. /\ OnlyLocks(s, o)
      /\ \A x \in Windows : \/ o.holder[x] = s.holder[x]
                            \/ o.holder[x] = u /\ MayWin(s, NoUser, u, "write", x)
  BY <1>2, ObtainSound
<1> HIDE DEF o
<1>6. Sound(acl') /\ Members(acl') = Members(acl) \union {u} /\ acl'.open = acl.open
  BY <1>1, <1>2, <1>5, OnlyLocksSound DEF Adds
<1>7. DispSound(acl', disp')
  <2>1. /\ acl' \in Tables /\ u \in (Names \intersect Members(acl')) \union {NoUser}
        /\ w \in acl'.open \union {NoWin}
        /\ Members(acl) \subseteq Members(acl') /\ acl.open \subseteq acl'.open
    BY <1>1, <1>6 DEF Sound, Core
  <2>2. QED
    BY <1>1, <2>1, DispSet
<1>8. CASE u \in Members(acl)
  <2>1. OnlyLocks(acl, acl')
    BY <1>1, <1>3, <1>5, <1>8
  <2>2. \A x \in Windows :
           \/ acl'.holder[x] \in {acl.holder[x], NoUser}
           \/ \E v \in {acl'.holder[x]} \union Remotes : v \in Members(acl) /\ MayWin(acl, NoUser, v, "write", x)
    BY <1>1, <1>3, <1>5, <1>8
  <2>3. QED
    BY <1>7, <2>1, <2>2, LocksStep
<1>9. CASE u \notin Members(acl)
  <2>1. acl' = s
    BY <1>4, <1>9
  <2>2. Stays(s, acl')
    BY <1>2, <2>1 DEF Stays
  <2>3. ({u} \ Members(acl)) \in SUBSET Names /\ ({u} \ Members(acl)) \intersect Members(acl) = {}
    OBVIOUS
  <2>4. QED
    BY <1>2, <1>7, <2>2, <2>3, AddsStep
<1>10. QED
  BY <1>8, <1>9

-----------------------------------------------------------------------------
(* The start: users are added to tables that are empty.                     *)

SoundTables == {s \in Tables : Sound(s) /\ Unknown \notin Members(s)}
StartedIn(par, v, x) == Started(v, x)
F == INSTANCE ListProofs WITH op <- StartedIn

\* The fields of empty tables.
LEMMA NoUsersIs ==
  /\ NoUsers \in Tables /\ NoUsers.users = <<>> /\ NoUsers.used = {} /\ Members(NoUsers) = {}
  /\ NoUsers.grp = [u \in People |-> {}] /\ NoUsers.holder = [w \in Windows |-> NoUser]
  /\ NoUsers.cmd = [c \in Cmds |-> {}] /\ NoUsers.win = [w \in Windows |-> NoBits]
  /\ NoUsers.umask = [u \in People |-> NoBits]
<1>1. NoBits \in [Bits -> SUBSET Nat]
  BY DEF NoBits
<1>2. NoUsers \in Tables
  BY <1>1 DEF NoUsers, Tables, Locks
<1>3. /\ NoUsers.users = <<>> /\ NoUsers.used = {}
      /\ NoUsers.grp = [u \in People |-> {}] /\ NoUsers.holder = [w \in Windows |-> NoUser]
      /\ NoUsers.cmd = [c \in Cmds |-> {}] /\ NoUsers.win = [w \in Windows |-> NoBits]
      /\ NoUsers.umask = [u \in People |-> NoBits]
  BY DEF NoUsers
<1>4. Members(NoUsers) = {}
  BY <1>3 DEF Members, ToSet
<1>5. QED
  BY <1>2, <1>3, <1>4

\* They are sound.
LEMMA NoUsersSound == Sound(NoUsers) /\ Unknown \notin Members(NoUsers)
<1> DEFINE s == NoUsers
<1>1. Within(s)
  BY NoUsersIs DEF Within, NoBits
<1>2. Numbered(s)
  BY NoUsersIs DEF Numbered, IsInjective
<1>3. Linked(s)
  <2>1. \A u \in People : s.grp[u] = {}
    BY NoUsersIs
  <2>2. {} \in SUBSET Names /\ \A x \in {} : s.grp[x] \subseteq {}
    OBVIOUS
  <2>3. \A u \in Names : Lenders(s, u) \subseteq {}
    BY <2>1, <2>2 DEF Lenders, People
  <2>4. QED
    BY <2>1, <2>3 DEF Linked, Acyclic
<1>4. Held(s)
  BY NoUsersIs DEF Held
<1>5. QED
  BY <1>1, <1>2, <1>3, <1>4, NoUsersIs DEF Sound, Core

\* One more user of the start-up file.
LEMMA StartedSound ==
  ASSUME NEW s \in SoundTables, NEW u \in Names
  PROVE  Started(s, u) \in SoundTables /\ u \in Members(Started(s, u))
<1> DEFINE t == Enrol(s, u, FALSE)
<1>1. Sound(s) /\ FALSE \in BOOLEAN
  BY DEF SoundTables
<1>2. Adds(s, t, {u})
  BY <1>1, EnrolSound
<1>3. Started(s, u) = t
  BY DEF Started
<1> HIDE DEF t
<1>4. Sound(t) /\ Members(t) = Members(s) \union {u}
  BY <1>2 DEF Adds
<1>5. Unknown # u /\ Unknown \notin Members(s)
  BY AccessAssumption DEF SoundTables
<1>6. QED
  BY <1>3, <1>4, <1>5 DEF SoundTables, Sound, Core

\* The session starts with sound tables and at least one user.
LEMMA FirstTables ==
  LET s == FoldLeft(Started, NoUsers, <<Owner>> \o Screenrc) IN
  s \in SoundTables /\ Members(s) # {}
<1> DEFINE list == <<Owner>> \o Screenrc
           n == Len(list)
           s == FoldLeft(Started, NoUsers, list)
<1>1. list \in Seq(Names) /\ n \in Nat \ {0} /\ \A i \in 1 .. n : list[i] \in Names
  <2>1. <<Owner>> \in Seq(Names) /\ Len(<<Owner>>) = 1 /\ Screenrc \in Seq(Names) /\ Len(Screenrc) \in Nat
    BY AccessAssumption, LenProperties
  <2>2. list \in Seq(Names) /\ n = 1 + Len(Screenrc)
    BY <2>1, ConcatProperties
  <2>3. QED
    BY <2>1, <2>2, ElementOfSeq
<1>2. NoUsers \in SoundTables
  BY NoUsersSound DEF SoundTables, Sound, Core
<1>3. F!Folded({}, NoUsers, list) = s
  BY DEF F!Folded, StartedIn, F!FoldLeft, FoldLeft, F!MapThenFoldSet, MapThenFoldSet, F!Max, Max
<1> HIDE DEF list, n, s
<1>4. PICK trail :
        /\ trail[0] = NoUsers
        /\ \A k \in 1 .. n : trail[k] = Started(trail[k - 1], list[k])
        /\ trail[n] = s
  <2>1. Len(list) \in Nat /\ DOMAIN list = 1 .. Len(list)
    BY <1>1, LenProperties
  <2>2. \E trail :
          /\ trail[0] = NoUsers
          /\ \A k \in 1 .. Len(list) : trail[k] = Started(trail[k - 1], list[k])
          /\ trail[Len(list)] = F!Folded({}, NoUsers, list)
    BY <2>1, F!FoldLeftSteps DEF StartedIn
  <2>3. QED
    BY <1>3, <2>2 DEF n
<1> DEFINE T == {k \in 0 .. n - 1 : trail[k] \in SoundTables}
<1>5. n - 1 \in T
  <2>1. 0 \in T
    BY <1>1, <1>2, <1>4
  <2>2. ASSUME NEW k \in 0 .. (n - 1) - 1, k \in T PROVE k + 1 \in T
    <3>1. k + 1 \in 1 .. n /\ k + 1 \in 0 .. n - 1 /\ (k + 1) - 1 = k
      BY <1>1
    <3>2. trail[k + 1] = Started(trail[k], list[k + 1]) /\ list[k + 1] \in Names
      BY <1>1, <1>4, <3>1
    <3>3. QED
      BY <2>2, <3>1, <3>2, StartedSound
  <2> HIDE DEF T
  <2>3. n - 1 \in Nat
    BY <1>1
  <2>4. QED
    BY <2>1, <2>2, <2>3, UpTo
<1>6. s = Started(trail[n - 1], list[n]) /\ trail[n - 1] \in SoundTables /\ list[n] \in Names
  <2>1. n \in 1 .. n
    BY <1>1
  <2>2. QED
    BY <1>1, <1>4, <1>5, <2>1
<1>7. s \in SoundTables /\ list[n] \in Members(s)
  BY <1>6, StartedSound
<1>8. QED
  BY <1>7 DEF s, list

\* The first state is sound, and is one that AclRights may start in.
LEMMA InitSound ==
  ASSUME Init
  PROVE  IInv /\ Abstract!Init
<1>1. Sound(acl) /\ Unknown \notin Members(acl) /\ Members(acl) # {}
  BY FirstTables DEF Init, SoundTables
<1>2. DispSound(acl, disp)
  BY DEF Init, DispSound
<1>3. done \in 0 .. MaxCommands
  BY AccessAssumption DEF Init
<1>4. Members(acl) \subseteq Names
  BY <1>1, MembersNamed
<1>5. acl \in Tables /\ acl.open \subseteq Windows
  BY <1>1, Fields DEF Sound, Core
<1>6. Exists(acl) \subseteq Objects
  BY <1>5 DEF Exists, Objects
<1>7. \A u \in Names : RightsOf(acl, u) \subseteq Exists(acl)
  BY <1>5, RightsExist
<1>8. \A u \in Names \ Members(acl) : RightsOf(acl, u) = {}
  BY DEF RightsOf
<1>9. Abstract!Init
  BY <1>1, <1>4, <1>6, <1>7, <1>8 DEF Abstract!Init
<1>10. QED
  BY <1>1, <1>2, <1>3, <1>9 DEF IInv

-----------------------------------------------------------------------------
(* Every step.                                                              *)

\* A freed structure may be found again or not.
LEMMA ReusesIs == Reuses \subseteq BOOLEAN
BY DEF Reuses

\* The commands that are counted.
LEMMA AclCommandSound ==
  ASSUME IInv, AclCommand
  PROVE  StepSound
<1>1. CASE \E u \in Names, reuse \in Reuses : AclAdd(u, reuse)
  BY <1>1, ReusesIs, AclAddSound
<1>2. CASE \E on \in BOOLEAN, b \in Bits :
             \/ \E u \in Members(acl), o \in Everything(acl) : AclChg({u}, on, {b}, {o})
             \/ AclChg(Members(acl) \ {Nobody}, on, {b}, acl.open)
  <2>1. PICK on \in BOOLEAN, b \in Bits :
             \/ \E u \in Members(acl), o \in Everything(acl) : AclChg({u}, on, {b}, {o})
             \/ AclChg(Members(acl) \ {Nobody}, on, {b}, acl.open)
    BY <1>2
  <2>2. \E S, O : AclChg(S, on, {b}, O)
    BY <2>1
  <2>3. QED
    BY <2>2, AclChgSound
<1>3. CASE \E on \in BOOLEAN, b \in Bits, uu \in Maskers, u \in Masked, c \in BOOLEAN :
             Umask(uu, u, on, {b}, c)
  BY <1>3, UmaskSound
<1>4. CASE \E u, v \in Names : AclCopy(u, v)
  BY <1>4, AclCopySound
<1>5. CASE \E u \in Names : AclDel(u)
  BY <1>5, AclDelSound
<1>6. CASE \E u \in Names : AclUnlink(u)
  BY <1>6, AclUnlinkSound
<1>7. CASE \E l \in Links, reuse \in Reuses : AclLinkUser(l[1], l[2], reuse)
  <2>1. PICK l \in Links, reuse \in Reuses : AclLinkUser(l[1], l[2], reuse)
    BY <1>7
  <2>2. l[1] \in Names /\ l[2] \in Names /\ l[1] # l[2]
    BY AccessAssumption
  <2>3. QED
    BY <2>1, <2>2, ReusesIs, AclLinkSound
<1>8. QED
  BY <1>1, <1>2, <1>3, <1>4, <1>5, <1>6, <1>7 DEF AclCommand

\* What displays and windows do.
LEMMA DisplayStepSound ==
  ASSUME IInv, DisplayStep
  PROVE  StepSound
<1>1. CASE \E d \in Displays, u \in Names : Su(d, u)
  BY <1>1, SuSound
<1>2. CASE \E d \in Displays, w \in Windows \union {NoWin} : Switch(d, w)
  BY <1>2, SwitchSound
<1>3. CASE \E d \in Displays, w \in Windows, l \in DefLocks : MakeWindow(d, w, l)
  <2>1. DefLocks \subseteq Locks
    BY AccessAssumption
  <2>2. QED
    BY <1>3, <2>1, MakeWindowSound
<1>4. CASE \E w \in Windows, next \in [Displays -> Windows \union {NoWin}] : KillWindow(w, next)
  BY <1>4, KillWindowSound
<1>5. CASE \E d \in Displays : Typing(d)
  BY <1>5, TypingSound
<1>6. CASE \E d \in Displays : Detach(d)
  BY <1>6, DetachSound
<1>7. CASE \E d \in Displays, eff \in {NoUser} \union Remotes, l \in Locks : Writelock(d, eff, l)
  BY <1>7, WritelockSound
<1>8. CASE \E d \in Displays, u \in Names, w \in Windows \union {NoWin}, reuse \in Reuses :
             Attach(d, u, w, reuse)
  BY <1>8, ReusesIs, AttachSound
<1>9. QED
  BY <1>1, <1>2, <1>3, <1>4, <1>5, <1>6, <1>7, <1>8 DEF DisplayStep

\* Every step leaves sound tables, gives locks to those who may write, and is
\* one of AclRights.
LEMMA NextSound ==
  ASSUME IInv, Next
  PROVE  IInv' /\ StepSound
<1>1. StepSound
  BY AclCommandSound, DisplayStepSound DEF Next
<1>2. done' \in 0 .. MaxCommands
  <2>1. done \in 0 .. MaxCommands /\ MaxCommands \in Nat
    BY AccessAssumption DEF IInv
  <2>2. CASE done < MaxCommands /\ done' = done + 1
    BY <2>1, <2>2
  <2>3. CASE done' = done
    BY <2>1, <2>3
  <2>4. QED
    BY <2>2, <2>3 DEF Next
<1>3. QED
  BY <1>1, <1>2 DEF IInv, StepSound

\* Nothing happens.
LEMMA StutterSound ==
  ASSUME IInv, UNCHANGED vars
  PROVE  IInv' /\ UNCHANGED Abstract!vars
<1>1. acl' = acl /\ disp' = disp /\ done' = done
  BY DEF vars
<1>2. IInv'
  BY <1>1 DEF IInv
<1>3. UNCHANGED Abstract!vars
  BY <1>1 DEF Abstract!vars
<1>4. QED
  BY <1>2, <1>3

\* As many numbers are in use as there are users.
LEMMA NumbersCounted ==
  ASSUME NEW s, Core(s)
  PROVE  Cardinality(s.used) = Len(s.users)
<1> DEFINE n == Len(s.users)
           f == [i \in 1 .. n |-> s.id[s.users[i]]]
<1>1. s.users \in Seq(People)
  BY Fields DEF Core
<1>2. n \in Nat /\ DOMAIN s.users = 1 .. n
  BY <1>1, LenProperties
<1> HIDE DEF n
<1>3. Members(s) = {s.users[i] : i \in 1 .. n}
  BY <1>2 DEF Members, ToSet
<1>4. \A i, j \in 1 .. n : s.users[i] = s.users[j] => i = j
  BY <1>2 DEF Core, Numbered, IsInjective
<1>5. \A i, j \in 1 .. n : f[i] = f[j] => i = j
  BY <1>3, <1>4 DEF Core, Numbered
<1>6. s.used = {f[i] : i \in 1 .. n}
  BY <1>3 DEF Core, Numbered
<1>7. f \in Bijection(1 .. n, s.used)
  BY <1>5, <1>6 DEF Bijection, Injection, Surjection, IsInjective
<1>8. IsFiniteSet(1 .. n) /\ Cardinality(1 .. n) = n
  BY <1>2, FS_Interval
<1> HIDE DEF f
<1>9. ExistsBijection(1 .. n, s.used)
  BY <1>7 DEF ExistsBijection
<1>10. Cardinality(s.used) = n
  BY <1>8, <1>9, FS_Bijection
<1>11. QED
  BY <1>10 DEF n

\* UsersSound is what the invariant says of the tables.
LEMMA InvSound ==
  ASSUME IInv
  PROVE  UsersSound
<1>1. Core(acl) /\ Held(acl) /\ DispSound(acl, disp)
  BY DEF IInv, Sound
<1>2. TypeOK
  BY <1>1 DEF TypeOK, IInv, Core, DispSound
<1>3. NoDanglingUser
  BY <1>1 DEF NoDanglingUser, Core, Linked, Held, DispSound, Attached
<1>4. NumbersUnique
  BY <1>1, NumbersCounted DEF NumbersUnique, Core, Numbered
<1>5. GroupsAcyclic
  BY <1>1 DEF GroupsAcyclic, Core, Linked, Acyclic
<1>6. QED
  BY <1>2, <1>3, <1>4, <1>5 DEF UsersSound

-----------------------------------------------------------------------------
(* The theorems.                                                            *)

\* The invariant: the tables are sound, `?' is no user between two commands,
\* and displays have users and windows that exist.
THEOREM Inductive == Spec => []IInv
<1>1. Init => IInv
  BY InitSound
<1>2. IInv /\ [Next]_vars => IInv'
  BY NextSound, StutterSound
<1>3. QED
  BY <1>1, <1>2, PTL DEF Spec

\* However users are added, linked, removed and added again, only a write lock
\* can point to one who is gone, no two share a number, and no group leads back
\* to itself (UserAdd, UserDel, AclLinkUser).
THEOREM UsersCorrect == Spec => []UsersSound
<1>1. IInv => UsersSound
  BY InvSound
<1>2. QED
  BY <1>1, Inductive, PTL

\* Nobody gets a write lock by himself without the write bit: not by switching
\* to a window, making it or typing into it, nor because another window, user or
\* display goes (ObtainAutoWritelock, ReleaseAutoWritelock, KillWindow).
THEOREM LockCorrect == Spec => LockToWriters
<1>1. IInv /\ [Next]_vars =>
        [\A w \in Windows :
           LET u == acl'.holder[w] IN
           u \in Names /\ acl.holder[w] \notin {u, Freed}
             => \E v \in {u} \union Remotes :
                  v \in Members(acl') /\ MayWin(acl', NoUser, v, "write", w)]_vars
  BY NextSound DEF StepSound, Takes
<1>2. QED
  BY <1>1, Inductive, PTL DEF Spec, LockToWriters

\* The bit fields give every user rights of his own: each command changes the
\* rights of those it names and of nobody else, although numbers are given again
\* and the fields grow (AclRights).
THEOREM RightsCorrect == Spec => OwnRights
<1>1. Init => Abstract!Init
  BY InitSound
<1>2. IInv /\ [Next]_vars => [Abstract!Next]_(Abstract!vars)
  BY NextSound, StutterSound DEF StepSound
<1>3. QED
  BY <1>1, <1>2, Inductive, PTL DEF Spec, OwnRights, Abstract!Spec
=============================================================================
