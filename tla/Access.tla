------------------------------- MODULE Access ------------------------------
(***************************************************************************)
(* Users and their rights: acls.c, and the write locks of window.c and     *)
(* process.c that rest on it.                                              *)
(*                                                                         *)
(* Every user has a number, and every command and every window has bit     *)
(* fields indexed by it.  The number of a user who is removed is given to  *)
(* the next one; when all are in use, all fields grow by USER_CHUNK.  A    *)
(* bit field is modelled as the set of the numbers whose bit is set.       *)
(*                                                                         *)
(* One command changes several fields, may add users on the way and may    *)
(* detach displays: the functions of acls.c are operators from tables to   *)
(* tables, and an action is a composition of them.                         *)
(***************************************************************************)
EXTENDS Naturals, Sequences, FiniteSets, SequencesExt

CONSTANTS
  Names,       \* user names
  Owner,       \* LoginName, the first user
  Screenrc,    \* the users the start-up file adds, in this order
  Nobody,      \* the user `nobody', whose rights are fixed (need not be in Names)
  NobodyCmds,  \* what nobody may do
  NoUser,
  NoWin,       \* no window, or one that is not followed here
  Freed,       \* a pointer to a user structure that has been freed
  Unknown,     \* the user `?', who sets the defaults
  Windows, Displays,
  Cmds,        \* classes of commands: "aclchg", and those nobody may use
  Bits,        \* the bits per window, some of "exec", "write" and "read"
  Maskers, Masked,  \* who gives the umask command, and for whom
  Links,       \* the group links that are made, as <<user, group>>
  DefLocks,    \* the values of defwritelock
  Remotes,     \* users who send commands with -X
  USER_CHUNK,
  MaxIds,      \* bound: no user is added that would need more numbers
  MaxCommands  \* bound: how many commands change the tables

Locks == {"off", "on", "auto"}

ASSUME AccessAssumption ==
  /\ Owner \in Names /\ Screenrc \in Seq(Names) /\ Remotes \subseteq Names
  /\ NoUser \notin Names /\ Freed \notin Names \union {NoUser} /\ Unknown \notin Names
  /\ NoWin \notin Windows /\ Cmds \intersect Windows = {}
  /\ "aclchg" \in Cmds /\ NobodyCmds \subseteq Cmds
  /\ {"exec", "write"} \subseteq Bits /\ Bits \subseteq {"exec", "write", "read"}
  /\ \A l \in Links : l \in Names \X Names /\ l[1] # l[2]
  /\ DefLocks \subseteq Locks /\ USER_CHUNK \in Nat \ {0} /\ MaxCommands \in Nat

VARIABLES
  acl,  \* the tables, see Tables
  disp, \* disp[d]: d_user and d_fore of display d, NoUser when there is none
  done  \* how many commands changed the tables

vars == <<acl, disp, done>>

People == Names \union {Unknown}

Tables ==
  [ users : Seq(People),                        \* the list of users
    id    : [People -> Nat],
    grp   : [People -> SUBSET Names],           \* u_group
    umask : [People -> [Bits -> SUBSET Nat]],   \* u_umask_w_bits
    used  : SUBSET Nat,                         \* userbits
    max   : Nat,                                \* maxusercount
    cmd   : [Cmds -> SUBSET Nat],               \* the exec bits of the commands
    open  : SUBSET Windows,
    win   : [Windows -> [Bits -> SUBSET Nat]],  \* w_userbits
    lock  : [Windows -> Locks],                 \* w_wlock
    holder: [Windows -> Names \union {NoUser, Freed}],  \* w_wlockuser
    defw  : [Bits -> BOOLEAN],                  \* default_w_bit
    defc  : BOOLEAN ]                           \* default_c_bit

Members(s) == ToSet(s.users)
NoBits == [b \in Bits |-> {}]

-----------------------------------------------------------------------------
(* Bit fields and permissions *)

\* GrowBitfield: the bits there are stay, the new ones get the default
GrowBitfield(field, ids, default) == field \union (IF default THEN ids ELSE {})

\* the locks that users lose with the right to write
Withdraw(s, U, W) ==
  LET lost == {w \in W : s.holder[w] \in U} IN
  [s EXCEPT !.holder = [w \in Windows |-> IF w \in lost THEN NoUser ELSE @[w]],
            !.lock = [w \in Windows |-> IF w \in lost /\ @[w] = "on" THEN "auto" ELSE @[w]]]

\* the bits of the numbers of ids, for all commands and windows of O
SetBits(s, ids, on, B, O) ==
  LET put(field) == IF on THEN field \union ids ELSE field \ ids IN
  [s EXCEPT !.cmd = [c \in Cmds |-> IF c \in O /\ "exec" \in B THEN put(@[c]) ELSE @[c]],
            !.win = [w \in Windows |-> [b \in Bits |->
                       IF w \in O /\ b \in B THEN put(@[w][b]) ELSE @[w][b]]]]

\* AclSetPermCmd and AclSetPermWin for all users of U.  A user's bits and locks
\* are his own: the order of the users is the same
AclSetPerm(s, U, on, B, O) ==
  LET t == SetBits(s, {s.id[u] : u \in U}, on, B, O)
  IN IF ~on /\ "write" \in B THEN Withdraw(t, U, O \intersect Windows) ELSE t

Everything(s) == Cmds \union s.open  \* "#?"

\* whose rights u has: his groups, their groups, and so on
Lenders(s, u) ==
  {v \in Names : \A R \in SUBSET Names :
                  s.grp[u] \subseteq R /\ (\A x \in R : s.grp[x] \subseteq R) => v \in R}

\* AclCheckPermWin and AclCheckPermCmd; eff is EffectiveAclUser
Holds(s, u, field) ==
  s.id[u] \in field \/ \E v \in Lenders(s, u) : s.id[v] \in field
Asked(eff, u) == IF eff # NoUser THEN eff ELSE u
MayWin(s, eff, u, b, w) == Holds(s, Asked(eff, u), s.win[w][b])
MayCmd(s, eff, u, c) == Holds(s, Asked(eff, u), s.cmd[c])

-----------------------------------------------------------------------------
(* Adding and removing users *)

FreeIdCounted(s) == Len(s.users)
FreeId(s) == CHOOSE i \in 0 .. s.max : i \notin s.used /\ \A j \in 0 .. i - 1 : j \in s.used

GrowBy(s, ids) ==
  [s EXCEPT
     !.max = @ + USER_CHUNK,
     !.cmd = [c \in Cmds |-> GrowBitfield(@[c], ids, s.defc)],
     !.umask = [u \in People |-> [b \in Bits |->
       IF u \in Members(s) THEN GrowBitfield(@[u][b], ids, s.defw[b]) ELSE {}]],
     !.win = [w \in Windows |-> [b \in Bits |->
       IF w \in s.open THEN GrowBitfield(@[w][b], ids, s.defw[b]) ELSE {}]]]

\* the bit fields are full: all of them grow
Grow(s) == GrowBy(s, s.max .. s.max + USER_CHUNK - 1)

\* a user who is not there gets number i; his structure may lie where a freed
\* one was, to which a window still points
Enter(s, u, i, reuse) ==
  LET g == IF i = s.max THEN Grow(s) ELSE s IN
  [g EXCEPT !.users = Append(@, u), !.id[u] = i, !.grp[u] = {}, !.used = @ \union {i},
            !.umask[u] = [b \in Bits |-> GrowBitfield({i}, 0 .. g.max - 1, g.defw[b])],
            !.holder = [w \in Windows |-> IF @[w] = Freed /\ reuse THEN u ELSE @[w]]]

\* the session's creator has all rights, nobody a fixed set of them
FirstRights(t, u) ==
  IF t.id[u] = 0 THEN AclSetPerm(t, {u}, TRUE, Bits, Everything(t)) ELSE t
NobodysRights(t, u) ==
  IF u # Nobody THEN t
  ELSE AclSetPerm(AclSetPerm(t, {u}, FALSE, Bits, Everything(t)), {u}, TRUE, {"exec"}, NobodyCmds)

UserAddAt(s, u, i, reuse) == NobodysRights(FirstRights(Enter(s, u, i, reuse), u), u)
UserAdd(s, u, reuse) == UserAddAt(s, u, FreeId(s), reuse)
UserEnsure(s, u, reuse) == IF u \in Members(s) THEN s ELSE UserAdd(s, u, reuse)
\* acladd: with all rights
Enrol(s, u, reuse) ==
  LET t == UserEnsure(s, u, reuse) IN AclSetPerm(t, {u}, TRUE, Bits, Everything(t))
Room(s, n) == Cardinality(s.used) + n <= MaxIds - (MaxIds % USER_CHUNK)

\* ReleaseAutoWritelock for the displays of dead, which are about to go
Release(s, dead) ==
  LET keeps(u, w) == \E d \in Displays \ dead : disp[d].user = u /\ disp[d].fore = w
      leaves(u, w) == \E d \in dead : disp[d].user = u /\ disp[d].fore = w
  IN [s EXCEPT !.holder = [w \in Windows |->
        IF s.lock[w] = "auto" /\ @[w] # NoUser /\ leaves(@[w], w) /\ ~keeps(@[w], w)
        THEN NoUser ELSE @[w]]]

\* UserDel after his displays are gone: he leaves the list and the groups, his
\* bits go back to the defaults of the day, his structure is freed
Unlist(s, u) ==
  [s EXCEPT !.users = RemoveFirst(@, u), !.used = @ \ {s.id[u]},
            !.grp = [v \in People |-> IF v = u THEN {} ELSE @[v] \ {u}]]
Reset(s, u) ==
  LET w == AclSetPerm(AclSetPerm(s, {u}, TRUE, {b \in Bits : s.defw[b]}, s.open),
                      {u}, FALSE, {b \in Bits : ~s.defw[b]}, s.open)
  IN AclSetPerm(w, {u}, w.defc, {"exec"}, Cmds)
FreeUser(s, u) ==
  [s EXCEPT !.umask = [v \in People |-> IF v = u THEN NoBits ELSE @[v]], !.id[u] = 0,
            !.holder = [x \in Windows |-> IF @[x] = u THEN Freed ELSE @[x]]]
UserDel(s, u) == FreeUser(Reset(Unlist(s, u), u), u)

\* umask: the rights u will have to windows that uu makes.  For `?' it sets
\* the defaults instead: `?' is added, given the bits, and removed
SetUmask(s, uu, u, on, B) ==
  [s EXCEPT !.umask[uu] = [b \in Bits |-> IF b \notin B THEN @[b]
                                          ELSE IF on THEN @[b] \union {s.id[u]}
                                          ELSE @[b] \ {s.id[u]}]]
\* `?' for windows, `??' for commands, which take the bit of "exec"
SetDefaults(s, uu, on, B, forCmds) ==
  LET t == SetUmask(UserAdd(s, Unknown, FALSE), uu, Unknown, on, B)
      has(b) == t.id[Unknown] \in t.umask[uu][b]
  IN UserDel(IF forCmds THEN [t EXCEPT !.defc = has("exec")]
             ELSE [t EXCEPT !.defw = [b \in Bits |-> has(b)]], Unknown)

-----------------------------------------------------------------------------
(* Commands *)

Attached == {d \in Displays : disp[d].user # NoUser}

\* -X: on the sender's display if he has one
Sender(d, eff) ==
  eff = NoUser \/ /\ eff \in Remotes \intersect Members(acl)
                  /\ \/ disp[d].user = eff
                     \/ \A e \in Attached : disp[e].user # eff

\* the check before every command of a display; commands that are not told
\* apart are in one class with aclchg
Class(c) == IF c \in Cmds THEN c ELSE "aclchg"
Allowed(d, eff, c) ==
  d \in Attached /\ Sender(d, eff) /\ MayCmd(acl, eff, disp[d].user, Class(c))
\* the commands somebody may give; with no display there is no check
Permitted == {c \in Cmds : \/ Attached = {} /\ acl.users # <<>>
                           \/ \E d \in Attached, eff \in {NoUser} \union Remotes : Allowed(d, eff, c)}
\* whose umask it is: the user of the display, or the first user
Speakers == IF Attached = {} THEN {Head(acl.users)}
            ELSE {disp[d].user : d \in {d \in Attached :
                    \E eff \in {NoUser} \union Remotes : Allowed(d, eff, "aclchg")}}

Reuses == IF \E w \in Windows : acl.holder[w] = Freed THEN BOOLEAN ELSE {FALSE}

\* acladd user
AclAdd(u, reuse) ==
  /\ "aclchg" \in Permitted /\ (u = Nobody => u \notin Members(acl))
  /\ u \in Members(acl) \/ Room(acl, 1)
  /\ acl' = Enrol(acl, u, reuse)
  /\ UNCHANGED disp

\* aclchg user +-bits objects, for users who exist, or for all of them (`*'); for one
\* who does not, UserAdd comes first, which is AclAdd
AclChg(S, on, B, O) ==
  /\ "aclchg" \in Permitted
  /\ S \subseteq Members(acl) \ {Nobody} /\ O \subseteq Everything(acl)
  /\ acl' = AclSetPerm(acl, S, on, B, O)
  /\ UNCHANGED disp

\* aclchg u=v: u gets the rights of v
AclCopy(u, v) ==
  /\ "aclchg" \in Permitted /\ {u, v} \subseteq Members(acl) /\ u # v
  /\ LET i == acl.id[u]
         like(field) == IF acl.id[v] \in field THEN field \union {i} ELSE field \ {i}
         t == [acl EXCEPT !.cmd = [c \in Cmds |-> like(@[c])],
                          !.win = [w \in Windows |-> [b \in Bits |-> like(@[w][b])]]]
         lost == {w \in acl.open : "write" \in Bits /\ i \notin t.win[w]["write"]}
     IN acl' = Withdraw(t, {u}, lost)
  /\ UNCHANGED disp

AclDel(u) ==
  /\ "aclchg" \in Permitted /\ u \in Members(acl)
  /\ LET his == {d \in Displays : disp[d].user = u}
     IN /\ acl' = UserDel(Release(acl, his), u)
        /\ disp' = [d \in Displays |-> IF d \in his THEN [user |-> NoUser, fore |-> NoWin]
                                        ELSE disp[d]]

\* the check for cycles looks at what v belongs to
AclLinkUnchecked(u, v, reuse) ==
  /\ "aclchg" \in Permitted
  /\ Room(acl, Cardinality({u, v} \ Members(acl)))
  /\ LET s == UserEnsure(UserEnsure(acl, u, reuse), v, FALSE)
     IN acl' = [s EXCEPT !.grp[u] = @ \union {v}]
  /\ UNCHANGED disp

AclLinkUser(u, v, reuse) ==
  /\ "aclchg" \in Permitted
  /\ Room(acl, Cardinality({u, v} \ Members(acl)))
  /\ LET s == UserEnsure(UserEnsure(acl, u, reuse), v, FALSE)
     IN acl' = IF u \in Lenders(s, v) THEN s ELSE [s EXCEPT !.grp[u] = @ \union {v}]
  /\ UNCHANGED disp

\* aclgrp user none
AclUnlink(u) ==
  /\ "aclchg" \in Permitted /\ u \in Members(acl)
  /\ acl' = [acl EXCEPT !.grp[u] = {}]
  /\ UNCHANGED disp

Umask(uu, u, on, B, forCmds) ==
  /\ acl.users # <<>> /\ uu \in Speakers
  /\ \/ /\ u \in Members(acl) \ {Nobody} /\ ~forCmds
        /\ acl' = SetUmask(acl, uu, u, on, B)
     \/ /\ u = Unknown /\ Room(acl, 1)
        /\ acl' = SetDefaults(acl, uu, on, B, forCmds)
  /\ UNCHANGED disp

\* DoSu succeeds when the passwords match
Su(d, u) ==
  /\ Allowed(d, NoUser, "su") /\ u \in Members(acl) /\ u # disp[d].user
  /\ disp' = [disp EXCEPT ![d].user = u]
  /\ UNCHANGED acl

-----------------------------------------------------------------------------
(* Windows, displays and write locks *)

ObtainAlways(s, u, w) ==
  IF w # NoWin /\ s.lock[w] = "auto" /\ s.holder[w] = NoUser
  THEN [s EXCEPT !.holder[w] = u] ELSE s

\* ObtainAutoWritelock
Obtain(s, u, w) ==
  IF w # NoWin /\ s.lock[w] = "auto" /\ s.holder[w] = NoUser /\ MayWin(s, NoUser, u, "write", w)
  THEN [s EXCEPT !.holder[w] = u] ELSE s

Readable(u, w) == w = NoWin \/ (w \in acl.open /\ ("read" \in Bits => MayWin(acl, NoUser, u, "read", w)))

\* SwitchWindow, and SetForeWindow(0) for `select -'
Switch(d, w) ==
  /\ d \in Attached /\ w # disp[d].fore /\ Readable(disp[d].user, w)
  /\ acl' = Obtain(Release(acl, {d}), disp[d].user, w)
  /\ disp' = [disp EXCEPT ![d].fore = w]

\* a new window has the bits of its maker's umask
NewWindowAcl(s, w, u) == [s EXCEPT !.open = @ \union {w}, !.win[w] = s.umask[u]]
FreeWindowAcl(s, w) ==
  [s EXCEPT !.open = @ \ {w}, !.win[w] = NoBits, !.lock[w] = "off", !.holder[w] = NoUser]

\* MakeWindow, from a display or (none) before there is one
MakeWindow(d, w, lock) ==
  /\ w \notin acl.open /\ acl.users # <<>>
  /\ IF d \in Attached THEN Allowed(d, NoUser, "aclchg") ELSE Attached = {}
  /\ LET u == IF d \in Attached THEN disp[d].user ELSE Head(acl.users)
         s == [NewWindowAcl(acl, w, u) EXCEPT !.lock[w] = lock]
         mine == d \in Attached /\ MayWin(s, NoUser, u, "write", w)
         t == [s EXCEPT !.holder[w] = IF mine THEN u ELSE NoUser]
     IN IF d \in Attached
        THEN /\ acl' = Obtain(Release(t, {d}), u, w)
             /\ disp' = [disp EXCEPT ![d].fore = w]
        ELSE acl' = t /\ UNCHANGED disp

\* KillWindow: each display of w goes to another window that its user may see,
\* if one is left (next); the first to come to a window takes its lock
KillWindow(w, next) ==
  /\ w \in acl.open
  /\ \A d \in Displays : IF disp[d].fore = w
                         THEN next[d] # w /\ Readable(disp[d].user, next[d])
                         ELSE next[d] = disp[d].fore
  /\ LET s == FreeWindowAcl(acl, w)
         writers(v) == {disp[d].user : d \in {d \in Displays :
                          /\ disp[d].fore = w /\ next[d] = v
                          /\ MayWin(s, NoUser, disp[d].user, "write", v)}}
         taken == {v \in s.open : s.lock[v] = "auto" /\ s.holder[v] = NoUser /\ writers(v) # {}}
     IN \E by \in [taken -> Names] :
          /\ \A v \in taken : by[v] \in writers(v)
          /\ acl' = [s EXCEPT !.holder = [v \in Windows |-> IF v \in taken THEN by[v] ELSE @[v]]]
  /\ disp' = [d \in Displays |-> [disp[d] EXCEPT !.fore = next[d]]]

\* WinProcess: who types into a window without a holder gets its lock
Typing(d) ==
  /\ d \in Attached /\ disp[d].fore # NoWin
  /\ acl' = Obtain(acl, disp[d].user, disp[d].fore)
  /\ UNCHANGED disp

\* writelock on|off|auto: the permission is that of the sender, the lock goes
\* to the user of the display
Writelock(d, eff, lock) ==
  LET w == disp[d].fore IN
  /\ Allowed(d, eff, "aclchg") /\ w # NoWin
  /\ acl' = [acl EXCEPT !.lock[w] = lock,
               !.holder[w] = IF MayWin(acl, eff, disp[d].user, "write", w)
                             THEN disp[d].user ELSE @]
  /\ UNCHANGED disp

\* MakeDisplay, with the window that is found for it; the owner is added again
\* if he was removed
Attach(d, u, w, reuse) ==
  /\ d \notin Attached /\ acl.users # <<>>
  /\ u \in Members(acl) \/ (u = Owner /\ Room(acl, 1))
  /\ u \in Members(acl) => Readable(u, w)
  /\ u \notin Members(acl) => w = NoWin
  /\ acl' = Obtain(UserEnsure(acl, u, reuse), u, w)
  /\ disp' = [disp EXCEPT ![d] = [user |-> u, fore |-> w]]

Detach(d) ==
  /\ d \in Attached
  /\ acl' = Release(acl, {d})
  /\ disp' = [disp EXCEPT ![d] = [user |-> NoUser, fore |-> NoWin]]

NoUsers ==
  [ users |-> <<>>, id |-> [u \in People |-> 0], grp |-> [u \in People |-> {}],
    umask |-> [u \in People |-> NoBits], used |-> {}, max |-> 0,
    cmd |-> [c \in Cmds |-> {}], open |-> {}, win |-> [w \in Windows |-> NoBits],
    lock |-> [w \in Windows |-> "off"], holder |-> [w \in Windows |-> NoUser],
    defw |-> [b \in Bits |-> TRUE], defc |-> FALSE ]

Started(s, u) == Enrol(s, u, FALSE)

Init ==
  /\ acl = FoldLeft(Started, NoUsers, <<Owner>> \o Screenrc)
  /\ disp = [d \in Displays |-> [user |-> NoUser, fore |-> NoWin]]
  /\ done = 0

AclCommand ==
  \/ \E u \in Names, reuse \in Reuses : AclAdd(u, reuse)
  \/ \E on \in BOOLEAN, b \in Bits :
       \/ \E u \in Members(acl), o \in Everything(acl) : AclChg({u}, on, {b}, {o})
       \/ AclChg(Members(acl) \ {Nobody}, on, {b}, acl.open)
       \/ \E uu \in Maskers, u \in Masked, c \in BOOLEAN : Umask(uu, u, on, {b}, c)
  \/ \E u, v \in Names : AclCopy(u, v)
  \/ \E u \in Names : AclDel(u) \/ AclUnlink(u)
  \/ \E l \in Links, reuse \in Reuses : AclLinkUser(l[1], l[2], reuse)

DisplayStep ==
  \/ \E d \in Displays, u \in Names : Su(d, u)
  \/ \E d \in Displays, w \in Windows \union {NoWin} : Switch(d, w)
  \/ \E d \in Displays, w \in Windows, l \in DefLocks : MakeWindow(d, w, l)
  \/ \E w \in Windows, next \in [Displays -> Windows \union {NoWin}] : KillWindow(w, next)
  \/ \E d \in Displays : Typing(d) \/ Detach(d)
  \/ \E d \in Displays, eff \in {NoUser} \union Remotes, l \in Locks : Writelock(d, eff, l)
  \/ \E d \in Displays, u \in Names, w \in Windows \union {NoWin}, reuse \in Reuses :
       Attach(d, u, w, reuse)

Next ==
  \/ done < MaxCommands /\ AclCommand /\ acl' # acl /\ done' = done + 1
  \/ DisplayStep /\ UNCHANGED done

Spec == Init /\ [][Next]_vars

-----------------------------------------------------------------------------
(* Properties *)

\* The tables keep their shape, and no bit is set above maxusercount, where
\* the fields end.
Within(s) ==
  LET below == 0 .. s.max - 1 IN
  /\ s.used \subseteq below
  /\ \A c \in Cmds : s.cmd[c] \subseteq below
  /\ \A b \in Bits : /\ \A w \in Windows : s.win[w][b] \subseteq below
                    /\ \A u \in People : s.umask[u][b] \subseteq below
TypeOK ==
  /\ acl \in Tables /\ done \in 0 .. MaxCommands /\ Within(acl)
  /\ disp \in [Displays -> [user : Names \union {NoUser}, fore : Windows \union {NoWin}]]

NoDanglingUser ==
  /\ \A u \in People : acl.grp[u] \subseteq Members(acl)
  /\ \A d \in Attached : disp[d].user \in Members(acl)
  /\ \A d \in Attached : disp[d].fore \in acl.open \union {NoWin}
  /\ \A w \in Windows : acl.holder[w] \in Members(acl) \union {NoUser, Freed}
NumbersUnique ==
  /\ acl.used = {acl.id[u] : u \in Members(acl)}
  /\ Cardinality(acl.used) = Len(acl.users)
GroupsAcyclic == \A u \in Names : u \notin Lenders(acl, u)

\* Nothing but a write lock points to a user who has been removed (UserDel
\* unlinks him everywhere else), no two users share a number, and the groups
\* through which permissions are looked up never lead back to where they
\* started, however users are linked, removed and added again ("Cyclic links
\* are prevented", AclLinkUser; a user linked to himself is not in Links: the
\* check does not see him).
UsersSound == TypeOK /\ NoDanglingUser /\ NumbersUnique /\ GroupsAcyclic

\* "he may never aquire the lock himself without write permission"
\* (RC_WRITELOCK), nor by switching to a window, making it or typing into it.
\* The exceptions are a command sent with -X, where the permission is that of
\* the sender, and a dangling lock, which a new user may find to be his.
LockToWriters ==
  [][\A w \in Windows :
       LET u == acl'.holder[w] IN
       u \in Names /\ acl.holder[w] \notin {u, Freed}
         => \E v \in {u} \union Remotes :
              v \in Members(acl') /\ MayWin(acl', NoUser, v, "write", w)]_vars

\* The bit fields give every user rights of his own: the functions of acls.c
\* change those they are asked to change (AclRights), although numbers are
\* given again and all fields are copied when they grow.
Objects == (Cmds \X {"exec"}) \union (Windows \X Bits)
Exists(s) == (Cmds \X {"exec"}) \union (s.open \X Bits)
RightsOf(s, u) ==
  IF u \notin Members(s) THEN {}
  ELSE {<<c, "exec">> : c \in {c \in Cmds : s.id[u] \in s.cmd[c]}}
       \union {o \in s.open \X Bits : s.id[u] \in s.win[o[1]][o[2]]}
Abstract == INSTANCE AclRights WITH
  members <- Members(acl), rights <- [u \in Names |-> RightsOf(acl, u)], exists <- Exists(acl)
OwnRights == Abstract!Spec
=============================================================================
