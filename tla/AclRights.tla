----------------------------- MODULE AclRights -----------------------------
(***************************************************************************)
(* What the access control of a session promises, without bit fields and   *)
(* without numbers for users: every user has rights of his own, and a      *)
(* command changes the rights of those it names and of nobody else.        *)
(* Adding a user, removing one, and a new window leave the rights of all   *)
(* others as they are.  Access implements it.                              *)
(***************************************************************************)
CONSTANTS
  Names,    \* everybody who can ever be a user
  Objects   \* what a user can have a right to: <<command, "exec">>, <<window, bit>>

VARIABLES
  members,  \* the users of the session
  rights,   \* rights[u]: his own, without those lent by groups
  exists    \* the objects there are: windows come and go

vars == <<members, rights, exists>>

TypeOK ==
  /\ members \subseteq Names
  /\ exists \subseteq Objects
  /\ rights \in [Names -> SUBSET Objects]

Init ==
  /\ members \subseteq Names /\ members # {} /\ exists \subseteq Objects
  /\ rights \in [Names -> SUBSET exists]
  /\ \A u \in Names \ members : rights[u] = {}

\* new users come with whatever the defaults or the command give them
Add ==
  /\ members \subseteq members' /\ members # members'
  /\ exists' = exists
  /\ rights' \in [Names -> SUBSET exists]
  /\ \A u \in Names : u \in members \/ u \notin members' => rights'[u] = rights[u]

Remove ==
  \E u \in members :
    /\ members' = members \ {u} /\ exists' = exists
    /\ rights' = [rights EXCEPT ![u] = {}]

\* some users are given, or denied, the same objects
Give(O) ==
  /\ members' = members /\ exists' = exists
  /\ \A u \in Names : rights'[u] \in {rights[u], IF u \in members THEN rights[u] \union O ELSE {}}
Deny(O) ==
  /\ members' = members /\ exists' = exists
  /\ \A u \in Names : rights'[u] \in {rights[u], rights[u] \ O}

\* a user gets the rights of another one
Copy ==
  /\ members' = members /\ exists' = exists
  /\ \E u, v \in members : rights' = [rights EXCEPT ![v] = rights[u]]

\* new objects: nobody's rights to the others change
Create ==
  /\ exists \subseteq exists' /\ exists # exists' /\ members' = members
  /\ \A u \in Names :
       /\ rights'[u] \subseteq exists' /\ rights'[u] \intersect exists = rights[u]
       /\ u \notin members => rights'[u] = {}

Destroy ==
  /\ exists' \subseteq exists /\ exists # exists' /\ members' = members
  /\ rights' = [u \in Names |-> rights[u] \intersect exists']

Next ==
  \/ Add \/ Remove \/ Create \/ Destroy
  \/ \E O \in SUBSET exists : Give(O) \/ Deny(O)
  \/ Copy

Spec == Init /\ [][Next]_vars
=============================================================================
