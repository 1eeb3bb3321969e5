-------------------------- MODULE Contributors_proofs --------------------------
(***************************************************************************)
(* Proofs about Contributors, for any set of accounts, permissions and     *)
(* threads.  What the rows, groups and records owe each other holds        *)
(* however the requests overlap; that an admin and a visible contributor   *)
(* remain holds while they do not.                                         *)
(***************************************************************************)
EXTENDS Contributors, FiniteSetTheorems, TLAPS

\* The groups g give each of the users cs one permission, and others none.
Fits(g, cs) ==
  /\ g \in [Permissions -> SUBSET Users]
  /\ \A u \in cs :
       \E p \in Permissions : \A q \in Permissions : u \in g[q] <=> q = p
  /\ \A p \in Permissions : g[p] \subseteq cs

\* The inductive invariant.
ContributorsInv ==
  /\ TypeOK
  /\ OnePermissionEach
  /\ UnregisteredIsClaimable

\* A step keeps in unsaved whoever it leaves an unregistered contributor.
UnsavedKept ==
  /\ unsaved' \subseteq Users
  /\ unsaved \cap (contributors' \ (registered' \cup disabled')) \subseteq unsaved'

\* A merge into self leaves it registered, disabled or unsaved.
MergeRegisters(self) ==
  /\ registered' \subseteq Users /\ registered \subseteq registered'
  /\ self \in contributors' => self \in registered' \cup disabled' \cup unsaved'

-----------------------------------------------------------------------------
(* What the writers of the groups do to them.                              *)

LEMMA FitsNow == TypeOK /\ OnePermissionEach => Fits(group, contributors)
BY DEF TypeOK, OnePermissionEach, Fits

LEMMA FitsNext ==
  Fits(group', contributors') => OnePermissionEach'
BY DEF OnePermissionEach, Fits

\* clear_permissions and add_permission leave each of the users the new one.
LEMMA FitsSet ==
  ASSUME NEW cs \in SUBSET Users, Fits(group, cs),
         NEW users \in SUBSET Users,
         NEW permission \in [users -> Permissions]
  PROVE  Fits(SetPermissions(permission), cs \cup users)
<1> DEFINE g == SetPermissions(permission)
<1>1. \A p \in Permissions :
        g[p] = (group[p] \ users) \cup {u \in users : permission[u] = p}
  BY DEF SetPermissions
<1>2. g \in [Permissions -> SUBSET Users]
  BY DEF SetPermissions, Fits
<1>3. ASSUME NEW u \in cs \cup users
      PROVE  \E p \in Permissions : \A q \in Permissions : u \in g[q] <=> q = p
  <2>1. CASE u \in users
    <3>1. /\ permission[u] \in Permissions
          /\ \A q \in Permissions : u \in g[q] <=> q = permission[u]
      BY <2>1, <1>1
    <3> QED
      BY <3>1
  <2>2. CASE u \notin users
    <3>1. \A q \in Permissions : u \in g[q] <=> u \in group[q]
      BY <2>2, <1>1
    <3> QED
      BY <2>2, <3>1 DEF Fits
  <2> QED
    BY <2>1, <2>2
<1>4. \A p \in Permissions : g[p] \subseteq cs \cup users
  BY <1>1 DEF Fits
<1> QED
  BY <1>2, <1>3, <1>4 DEF Fits

\* clear_permissions leaves the others theirs.
LEMMA FitsCleared ==
  ASSUME NEW g, NEW cs \in SUBSET Users, Fits(g, cs), NEW users
  PROVE  Fits([p \in Permissions |-> g[p] \ users], cs \ users)
BY DEF Fits

\* replace_contributor gives the new user what the old one had.
LEMMA FitsReplaced ==
  ASSUME NEW cs \in SUBSET Users, Fits(group, cs),
         NEW old \in cs, NEW new \in Users \ cs
  PROVE  Fits([p \in Permissions |->
                 IF old \in group[p] THEN (group[p] \ {old}) \cup {new}
                 ELSE group[p]],
              (cs \ {old}) \cup {new})
<1> DEFINE g == [p \in Permissions |->
                   IF old \in group[p] THEN (group[p] \ {old}) \cup {new}
                   ELSE group[p]]
<1>1. \A q \in Permissions : new \in g[q] <=> old \in group[q]
  BY DEF Fits
<1>2. \A u \in cs \ {old} : \A q \in Permissions : u \in g[q] <=> u \in group[q]
  BY DEF Fits
<1>3. \A p \in Permissions : g[p] \subseteq (cs \ {old}) \cup {new}
  BY DEF Fits
<1>4. g \in [Permissions -> SUBSET Users]
  BY DEF Fits
<1> HIDE DEF g
<1>5. ASSUME NEW u \in (cs \ {old}) \cup {new}
      PROVE  \E p \in Permissions : \A q \in Permissions : u \in g[q] <=> q = p
  BY <1>1, <1>2 DEF Fits
<1> QED
  BY <1>3, <1>4, <1>5 DEF Fits, g

\* A contributor's level is the one permission that it has.
LEMMA LevelIsOne ==
  ASSUME TypeOK, OnePermissionEach, NEW u \in contributors
  PROVE  /\ Level(u) \in Permissions
         /\ \A q \in Permissions : u \in group[q] <=> q = Level(u)
<1>1. PICK p \in Permissions : \A q \in Permissions : u \in group[q] <=> q = p
  BY DEF OnePermissionEach
<1>2. Rank(p) <= Rank(p)
  BY DEF Rank
<1>3. \A r \in Permissions :
        (/\ u \in group[r]
         /\ \A q \in Permissions : u \in group[q] => Rank(q) <= Rank(r))
          <=> r = p
  BY <1>1, <1>2
<1>4. Level(u) = p
  BY <1>3 DEF Level
<1> QED
  BY <1>1, <1>4

\* Of a set of accounts with more than one, one is not u.
LEMMA AnotherOne ==
  ASSUME NEW S \in SUBSET Users, NEW u, Cardinality(S) > 1
  PROVE  \E w \in S : w # u
<1> SUFFICES ASSUME \A w \in S : w = u PROVE FALSE
  OBVIOUS
<1>1. S = {} \/ S = {u}
  OBVIOUS
<1>2. Cardinality({}) = 0 /\ Cardinality({u}) = 1
  BY FS_EmptySet, FS_Singleton
<1> QED
  BY <1>1, <1>2

-----------------------------------------------------------------------------
(* The invariant, one lemma for each kind of request.                      *)

\* What waits to be written has its types.
LEMMA PendingTypes ==
  ASSUME TypeOK, NEW t \in Threads
  PROVE  /\ thread[t].op = "update" =>
              /\ thread[t].user \in Users /\ thread[t].permission \in Permissions
              /\ thread[t].changed \in BOOLEAN /\ thread[t].visible \in BOOLEAN
         /\ thread[t].op = "remove" => thread[t].user \in Users
BY DEF TypeOK, Idle, Pending

\* Requests that touch no row, group or account of the resource.
LEMMA ThreadSteps ==
  ASSUME ContributorsInv, UnsavedKept, UNCHANGED <<people, accounts, spared>>,
         thread' \in [Threads -> {Idle} \cup Pending]
  PROVE  ContributorsInv'
BY DEF ContributorsInv, people, accounts, TypeOK, OnePermissionEach,
       UnregisteredIsClaimable, UnsavedKept

\* add_contributor adds the account a merged one was merged into.
LEMMA AddKeeps ==
  ASSUME ContributorsInv, UnsavedKept, NEW t \in Threads, NEW u \in Users,
         NEW permission \in Permissions, NEW isVisible \in BOOLEAN,
         AddContributor(t, u, permission, isVisible)
  PROVE  ContributorsInv'
<1> DEFINE new == Master(u)
<1>1. TypeOK /\ Fits(group, contributors)
  BY FitsNow DEF ContributorsInv
<1>2. /\ new \in Users
      /\ mergedBy[u] = None => new = u
      /\ mergedBy[u] # None => new = mergedBy[u]
  BY <1>1 DEF Master, TypeOK
<1> HIDE DEF new
<1>3. contributors' = contributors \cup {new}
  BY DEF AddContributor, new
<1>4. visible' \subseteq visible \cup {new} /\ visible' \subseteq contributors'
  BY <1>1, <1>3 DEF AddContributor, TypeOK, new
<1>5. Fits(group', contributors')
  <2>1. [w \in {new} |-> permission] \in [{new} -> Permissions]
    OBVIOUS
  <2>2. group' = SetPermissions([w \in {new} |-> permission])
    BY DEF AddContributor, new
  <2>3. contributors \in SUBSET Users /\ {new} \in SUBSET Users
    BY <1>1, <1>2 DEF TypeOK
  <2> QED
    BY <1>1, <1>3, <2>1, <2>2, <2>3, FitsSet
<1>6. TypeOK'
  <2>1. unclaimed' \subseteq Users
    BY <1>1 DEF AddContributor, TypeOK
  <2>2. UNCHANGED <<registered, disabled, mergedBy, spared, thread>>
    BY DEF AddContributor
  <2> QED
    BY <1>1, <1>2, <1>3, <1>4, <1>5, <2>1, <2>2 DEF TypeOK, Fits, UnsavedKept
<1>7. UnregisteredIsClaimable'
  <2>1. new \in registered' \cup unclaimed' /\ unclaimed \subseteq unclaimed'
    BY DEF AddContributor, new
  <2> QED
    BY <1>3, <2>1 DEF AddContributor, ContributorsInv, UnregisteredIsClaimable,
                      UnsavedKept
<1> QED
  BY <1>5, <1>6, <1>7, FitsNext DEF ContributorsInv

\* A 400 keeps the records it made.
LEMMA AddRefusedKeeps ==
  ASSUME ContributorsInv, UnsavedKept, NEW t \in Threads, NEW u \in Users,
         AddRefused(t, u)
  PROVE  ContributorsInv'
BY DEF AddRefused, ContributorsInv, people, TypeOK, OnePermissionEach,
       UnregisteredIsClaimable, UnsavedKept

\* update_contributor gives a contributor the permission it asked for.
LEMMA UpdateKeeps ==
  ASSUME ContributorsInv, UnsavedKept, NEW t \in Threads, UpdateWritten(t)
  PROVE  ContributorsInv'
<1> DEFINE r == thread[t]
<1>1. TypeOK /\ Fits(group, contributors)
  BY FitsNow DEF ContributorsInv
<1>2. r.user \in Users /\ r.permission \in Permissions
  BY <1>1, PendingTypes DEF UpdateWritten
<1>3. /\ r.user \in contributors
      /\ UNCHANGED <<contributors, accounts, spared>>
      /\ thread' = [thread EXCEPT ![t] = Idle]
  BY DEF UpdateWritten, MaySetVisible
<1>4. visible' \subseteq contributors
  BY <1>1, <1>3 DEF UpdateWritten, TypeOK
<1>5. Fits(group', contributors')
  <2>1. CASE group' = group
    BY <1>1, <1>3, <2>1
  <2>2. CASE group' = SetPermissions([u \in {r.user} |-> r.permission])
    <3>1. [u \in {r.user} |-> r.permission] \in [{r.user} -> Permissions]
      BY <1>2
    <3>2. contributors \in SUBSET Users /\ {r.user} \in SUBSET Users
      BY <1>1, <1>2 DEF TypeOK
    <3>3. contributors \cup {r.user} = contributors
      BY <1>3
    <3>4. Fits(group', contributors \cup {r.user})
      BY <1>1, <2>2, <3>1, <3>2, FitsSet
    <3> QED
      BY <1>3, <3>3, <3>4
  <2> QED
    BY <2>1, <2>2 DEF UpdateWritten
<1>6. TypeOK'
  BY <1>1, <1>3, <1>4, <1>5 DEF TypeOK, Fits, UnsavedKept, accounts
<1>7. UnregisteredIsClaimable'
  BY <1>3 DEF ContributorsInv, UnregisteredIsClaimable, UnsavedKept, accounts
<1> QED
  BY <1>5, <1>6, <1>7, FitsNext DEF ContributorsInv

\* remove_contributor takes the rows, the groups and the records together.
LEMMA RemovedKeeps ==
  ASSUME ContributorsInv, UnsavedKept, NEW u \in Users, Removed({u}),
         UNCHANGED <<registered, mergedBy>>, disabled' \in SUBSET Users,
         disabled \subseteq disabled',
         thread' \in [Threads -> {Idle} \cup Pending]
  PROVE  ContributorsInv'
<1>1. TypeOK /\ Fits(group, contributors)
  BY FitsNow DEF ContributorsInv
<1>2. Fits(group', contributors')
  BY <1>1, FitsCleared DEF Removed, ClearPermissions, TypeOK
<1>3. TypeOK'
  BY <1>1, <1>2 DEF Removed, TypeOK, Fits, UnsavedKept
<1>4. UnregisteredIsClaimable'
  BY DEF ContributorsInv, UnregisteredIsClaimable, UnsavedKept, Removed
<1> QED
  BY <1>2, <1>3, <1>4, FitsNext DEF ContributorsInv

\* A refused removal may take the record, of somebody it then spares.
LEMMA SparedKeeps ==
  ASSUME ContributorsInv, UnsavedKept, NEW u \in Users,
         unclaimed' = unclaimed \ {u}, spared' = spared \cup {u},
         UNCHANGED <<people, registered, mergedBy>>,
         disabled' \in SUBSET Users, disabled \subseteq disabled',
         thread' \in [Threads -> {Idle} \cup Pending]
  PROVE  ContributorsInv'
BY DEF ContributorsInv, people, TypeOK, OnePermissionEach,
       UnregisteredIsClaimable, UnsavedKept

\* manage_contributors: who is not given goes, but perhaps one who stays.
LEMMA ManageKeeps ==
  ASSUME ContributorsInv, UnsavedKept, NEW t \in Threads, NEW dicts \in UserDicts,
         ManageContributors(t, dicts)
  PROVE  ContributorsInv'
<1> DEFINE given   == DOMAIN dicts
           changed == {u \in given : u \notin group[dicts[u].permission]}
           groups  == SetPermissions([u \in changed |-> dicts[u].permission])
           shown   == visible \cup {u \in given : dicts[u].visible}
           left    == shown \ {u \in given : ~dicts[u].visible}
           removed == contributors \ given
<1>1. TypeOK /\ Fits(group, contributors)
  BY FitsNow DEF ContributorsInv
<1>2. given \subseteq contributors /\ \A u \in given : dicts[u].permission \in Permissions
  BY DEF UserDicts
<1>3. Fits(groups, contributors)
  <2>1. [u \in changed |-> dicts[u].permission] \in [changed -> Permissions]
    BY <1>2
  <2>2. /\ contributors \in SUBSET Users /\ changed \in SUBSET Users
        /\ contributors \cup changed = contributors
    BY <1>1, <1>2 DEF TypeOK
  <2>3. Fits(groups, contributors \cup changed)
    BY <1>1, <2>1, <2>2, FitsSet
  <2> QED
    BY <2>2, <2>3
<1>4. left \subseteq contributors
  BY <1>1, <1>2 DEF TypeOK
<1>5. PICK stays :
        /\ contributors' = contributors \ (removed \ {stays})
        /\ visible' = left \ (removed \ {stays})
        /\ group' = [p \in Permissions |-> groups[p] \ (removed \ {stays})]
        /\ unclaimed' = unclaimed \ removed
        /\ spared' = (spared \ (removed \ {stays})) \cup (removed \cap {stays})
  BY DEF ManageContributors
<1>6. UNCHANGED <<registered, disabled, mergedBy, thread>>
  BY DEF ManageContributors
<1> HIDE DEF groups, left, removed
<1>7. Fits(group', contributors')
  BY <1>1, <1>3, <1>5, FitsCleared DEF TypeOK
<1>8. TypeOK'
  BY <1>1, <1>4, <1>5, <1>6, <1>7 DEF TypeOK, Fits, UnsavedKept, removed
<1>9. UnregisteredIsClaimable'
  BY <1>5, <1>6 DEF ContributorsInv, UnregisteredIsClaimable, UnsavedKept
<1> QED
  BY <1>7, <1>8, <1>9, FitsNext DEF ContributorsInv

\* claim_user_registered puts an active account in the place of another.
LEMMA ClaimRegisteredKeeps ==
  ASSUME ContributorsInv, UnsavedKept, NEW t \in Threads, NEW u \in Users,
         NEW new \in Users, ClaimRegistered(t, u, new)
  PROVE  ContributorsInv'
<1>1. TypeOK /\ Fits(group, contributors)
  BY FitsNow DEF ContributorsInv
<1>2. /\ u \in contributors /\ new \notin contributors
      /\ new \in registered /\ mergedBy[new] = None
      /\ UNCHANGED <<registered, disabled, mergedBy, thread>>
  BY DEF ClaimRegistered, Active
<1>3. /\ contributors' = (contributors \ {u}) \cup {new}
      /\ visible' \subseteq (visible \ {u}) \cup {new}
      /\ unclaimed' = unclaimed \ {u} /\ spared' = spared \ {u}
  BY <1>2 DEF ClaimRegistered, Replace
<1>4. group' = [p \in Permissions |->
                  IF u \in group[p] THEN (group[p] \ {u}) \cup {new}
                  ELSE group[p]]
  BY DEF ClaimRegistered, Replace
<1>5. Fits(group', contributors')
  BY <1>1, <1>2, <1>3, <1>4, FitsReplaced DEF TypeOK
<1>6. TypeOK'
  BY <1>1, <1>2, <1>3, <1>5 DEF TypeOK, Fits, UnsavedKept
<1>7. UnregisteredIsClaimable'
  BY <1>2, <1>3 DEF ContributorsInv, UnregisteredIsClaimable, UnsavedKept
<1> QED
  BY <1>5, <1>6, <1>7, FitsNext DEF ContributorsInv

\* The requests that change an account alone.
LEMMA AccountKeeps ==
  ASSUME ContributorsInv, UnsavedKept, NEW t \in Threads, NEW u \in Users,
         ClaimForm(t, u) \/ Disable(t, u) \/ Enable(t, u)
  PROVE  ContributorsInv'
BY DEF ContributorsInv, ClaimForm, Disable, Enable, people, TypeOK,
       OnePermissionEach, UnregisteredIsClaimable, UnsavedKept

\* The groups after a merge: the merged account leaves the one it had, and the
\* other gets the higher of the two.
LEMMA MergeGroups ==
  ASSUME TypeOK, OnePermissionEach, NEW self \in Users,
         NEW user \in contributors, MergeUser(self, user)
  PROVE  /\ group' = [p \in Permissions |->
                        SetPermissions([u \in {self} |-> MergedLevel(self, user)])[p]
                          \ {user}]
         /\ MergedLevel(self, user) \in Permissions
<1> DEFINE level == MergedLevel(self, user)
           g     == SetPermissions([u \in {self} |-> level])
<1>1. /\ Level(user) \in Permissions
      /\ \A q \in Permissions : user \in group[q] <=> q = Level(user)
  BY LevelIsOne
<1>2. level \in Permissions
  BY <1>1, LevelIsOne DEF MergedLevel
<1>3. group' = [g EXCEPT ![Level(user)] = g[Level(user)] \ {user}]
  BY DEF MergeUser
<1>4. \A p \in Permissions :
        g[p] = (group[p] \ {self}) \cup {u \in {self} : level = p}
  BY DEF SetPermissions
<1>5. DOMAIN g = Permissions
  BY DEF SetPermissions
<1>6. self # user
  BY DEF MergeUser
<1>7. \A p \in Permissions : p # Level(user) => g[p] \ {user} = g[p]
  BY <1>1, <1>4, <1>6
<1>8. g = [p \in Permissions |-> g[p]]
  BY DEF SetPermissions
<1> HIDE DEF g, level
<1>9. group' = [p \in Permissions |-> g[p] \ {user}]
  BY <1>1, <1>3, <1>5, <1>7, <1>8
<1> QED
  BY <1>2, <1>9 DEF g, level

\* merge_user gives the other account the row, and keeps both cited; whether
\* that account is registered is left to those who call it.
LEMMA MergeKeeps ==
  ASSUME ContributorsInv, UnsavedKept, NEW self \in Users, NEW user \in Users,
         MergeUser(self, user), MergeRegisters(self),
         unclaimed' \in SUBSET Users, unclaimed \ {self, user} \subseteq unclaimed',
         UNCHANGED thread
  PROVE  ContributorsInv'
<1>1. TypeOK /\ OnePermissionEach /\ Fits(group, contributors)
  BY FitsNow DEF ContributorsInv
<1>2. /\ self # user
      /\ mergedBy' = [mergedBy EXCEPT ![user] = self]
      /\ spared' = spared \ {user}
      /\ UNCHANGED <<disabled, thread>>
  BY DEF MergeUser
<1>3. CASE user \in contributors
  <2>1. /\ contributors' = (contributors \ {user}) \cup {self}
        /\ visible' \subseteq (visible \ {user}) \cup {self}
    BY <1>3 DEF MergeUser, MergedVisible
  <2> DEFINE g == SetPermissions([u \in {self} |-> MergedLevel(self, user)])
  <2>2. /\ group' = [p \in Permissions |-> g[p] \ {user}]
        /\ MergedLevel(self, user) \in Permissions
    BY <1>1, <1>3, MergeGroups
  <2>3. Fits(g, contributors \cup {self})
    <3>1. [u \in {self} |-> MergedLevel(self, user)] \in [{self} -> Permissions]
      BY <2>2
    <3>2. contributors \in SUBSET Users /\ {self} \in SUBSET Users
      BY <1>1 DEF TypeOK
    <3> QED
      BY <1>1, <3>1, <3>2, FitsSet
  <2> HIDE DEF g
  <2>4. contributors \cup {self} \in SUBSET Users
    BY <1>1 DEF TypeOK
  <2>5. Fits([p \in Permissions |-> g[p] \ {user}],
             (contributors \cup {self}) \ {user})
    BY <2>3, <2>4, FitsCleared
  <2>6. (contributors \cup {self}) \ {user} = contributors'
    BY <1>2, <2>1
  <2>7. Fits(group', contributors')
    BY <2>2, <2>5, <2>6
  <2>8. TypeOK'
    BY <1>1, <1>2, <2>1, <2>7 DEF TypeOK, Fits, UnsavedKept, MergeRegisters
  <2>9. UnregisteredIsClaimable'
    BY <1>1, <1>2, <2>1
       DEF ContributorsInv, UnregisteredIsClaimable, UnsavedKept, MergeRegisters
  <2> QED
    BY <2>7, <2>8, <2>9, FitsNext DEF ContributorsInv
<1>4. CASE user \notin contributors
  <2>1. UNCHANGED people
    BY <1>4 DEF MergeUser
  <2>2. TypeOK' /\ OnePermissionEach'
    BY <1>1, <1>2, <2>1
       DEF TypeOK, OnePermissionEach, people, UnsavedKept, MergeRegisters
  <2>3. UnregisteredIsClaimable'
    BY <1>1, <1>2, <1>4, <2>1
       DEF ContributorsInv, UnregisteredIsClaimable, people, TypeOK,
           UnsavedKept, MergeRegisters
  <2> QED
    BY <2>2, <2>3 DEF ContributorsInv
<1> QED
  BY <1>3, <1>4

\* confirm_email saves the account it merges into.
LEMMA ConfirmRegisters ==
  ASSUME TypeOK, NEW t \in Threads, NEW self \in Users, NEW user \in Users,
         ConfirmEmail(t, self, user)
  PROVE  /\ MergeUser(self, user) /\ MergeRegisters(self)
         /\ unclaimed' = unclaimed \ {self, user} /\ UNCHANGED thread
BY DEF ConfirmEmail, MergeUser, MergeRegisters, TypeOK

\* UserMergeAccounts does not: then the account is one of those unsaved.
LEMMA StaffRegisters ==
  ASSUME TypeOK, NEW t \in Threads, NEW self \in Users, NEW user \in Users,
         MergeAccounts(t, self, user), LeftUnsaved({self})
  PROVE  MergeRegisters(self)
BY DEF MergeAccounts, LeftUnsaved, MergeRegisters, TypeOK

\* Every step keeps them.
LEMMA UnsavedAreKept ==
  ASSUME TypeOK, [Next]_vars
  PROVE  UnsavedKept
<1>1. \A S \in SUBSET Users : LeftUnsaved(S) => UnsavedKept
  BY DEF LeftUnsaved, UnsavedKept, TypeOK
<1>2. CASE UNCHANGED vars
  BY <1>2 DEF vars, UnsavedKept, TypeOK
<1>3. CASE \E S \in SUBSET Users : LeftUnsaved(S)
  BY <1>1, <1>3
<1>4. Next => \E S \in SUBSET Users : LeftUnsaved(S)
  <2>1. {} \in SUBSET Users /\ \A self \in Users : {self} \in SUBSET Users
    OBVIOUS
  <2> QED
    BY <2>1 DEF Next
<1> QED
  BY <1>2, <1>3, <1>4

-----------------------------------------------------------------------------
\* However many requests overlap, the rows, the groups, the records and the
\* accounts agree.
THEOREM Safety == Spec => []ContributorsInv
<1>1. Init => ContributorsInv
  <2> SUFFICES ASSUME Init PROVE ContributorsInv
    OBVIOUS
  <2>1. /\ contributors = {Creator} /\ visible = {Creator}
        /\ group = [p \in Permissions |->
                      IF p = "admin" THEN {Creator} ELSE {}]
        /\ Creator \in registered /\ registered \subseteq Users
    BY DEF Init
  <2>2. TypeOK
    BY <2>1, UsersAssumption DEF Init, TypeOK
  <2>3. OnePermissionEach
    BY <2>1, PermissionsAssumption DEF OnePermissionEach
  <2>4. UnregisteredIsClaimable
    BY <2>1, UsersAssumption DEF Init, UnregisteredIsClaimable
  <2> QED
    BY <2>2, <2>3, <2>4 DEF ContributorsInv
<1>2. ContributorsInv /\ [Next]_vars => ContributorsInv'
  <2> SUFFICES ASSUME ContributorsInv, [Next]_vars PROVE ContributorsInv'
    OBVIOUS
  <2>1. TypeOK /\ UnsavedKept
    BY UnsavedAreKept DEF ContributorsInv
  <2>2. ASSUME NEW t \in Threads, NEW u \in Users, NEW permission \in Permissions,
               NEW isVisible \in BOOLEAN,
               UpdateContributor(t, u, permission, isVisible)
        PROVE  ContributorsInv'
    <3>1. thread' \in [Threads -> {Idle} \cup Pending]
      BY <2>1, <2>2 DEF UpdateContributor, TypeOK, Pending
    <3> QED
      BY <2>1, <2>2, <3>1, ThreadSteps DEF UpdateContributor
  <2>3. ASSUME NEW t \in Threads, NEW u \in Users, RemoveContributor(t, u)
        PROVE  ContributorsInv'
    <3>1. thread' \in [Threads -> {Idle} \cup Pending]
      BY <2>1, <2>3 DEF RemoveContributor, TypeOK, Pending
    <3> QED
      BY <2>1, <2>3, <3>1, ThreadSteps DEF RemoveContributor
  <2>4. ASSUME NEW t \in Threads, UpdateRefused(t)
        PROVE  ContributorsInv'
    <3>1. /\ thread' \in [Threads -> {Idle} \cup Pending]
          /\ UNCHANGED <<people, accounts, spared>>
      BY <2>1, <2>4 DEF UpdateRefused, TypeOK
    <3> QED
      BY <2>1, <3>1, ThreadSteps
  <2>5. ASSUME NEW t \in Threads, NEW u \in Users, RemoveRefused(t, u)
        PROVE  ContributorsInv'
    BY <2>1, <2>5, SparedKeeps DEF RemoveRefused, TypeOK
  <2>6. ASSUME NEW t \in Threads, RemoveWritten(t)
        PROVE  ContributorsInv'
    <3>1. /\ thread[t].user \in Users
          /\ UNCHANGED <<registered, disabled, mergedBy>>
          /\ thread' \in [Threads -> {Idle} \cup Pending]
      BY <2>1, <2>6, PendingTypes DEF RemoveWritten, TypeOK
    <3>2. CASE Removed({thread[t].user})
      BY <2>1, <3>1, <3>2, RemovedKeeps DEF TypeOK
    <3>3. CASE UNCHANGED <<people, unclaimed, spared>>
      BY <2>1, <3>1, <3>3, ThreadSteps DEF accounts
    <3> QED
      BY <2>6, <3>2, <3>3 DEF RemoveWritten
  <2>7. ASSUME NEW t \in Threads, NEW u \in Users, GdprDelete(t, u)
        PROVE  ContributorsInv'
    <3>1. /\ UNCHANGED <<registered, mergedBy>>
          /\ disabled' \in SUBSET Users /\ disabled \subseteq disabled'
          /\ thread' \in [Threads -> {Idle} \cup Pending]
      BY <2>1, <2>7 DEF GdprDelete, TypeOK
    <3>2. \/ Removed({u})
          \/ /\ unclaimed' = unclaimed \ {u} /\ spared' = spared \cup {u}
             /\ UNCHANGED people
      BY <2>7 DEF GdprDelete
    <3> QED
      BY <2>1, <3>1, <3>2, RemovedKeeps, SparedKeeps
  <2>8. CASE UNCHANGED vars
    <3>1. thread' \in [Threads -> {Idle} \cup Pending]
      BY <2>1, <2>8 DEF vars, TypeOK
    <3> QED
      BY <2>1, <2>8, <3>1, ThreadSteps DEF vars
  <2>9. ASSUME NEW t \in Threads, NEW self \in Users, NEW user \in Users,
               ConfirmEmail(t, self, user)
        PROVE  ContributorsInv'
    <3>1. /\ MergeUser(self, user) /\ MergeRegisters(self)
          /\ unclaimed' = unclaimed \ {self, user} /\ UNCHANGED thread
      BY <2>1, <2>9, ConfirmRegisters
    <3> QED
      BY <2>1, <3>1, MergeKeeps DEF TypeOK
  <2>10. ASSUME NEW t \in Threads, NEW self \in Users, NEW user \in Users,
                MergeAccounts(t, self, user), LeftUnsaved({self})
         PROVE  ContributorsInv'
    <3>1. /\ MergeUser(self, user) /\ MergeRegisters(self)
          /\ unclaimed' = unclaimed \ {user} /\ UNCHANGED thread
      BY <2>1, <2>10, StaffRegisters DEF MergeAccounts
    <3> QED
      BY <2>1, <3>1, MergeKeeps DEF TypeOK
  <2> QED
    BY <2>1, <2>2, <2>3, <2>4, <2>5, <2>6, <2>7, <2>8, <2>9, <2>10, AddKeeps,
       AddRefusedKeeps,
       UpdateKeeps, ManageKeeps, ClaimRegisteredKeeps, AccountKeeps
       DEF Next
<1> QED
  BY <1>1, <1>2, PTL DEF Spec

\* Every contributor has one permission, and nobody else has any.
THEOREM PermissionsMatchRows == Spec => []OnePermissionEach
BY Safety, PTL DEF ContributorsInv

\* An unregistered contributor keeps a record, or was spared by a removal.
THEOREM RecordsAreKept == Spec => []UnregisteredIsClaimable
BY Safety, PTL DEF ContributorsInv

\* Every reachable state has its types; the visible are contributors.
THEOREM Typing == Spec => []TypeOK
BY Safety, PTL DEF ContributorsInv

-----------------------------------------------------------------------------
(* One request at a time.                                                  *)

Serial == \A s, t \in Threads : s = t

\* What a request has looked at still is so when it writes.
ChecksHold ==
  \A t \in Threads :
    /\ thread[t].op = "remove" => MayRemove(thread[t].user)
    /\ thread[t].op = "update" /\ thread[t].changed =>
         MayLower(thread[t].user, thread[t].permission)

SomebodyRemains == AdminRemains /\ VisibleRemains

\* Another admin is left when set_permissions lets one be demoted.
LEMMA DemotionLeavesAdmin ==
  ASSUME ContributorsInv, AdminRemains, NEW u \in contributors,
         NEW permission \in Permissions, MayLower(u, permission)
  PROVE  \E w \in contributors :
           /\ w \in SetPermissions([x \in {u} |-> permission])["admin"]
           /\ w \in registered \cup disabled \cup unsaved
<1>1. PICK w \in contributors : /\ w \in group["admin"]
                                /\ w \in registered \cup disabled \cup unsaved
  BY DEF AdminRemains
<1>2. SetPermissions([x \in {u} |-> permission])["admin"] =
        (group["admin"] \ {u}) \cup {x \in {u} : permission = "admin"}
  BY PermissionsAssumption DEF SetPermissions
<1>3. CASE w # u \/ permission = "admin"
  BY <1>1, <1>2, <1>3
<1>4. CASE w = u /\ permission # "admin"
  <2>1. Cardinality(group["admin"] \cap registered) > 1
    BY <1>1, <1>4 DEF MayLower
  <2>2. group["admin"] \cap registered \in SUBSET Users
    BY DEF ContributorsInv, TypeOK
  <2>3. PICK x \in group["admin"] \cap registered : x # u
    BY <2>1, <2>2, AnotherOne
  <2>4. x \in contributors
    BY <2>3, PermissionsAssumption DEF ContributorsInv, OnePermissionEach
  <2> QED
    BY <1>2, <2>3, <2>4
<1> QED
  BY <1>3, <1>4

LEMMA AddLeavesSomebody ==
  ASSUME ContributorsInv, SomebodyRemains, UnsavedKept, NEW t \in Threads,
         NEW u \in Users,
         NEW permission \in Permissions, NEW isVisible \in BOOLEAN,
         AddContributor(t, u, permission, isVisible)
  PROVE  SomebodyRemains'
<1> DEFINE new == Master(u)
<1>1. /\ group' = SetPermissions([w \in {new} |-> permission])
      /\ UNCHANGED <<registered, disabled>>
      /\ contributors \subseteq contributors' /\ visible \subseteq visible'
      /\ new \in contributors => MayLower(new, permission)
  BY DEF AddContributor
<1>2. VisibleRemains'
  BY <1>1 DEF SomebodyRemains, VisibleRemains
<1>3. CASE new \in contributors
  <2>1. PICK w \in contributors : /\ w \in group'["admin"]
                                  /\ w \in registered \cup disabled \cup unsaved
    BY <1>1, <1>3, DemotionLeavesAdmin DEF SomebodyRemains
  <2> QED
    BY <1>1, <1>2, <2>1 DEF SomebodyRemains, AdminRemains, UnsavedKept
<1>4. CASE new \notin contributors
  <2>1. PICK w \in contributors : /\ w \in group["admin"]
                                  /\ w \in registered \cup disabled \cup unsaved
    BY DEF SomebodyRemains, AdminRemains
  <2>2. w \in group'["admin"]
    BY <1>1, <1>4, <2>1, PermissionsAssumption DEF SetPermissions
  <2> QED
    BY <1>1, <1>2, <2>1, <2>2 DEF SomebodyRemains, AdminRemains, UnsavedKept
<1> QED
  BY <1>1, <1>2, <1>3, <1>4 DEF SomebodyRemains

LEMMA UpdateLeavesSomebody ==
  ASSUME ContributorsInv, SomebodyRemains, UnsavedKept, ChecksHold,
         NEW t \in Threads,
         UpdateWritten(t)
  PROVE  SomebodyRemains'
<1> DEFINE r == thread[t]
<1>1. /\ r.op = "update" /\ r.user \in contributors
      /\ r.visible \/ visible # {r.user}
      /\ group' = IF r.changed
                  THEN SetPermissions([u \in {r.user} |-> r.permission])
                  ELSE group
      /\ visible' = IF r.visible THEN visible \cup {r.user} ELSE visible \ {r.user}
      /\ UNCHANGED <<contributors, registered, disabled>>
  BY DEF UpdateWritten, MaySetVisible, accounts
<1>2. r.permission \in Permissions
  BY <1>1, PendingTypes DEF ContributorsInv
<1>3. VisibleRemains'
  BY <1>1 DEF SomebodyRemains, VisibleRemains
<1>4. AdminRemains'
  <2>1. CASE r.changed
    <3>1. MayLower(r.user, r.permission)
      BY <1>1, <2>1 DEF ChecksHold
    <3> QED
      BY <1>1, <1>2, <2>1, <3>1, DemotionLeavesAdmin
         DEF SomebodyRemains, AdminRemains, UnsavedKept
  <2>2. CASE ~r.changed
    BY <1>1, <2>2 DEF SomebodyRemains, AdminRemains, UnsavedKept
  <2> QED
    BY <2>1, <2>2
<1> QED
  BY <1>3, <1>4 DEF SomebodyRemains

\* remove_contributor has seen an active admin and a visible contributor.
LEMMA RemovedLeavesSomebody ==
  ASSUME NEW u, MayRemove(u), Removed({u}), UNCHANGED registered
  PROVE  SomebodyRemains'
<1>1. PICK w \in contributors : w # u /\ w \in registered /\ w \in group["admin"]
  BY DEF MayRemove, AdminContributors, Active
<1>2. w \in contributors' /\ w \in group'["admin"]
  BY <1>1, PermissionsAssumption DEF Removed, ClearPermissions
<1>3. VisibleRemains'
  BY DEF MayRemove, Removed, VisibleRemains
<1> QED
  BY <1>1, <1>2, <1>3 DEF SomebodyRemains, AdminRemains, UnsavedKept

\* manage_contributors asks for an admin among those it retains, and the one
\* it does not manage to remove stays visible.
LEMMA ManageLeavesSomebody ==
  ASSUME ContributorsInv, SomebodyRemains, UnsavedKept, NEW t \in Threads,
         NEW dicts \in UserDicts, ManageContributors(t, dicts)
  PROVE  SomebodyRemains'
<1> DEFINE given   == DOMAIN dicts
           changed == {u \in given : u \notin group[dicts[u].permission]}
           groups  == SetPermissions([u \in changed |-> dicts[u].permission])
           shown   == visible \cup {u \in given : dicts[u].visible}
           left    == shown \ {u \in given : ~dicts[u].visible}
           removed == contributors \ given
<1>1. given \subseteq contributors
  BY DEF UserDicts
<1>2. PICK u \in given \cap groups["admin"] : Active(u)
  BY DEF ManageContributors
<1>3. left # {}
  BY DEF ManageContributors, SomebodyRemains, VisibleRemains
<1>4. PICK stays \in IF left \subseteq removed THEN left ELSE {None} :
        /\ contributors' = contributors \ (removed \ {stays})
        /\ visible' = left \ (removed \ {stays})
        /\ group' = [p \in Permissions |-> groups[p] \ (removed \ {stays})]
  BY DEF ManageContributors
<1>5. registered' = registered /\ u \in registered
  BY <1>2 DEF ManageContributors, Active
<1> HIDE DEF groups, left
<1>6. u \in contributors' /\ u \in group'["admin"]
  BY <1>1, <1>2, <1>4, PermissionsAssumption
<1>7. visible' # {}
  <2>1. CASE left \subseteq removed
    BY <1>4, <2>1
  <2>2. CASE ~(left \subseteq removed)
    BY <1>4, <2>2
  <2> QED
    BY <2>1, <2>2
<1> QED
  BY <1>5, <1>6, <1>7 DEF SomebodyRemains, AdminRemains, VisibleRemains, UnsavedKept

LEMMA ClaimLeavesSomebody ==
  ASSUME ContributorsInv, SomebodyRemains, UnsavedKept, NEW t \in Threads,
         NEW u \in Users,
         NEW new \in Users, ClaimRegistered(t, u, new)
  PROVE  SomebodyRemains'
<1>1. /\ new \in registered /\ UNCHANGED <<registered, disabled>>
      /\ contributors' = (contributors \ {u}) \cup {new}
      /\ visible' = IF u \in visible THEN (visible \ {u}) \cup {new} ELSE visible
      /\ group'["admin"] = IF u \in group["admin"]
                           THEN (group["admin"] \ {u}) \cup {new}
                           ELSE group["admin"]
  BY PermissionsAssumption DEF ClaimRegistered, Replace, Active
<1>2. PICK w \in contributors : /\ w \in group["admin"]
                                /\ w \in registered \cup disabled \cup unsaved
  BY DEF SomebodyRemains, AdminRemains
<1> QED
  BY <1>1, <1>2 DEF SomebodyRemains, AdminRemains, VisibleRemains, UnsavedKept

LEMMA AccountLeavesSomebody ==
  ASSUME ContributorsInv, SomebodyRemains, UnsavedKept, NEW t \in Threads,
         NEW u \in Users,
         ClaimForm(t, u) \/ Disable(t, u) \/ Enable(t, u)
  PROVE  SomebodyRemains'
BY DEF ClaimForm, Disable, Enable, people, SomebodyRemains, AdminRemains,
       VisibleRemains, UnsavedKept

\* If one of the two accounts was an admin, the one that is left is.
LEMMA MergeLeavesSomebody ==
  ASSUME ContributorsInv, SomebodyRemains, UnsavedKept, NEW self \in Users,
         NEW user \in Users, MergeUser(self, user), MergeRegisters(self)
  PROVE  SomebodyRemains'
<1>1. /\ self # user /\ disabled' = disabled /\ registered \subseteq registered'
      /\ self \in contributors' => self \in registered' \cup disabled' \cup unsaved'
      /\ unsaved \cap (contributors' \ (registered' \cup disabled')) \subseteq unsaved'
  BY DEF MergeUser, MergeRegisters, UnsavedKept
<1>2. CASE user \notin contributors
  BY <1>1, <1>2 DEF MergeUser, people, SomebodyRemains, AdminRemains,
                    VisibleRemains
<1>3. CASE user \in contributors
  <2> DEFINE level == MergedLevel(self, user)
  <2>1. /\ TypeOK /\ OnePermissionEach
        /\ contributors' = (contributors \ {user}) \cup {self}
        /\ visible' = IF user \in visible THEN (visible \ {user}) \cup {self}
                      ELSE visible
    BY <1>3 DEF MergeUser, MergedVisible, ContributorsInv
  <2>2. group'["admin"] =
          ((group["admin"] \ {self}) \cup {x \in {self} : level = "admin"}) \ {user}
    <3> DEFINE g == SetPermissions([u \in {self} |-> level])
    <3>1. group' = [p \in Permissions |-> g[p] \ {user}]
      BY <1>3, <2>1, MergeGroups
    <3>2. g["admin"] = (group["admin"] \ {self}) \cup {x \in {self} : level = "admin"}
      BY PermissionsAssumption DEF SetPermissions
    <3> HIDE DEF g, level
    <3> QED
      BY <3>1, <3>2, PermissionsAssumption
  <2>3. PICK w \in contributors : /\ w \in group["admin"]
                                  /\ w \in registered \cup disabled \cup unsaved
    BY DEF SomebodyRemains, AdminRemains
  <2>4. ASSUME w \in {self, user} PROVE level = "admin"
    <3>1. Level(w) = "admin"
      BY <2>1, <2>3, LevelIsOne, PermissionsAssumption
    <3>2. \A p \in Permissions : /\ Rank(p) <= 3 /\ Rank("admin") = 3
                                 /\ Rank(p) = 3 => p = "admin"
      BY DEF Rank
    <3>3. Level(user) \in Permissions
      BY <1>3, <2>1, LevelIsOne
    <3>4. self \in contributors => Level(self) \in Permissions
      BY <2>1, LevelIsOne
    <3>5. \A p, q \in Permissions :
            /\ Rank(p) \in Int
            /\ p = "admin" /\ ~(Rank(p) > Rank(q)) => q = "admin"
            /\ q = "admin" => ~(Rank(p) > Rank(q))
      BY DEF Rank
    <3>6. CASE w = user
      BY <3>1, <3>3, <3>4, <3>5, <3>6 DEF MergedLevel
    <3>7. CASE w = self
      BY <2>3, <3>1, <3>3, <3>4, <3>5, <3>7 DEF MergedLevel
    <3> QED
      BY <2>4, <3>6, <3>7
  <2>5. AdminRemains'
    <3>1. CASE w \in {self, user}
      BY <1>1, <2>1, <2>2, <2>4, <3>1 DEF AdminRemains
    <3>2. CASE w \notin {self, user}
      BY <1>1, <2>1, <2>2, <2>3, <3>2 DEF AdminRemains
    <3> QED
      BY <3>1, <3>2
  <2>6. VisibleRemains'
    BY <2>1 DEF SomebodyRemains, VisibleRemains
  <2> QED
    BY <2>5, <2>6 DEF SomebodyRemains
<1> QED
  BY <1>2, <1>3

\* The one request that may be open has just looked.
LEMMA ChecksStillHold ==
  ASSUME Serial, TypeOK, ChecksHold, [Next]_vars
  PROVE  ChecksHold'
<1>1. CASE UNCHANGED vars
  BY <1>1 DEF vars, people, accounts, ChecksHold, MayRemove, MayLower,
              AdminContributors, Active
<1>2. ASSUME NEW t \in Threads, thread'[t] = Idle PROVE ChecksHold'
  BY <1>2 DEF Serial, ChecksHold, Idle
<1>3. ASSUME NEW t \in Threads, thread[t] = Idle, thread' = thread
      PROVE  ChecksHold'
  BY <1>2, <1>3
<1>4. ASSUME NEW t \in Threads, NEW u \in Users, NEW permission \in Permissions,
             NEW isVisible \in BOOLEAN,
             UpdateContributor(t, u, permission, isVisible)
      PROVE  ChecksHold'
  <2>1. /\ UNCHANGED <<people, accounts>>
        /\ u \in group[permission] \/ MayLower(u, permission)
        /\ thread'[t] = [op |-> "update", user |-> u, permission |-> permission,
                         changed |-> u \notin group[permission],
                         visible |-> isVisible]
    BY <1>4 DEF UpdateContributor, TypeOK
  <2>2. \A s \in Threads : s = t
    BY DEF Serial
  <2>3. /\ thread'[t].op = "update" /\ thread'[t].user = u
        /\ thread'[t].permission = permission
        /\ thread'[t].changed => u \notin group[permission]
    <3>1. PICK b \in BOOLEAN : b = (u \notin group[permission])
      OBVIOUS
    <3>2. thread'[t] = [op |-> "update", user |-> u, permission |-> permission,
                        changed |-> b, visible |-> isVisible]
      BY <2>1, <3>1, Zenon
    <3>3. thread'[t].op = "update" /\ thread'[t].user = u
          /\ thread'[t].permission = permission /\ thread'[t].changed = b
      BY <3>2
    <3> QED
      BY <3>1, <3>3
  <2>4. MayLower(u, permission)' <=> MayLower(u, permission)
    BY <2>1 DEF MayLower, people, accounts
  <2> QED
    BY <2>1, <2>2, <2>3, <2>4 DEF ChecksHold, MayLower
<1>5. ASSUME NEW t \in Threads, NEW u \in Users, RemoveContributor(t, u)
      PROVE  ChecksHold'
  <2>1. /\ UNCHANGED <<people, accounts>> /\ MayRemove(u)
        /\ thread'[t] = [op |-> "remove", user |-> u]
    BY <1>5 DEF RemoveContributor, TypeOK
  <2>2. \A s \in Threads : s = t
    BY DEF Serial
  <2> QED
    BY <2>1, <2>2 DEF ChecksHold, MayRemove, AdminContributors, Active, people,
                      accounts
<1>6. ASSUME NEW t \in Threads,
             UpdateWritten(t) \/ UpdateRefused(t) \/ RemoveWritten(t)
      PROVE  thread'[t] = Idle
  BY <1>6 DEF UpdateWritten, UpdateRefused, RemoveWritten, TypeOK
<1>7. ASSUME NEW t \in Threads, NEW u \in Users,
             \/ AddRefused(t, u) \/ RemoveRefused(t, u) \/ ClaimForm(t, u)
             \/ Disable(t, u) \/ Enable(t, u) \/ GdprDelete(t, u)
             \/ \E new \in Users : ClaimRegistered(t, u, new)
             \/ \E self \in Users :
                  \/ ConfirmEmail(t, self, u)
                  \/ MergeAccounts(t, self, u)
             \/ \E permission \in Permissions, isVisible \in BOOLEAN :
                  AddContributor(t, u, permission, isVisible)
      PROVE  thread[t] = Idle /\ thread' = thread
  <2>1. CASE RemoveRefused(t, u)
    BY <2>1 DEF RemoveRefused, RemovalRequest, AdminRequest
  <2>2. CASE AddRefused(t, u) \/ ClaimForm(t, u)
    BY <2>2 DEF AddRefused, AdminRequest, ClaimForm
  <2>3. CASE Disable(t, u) \/ Enable(t, u) \/ GdprDelete(t, u)
    BY <2>3 DEF Disable, Enable, GdprDelete
  <2>4. CASE \E new \in Users : ClaimRegistered(t, u, new)
    BY <2>4 DEF ClaimRegistered
  <2>5. CASE \E self \in Users :
               ConfirmEmail(t, self, u) \/ MergeAccounts(t, self, u)
    BY <2>5 DEF ConfirmEmail, MergeAccounts
  <2>6. CASE \E permission \in Permissions, isVisible \in BOOLEAN :
               AddContributor(t, u, permission, isVisible)
    BY <2>6 DEF AddContributor, AdminRequest
  <2> QED
    BY <1>7, <2>1, <2>2, <2>3, <2>4, <2>5, <2>6
<1>8. ASSUME NEW t \in Threads, NEW dicts \in UserDicts,
             ManageContributors(t, dicts)
      PROVE  thread[t] = Idle /\ thread' = thread
  BY <1>8 DEF ManageContributors, AdminRequest
<1>9. CASE Next
  BY <1>2, <1>3, <1>4, <1>5, <1>6, <1>7, <1>8, <1>9 DEF Next
<1> QED
  BY <1>1, <1>9

\* As long as requests do not overlap, none of the checks that each of them
\* makes in its own way lets the last admin, or the last visible contributor,
\* be removed, demoted, hidden, merged or deleted.
THEOREM SomebodyIsLeft == Serial => (Spec => []SomebodyRemains)
<1> SUFFICES ASSUME Serial PROVE Spec => []SomebodyRemains
  OBVIOUS
<1>1. Init => SomebodyRemains /\ ChecksHold
  BY PermissionsAssumption
     DEF Init, SomebodyRemains, AdminRemains, VisibleRemains, ChecksHold, Idle
<1>2. /\ ContributorsInv /\ SomebodyRemains /\ ChecksHold
      /\ [Next]_vars
      => SomebodyRemains' /\ ChecksHold'
  <2> SUFFICES ASSUME ContributorsInv, SomebodyRemains, ChecksHold, [Next]_vars
               PROVE  SomebodyRemains' /\ ChecksHold'
    OBVIOUS
  <2>1. ChecksHold'
    BY ChecksStillHold DEF ContributorsInv
  <2> UnsavedKept
    BY UnsavedAreKept DEF ContributorsInv
  <2>2. ASSUME UNCHANGED <<people, registered, disabled>>
        PROVE  SomebodyRemains'
    BY <2>2 DEF people, SomebodyRemains, AdminRemains, VisibleRemains, UnsavedKept
  <2>3. ASSUME NEW t \in Threads, NEW u \in Users, GdprDelete(t, u)
        PROVE  SomebodyRemains'
    <3>1. CASE MayRemove(u)
      BY <2>3, <3>1, RemovedLeavesSomebody DEF GdprDelete
    <3>2. CASE ~MayRemove(u)
      BY <2>3, <3>2 DEF GdprDelete, people, SomebodyRemains, AdminRemains,
                        VisibleRemains, UnsavedKept
    <3> QED
      BY <3>1, <3>2
  <2>4. ASSUME NEW t \in Threads, RemoveWritten(t)
        PROVE  SomebodyRemains'
    <3>1. MayRemove(thread[t].user)
      BY <2>4 DEF RemoveWritten, ChecksHold
    <3>2. CASE UNCHANGED <<people, registered, disabled>>
      BY <2>2, <3>2 DEF people
    <3> QED
      BY <2>4, <3>1, <3>2, RemovedLeavesSomebody DEF RemoveWritten
  <2>5. ASSUME NEW t \in Threads, NEW u \in Users,
               \/ AddRefused(t, u) \/ RemoveContributor(t, u)
               \/ RemoveRefused(t, u)
        PROVE  SomebodyRemains'
    BY <2>2, <2>5 DEF AddRefused, RemoveContributor, RemoveRefused, accounts
  <2>6. ASSUME NEW t \in Threads, UpdateRefused(t)
        PROVE  SomebodyRemains'
    BY <2>2, <2>6 DEF UpdateRefused, accounts
  <2>7. ASSUME NEW t \in Threads, NEW u \in Users, NEW permission \in Permissions,
               NEW isVisible \in BOOLEAN,
               UpdateContributor(t, u, permission, isVisible)
        PROVE  SomebodyRemains'
    BY <2>2, <2>7 DEF UpdateContributor, accounts
  <2>8. ASSUME UNCHANGED vars PROVE SomebodyRemains'
    BY <2>2, <2>8 DEF vars, accounts
  <2>9. ASSUME NEW t \in Threads, NEW self \in Users, NEW user \in Users,
               \/ ConfirmEmail(t, self, user)
               \/ MergeAccounts(t, self, user) /\ LeftUnsaved({self})
        PROVE  SomebodyRemains'
    <3>1. MergeUser(self, user) /\ MergeRegisters(self)
      BY <2>9, ConfirmRegisters, StaffRegisters DEF ContributorsInv, MergeAccounts
    <3> QED
      BY <3>1, MergeLeavesSomebody
  <2>10. SomebodyRemains'
    BY <2>3, <2>4, <2>5, <2>6, <2>7, <2>8, <2>9, AddLeavesSomebody,
       UpdateLeavesSomebody, ManageLeavesSomebody, ClaimLeavesSomebody,
       AccountLeavesSomebody DEF Next
  <2> QED
    BY <2>1, <2>10
<1> QED
  BY <1>1, <1>2, Safety, PTL DEF Spec

\* The resource keeps an admin, while requests do not overlap.
THEOREM AdminIsLeft == Serial => (Spec => []AdminRemains)
<1> SUFFICES ASSUME Serial PROVE Spec => []AdminRemains
  OBVIOUS
<1>1. SomebodyRemains => AdminRemains
  BY DEF SomebodyRemains
<1> QED
  BY <1>1, SomebodyIsLeft, PTL

\* Somebody stays cited, while requests do not overlap.
THEOREM VisibleIsLeft == Serial => (Spec => []VisibleRemains)
<1> SUFFICES ASSUME Serial PROVE Spec => []VisibleRemains
  OBVIOUS
<1>1. SomebodyRemains => VisibleRemains
  BY DEF SomebodyRemains
<1> QED
  BY <1>1, SomebodyIsLeft, PTL

-----------------------------------------------------------------------------
(* What is spared.                                                         *)

\* Somebody is visible, so a removal is only refused for the last visible
\* contributor or for want of another active admin.
LEMMA RefusedForAReason ==
  ASSUME VisibleRemains, NEW u, ~MayRemove(u)
  PROVE  visible = {u} \/ AdminContributors(Users \ {u}) = {}
BY DEF MayRemove, VisibleRemains

\* Of those that manage_contributors was to remove, only the last visible one
\* stays.
LEMMA ManageSparesVisible ==
  ASSUME TypeOK, NEW t \in Threads, NEW dicts \in UserDicts,
         ManageContributors(t, dicts), NEW u \in spared' \ spared
  PROVE  visible' = {u}
<1> DEFINE given   == DOMAIN dicts
           shown   == visible \cup {w \in given : dicts[w].visible}
           left    == shown \ {w \in given : ~dicts[w].visible}
           removed == contributors \ given
<1>1. PICK stays \in IF left \subseteq removed THEN left ELSE {None} :
        /\ visible' = left \ (removed \ {stays})
        /\ spared' = (spared \ (removed \ {stays})) \cup (removed \cap {stays})
  BY DEF ManageContributors
<1> HIDE DEF given, shown, left, removed
<1>2. u = stays /\ u \in removed
  BY <1>1
<1>3. CASE left \subseteq removed
  BY <1>1, <1>2, <1>3
<1>4. CASE ~(left \subseteq removed)
  <2>1. u = None /\ u \in Users
    BY <1>1, <1>2, <1>4 DEF removed, TypeOK
  <2> QED
    BY <2>1, UsersAssumption
<1> QED
  BY <1>3, <1>4

\* A deletion of the account only takes u from the active admins.
LEMMA DeletionSparesForAReason ==
  ASSUME VisibleRemains, NEW t \in Threads, NEW u \in Users, GdprDelete(t, u),
         NEW w \in spared' \ spared
  PROVE  visible' = {w} \/ (AdminContributors(Users \ {w}))' = {}
<1>1. /\ w = u /\ ~MayRemove(u)
      /\ disabled' = disabled \cup {u} /\ UNCHANGED <<registered, mergedBy>>
      /\ UNCHANGED people
  BY DEF GdprDelete, Removed
<1>2. AdminContributors(Users \ {u}) = {} => (AdminContributors(Users \ {u}))' = {}
  BY <1>1 DEF AdminContributors, Active, people
<1> QED
  BY <1>1, <1>2, RefusedForAReason DEF people

\* While requests do not overlap, a removal that is refused or ignored spares
\* the last visible contributor or the last active admin, and nobody else.
THEOREM SparedOnlyTheLast == Serial => (Spec => SparedForAReason)
<1> SUFFICES ASSUME Serial PROVE Spec => SparedForAReason
  OBVIOUS
<1>1. TypeOK /\ SomebodyRemains /\ [Next]_vars =>
        [\A u \in spared' \ spared :
           visible' = {u} \/ (AdminContributors(Users \ {u}))' = {}]_vars
  <2> SUFFICES ASSUME TypeOK, VisibleRemains, Next, NEW u \in spared' \ spared
               PROVE  visible' = {u} \/ (AdminContributors(Users \ {u}))' = {}
    BY DEF SomebodyRemains
  <2>1. ASSUME NEW t \in Threads, NEW w \in Users, RemoveRefused(t, w)
        PROVE  visible' = {u} \/ (AdminContributors(Users \ {u}))' = {}
    <3>1. /\ w = u /\ ~MayRemove(u)
          /\ UNCHANGED <<people, registered, disabled, mergedBy>>
      BY <2>1 DEF RemoveRefused
    <3>2. AdminContributors(Users \ {u}) = {} =>
            (AdminContributors(Users \ {u}))' = {}
      BY <3>1 DEF AdminContributors, Active, people
    <3> QED
      BY <3>1, <3>2, RefusedForAReason DEF people
  <2>2. ASSUME NEW t \in Threads, NEW w \in Users, GdprDelete(t, w)
        PROVE  visible' = {u} \/ (AdminContributors(Users \ {u}))' = {}
    BY <2>2, DeletionSparesForAReason
  <2>3. ASSUME NEW t \in Threads, NEW dicts \in UserDicts,
               ManageContributors(t, dicts)
        PROVE  visible' = {u} \/ (AdminContributors(Users \ {u}))' = {}
    BY <2>3, ManageSparesVisible
  <2>4. ASSUME NEW t \in Threads, NEW w \in Users,
               \/ AddRefused(t, w) \/ RemoveContributor(t, w) \/ ClaimForm(t, w)
               \/ Disable(t, w) \/ Enable(t, w)
               \/ \E new \in Users : ClaimRegistered(t, w, new)
               \/ \E self \in Users :
                  \/ ConfirmEmail(t, self, w)
                  \/ MergeAccounts(t, self, w)
               \/ \E permission \in Permissions, isVisible \in BOOLEAN :
                    \/ AddContributor(t, w, permission, isVisible)
                    \/ UpdateContributor(t, w, permission, isVisible)
        PROVE  FALSE
    BY <2>4
    DEF AddRefused, RemoveContributor, ClaimForm, Disable, Enable,
        ClaimRegistered, Replace, ConfirmEmail, MergeAccounts, MergeUser,
        AddContributor, UpdateContributor
  <2>5. ASSUME NEW t \in Threads,
               UpdateWritten(t) \/ UpdateRefused(t) \/ RemoveWritten(t)
        PROVE  FALSE
    BY <2>5 DEF UpdateWritten, UpdateRefused, RemoveWritten, Removed
  <2> QED
    BY <2>1, <2>2, <2>3, <2>4, <2>5 DEF Next
<1>2. Spec => []SomebodyRemains
  BY SomebodyIsLeft
<1> QED
  BY <1>1, <1>2, Typing, PTL DEF Spec, SparedForAReason

=============================================================================
