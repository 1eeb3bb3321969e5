----------------------------- MODULE Contributors -----------------------------
(***************************************************************************)
(* The contributors of one resource (ContributorMixin of                   *)
(* osf/models/mixins.py), the views that change them and the accounts      *)
(* behind them: claims, merges, suspensions and deletions                  *)
(* (osf/models/user.py, website/project/views/contributor.py).             *)
(*                                                                         *)
(* A contributor is a row; its permission is the Django group of the       *)
(* resource that the user belongs to.  A request that removes or demotes   *)
(* somebody first looks at who would be left and then writes; the other    *)
(* requests are taken to be one step.  What it looked at may change in     *)
(* between: the row of the resource in the URL is locked by whoever loads  *)
(* it in a transaction (get_or_http_error, get_object_or_error), but a     *)
(* removal also takes the components of a list, whose rows it does not     *)
(* lock, manage_contributors runs outside that transaction, and merges and *)
(* deletions of accounts lock no resource.                                 *)
(***************************************************************************)
EXTENDS Naturals, FiniteSets

CONSTANTS
  Threads,       \* the requests served at a time
  Users,         \* the accounts
  Creator,       \* who created the resource
  GroupAdmins,   \* the users an OSF group makes admins of the resource
  Permissions,   \* the permissions that are granted
  None           \* no user

ASSUME UsersAssumption ==
  /\ Creator \in Users /\ GroupAdmins \subseteq Users /\ None \notin Users
  /\ IsFiniteSet(Users)
ASSUME PermissionsAssumption ==
  /\ Permissions \subseteq {"read", "write", "admin"}
  /\ "admin" \in Permissions

VARIABLES
  contributors,  \* the users that have a row
  visible,       \* those that are bibliographic
  group,         \* group[p]: the members of the resource's group for p
  registered,    \* is_registered
  disabled,      \* is_disabled
  mergedBy,      \* mergedBy[u]: the account u was merged into
  unclaimed,     \* the users with an unclaimed record of the resource
  spared,        \* the contributors a removal spared, but not their record
  unsaved,       \* the contributors a merge has left unregistered
  thread         \* thread[t]: what t has checked and not yet written

people   == <<contributors, visible, group>>
accounts == <<registered, disabled, mergedBy, unclaimed>>
vars     == <<people, accounts, spared, unsaved, thread>>

-----------------------------------------------------------------------------
Idle == [op |-> "none"]

Pending ==
  [op : {"remove"}, user : Users]
    \cup [op : {"update"}, user : Users, permission : Permissions,
          changed : BOOLEAN, visible : BOOLEAN]

\* OSFUser.is_active; that the password is set and the email is confirmed is
\* taken to be part of being registered.
Active(u) == u \in registered /\ u \notin disabled /\ mergedBy[u] = None

\* has_permission(user, ADMIN), by contributorship or by an OSF group.
IsAdmin(u) == u \in group["admin"] \cup GroupAdmins

\* _get_admin_contributors_query
AdminContributors(users) ==
  {u \in users \cap contributors : Active(u) /\ u \in group["admin"]}

Rank(p) == IF p = "admin" THEN 3 ELSE IF p = "write" THEN 2 ELSE 1

\* get_contributor_permission: the highest group of the user.
Level(u) ==
  CHOOSE p \in Permissions :
    /\ u \in group[p]
    /\ \A q \in Permissions : u \in group[q] => Rank(q) <= Rank(p)

\* clear_permissions, then add_permission, for each user that permission is
\* defined for.
SetPermissions(permission) ==
  [p \in Permissions |-> (group[p] \ DOMAIN permission) \cup
                           {u \in DOMAIN permission : permission[u] = p}]

\* Mutated form: the group of the admins is forgotten.
ClearButAdmin(users) ==
  [p \in Permissions |-> IF p = "admin" THEN group[p] ELSE group[p] \ users]

\* clear_permissions
ClearPermissions(users) == [p \in Permissions |-> group[p] \ users]

\* Mutated form: the members of the group are counted, registered or not.
AnyMemberCounts(u, permission) ==
  u \in group["admin"] /\ permission # "admin" => Cardinality(group["admin"]) > 1

\* The check of set_permissions.
MayLower(u, permission) ==
  u \in group["admin"] /\ permission # "admin" =>
    Cardinality(group["admin"] \cap registered) > 1

\* Mutated form: the contributors are counted, the user among them.
TwoMustBeVisible(u) ==
  /\ Cardinality(visible) > 1
  /\ AdminContributors(Users \ {u}) # {}

\* Mutated form: who is visible is not looked at.
AdminIsEnough(u) == AdminContributors(Users \ {u}) # {}

\* What remove_contributor wants to be left.
MayRemove(u) ==
  /\ visible \ {u} # {}
  /\ AdminContributors(Users \ {u}) # {}

-----------------------------------------------------------------------------
Init ==
  /\ contributors = {Creator} /\ visible = {Creator}
  /\ group = [p \in Permissions |-> IF p = "admin" THEN {Creator} ELSE {}]
  /\ registered \in {r \in SUBSET Users : Creator \in r}
  /\ disabled = {} /\ unclaimed = {} /\ spared = {} /\ unsaved = {}
  /\ mergedBy = [u \in Users |-> None]
  /\ thread = [t \in Threads |-> Idle]

\* A thread begins a request of some admin of the resource.
AdminRequest(t) == thread[t] = Idle /\ \E a \in Users : Active(a) /\ IsAdmin(a)

\* No other request has locked the row of the resource.
Unlocked == \A t \in Threads : thread[t].op # "update"

\* If user is merged into another account, use master account.
Master(u) == IF mergedBy[u] = None THEN u ELSE mergedBy[u]

(***************************************************************************)
(* An entry of project_contributors_post, or a POST of the API.  An        *)
(* unregistered user is given an unclaimed record first.  Who already is a *)
(* contributor is given the permission.                                    *)
(***************************************************************************)
AddContributor(t, u, permission, isVisible) ==
  LET new == Master(u)
      records == IF u \in registered THEN unclaimed ELSE unclaimed \cup {u}
  IN
  /\ AdminRequest(t) /\ Unlocked
  /\ new \notin disabled /\ new \in registered \cup records
  /\ IF new \in contributors
     THEN /\ MayLower(new, permission)
          /\ UNCHANGED <<contributors, visible>>
     ELSE /\ contributors' = contributors \cup {new}
          /\ visible' = IF isVisible THEN visible \cup {new} ELSE visible
  /\ group' = SetPermissions([w \in {new} |-> permission])
  /\ unclaimed' = records
  /\ UNCHANGED <<registered, disabled, mergedBy, spared, thread>>

\* An entry of the list asks for what set_permissions refuses.  The answer is
\* a 400, which commits the records of the whole list.
AddRefused(t, u) ==
  /\ AdminRequest(t) /\ Unlocked /\ u \notin registered
  /\ \E w \in contributors, p \in Permissions : ~MayLower(w, p)
  /\ unclaimed' = unclaimed \cup {u}
  /\ UNCHANGED <<people, registered, disabled, mergedBy, spared, thread>>

-----------------------------------------------------------------------------
(* update_contributor *)

UpdateContributor(t, u, permission, isVisible) ==
  /\ AdminRequest(t) /\ Unlocked /\ u \in contributors
  /\ AdminContributors(contributors) = {u} => permission = "admin"
  /\ u \in group[permission] \/ MayLower(u, permission)
  /\ thread' = [thread EXCEPT ![t] =
       [op |-> "update", user |-> u, permission |-> permission,
        changed |-> u \notin group[permission], visible |-> isVisible]]
  /\ UNCHANGED <<people, accounts, spared>>

\* set_visible: there must be at least one visible contributor.
MaySetVisible(u, isVisible) ==
  u \in contributors /\ (isVisible \/ visible # {u})

UpdateWritten(t) ==
  LET r == thread[t] IN
  /\ r.op = "update" /\ MaySetVisible(r.user, r.visible)
  /\ group' = IF r.changed
              THEN SetPermissions([u \in {r.user} |-> r.permission])
              ELSE group
  /\ visible' = IF r.visible THEN visible \cup {r.user}
                ELSE visible \ {r.user}
  /\ thread' = [thread EXCEPT ![t] = Idle]
  /\ UNCHANGED <<contributors, accounts, spared>>

\* ValueError: the permission that was set is rolled back.
UpdateRefused(t) ==
  /\ thread[t].op = "update"
  /\ ~MaySetVisible(thread[t].user, thread[t].visible)
  /\ thread' = [thread EXCEPT ![t] = Idle]
  /\ UNCHANGED <<people, accounts, spared>>

-----------------------------------------------------------------------------
(* remove_contributor *)

\* By an admin, or by the contributor.
RemovalRequest(t, u) ==
  /\ AdminRequest(t) \/ (thread[t] = Idle /\ Active(u))
  /\ u \in contributors
  /\ visible # {u}

RemoveContributor(t, u) ==
  /\ RemovalRequest(t, u) /\ MayRemove(u)
  /\ thread' = [thread EXCEPT ![t] = [op |-> "remove", user |-> u]]
  /\ UNCHANGED <<people, accounts, spared>>

\* The record was removed before the checks; the 400 of the web site commits
\* that.  (The API rolls it back.)
RemoveRefused(t, u) ==
  /\ RemovalRequest(t, u) /\ ~MayRemove(u)
  /\ unclaimed' = unclaimed \ {u}
  /\ spared' = spared \cup {u}
  /\ UNCHANGED <<people, registered, disabled, mergedBy, thread>>

\* The rows, groups and records of removed contributors.
Removed(users) ==
  /\ contributors' = contributors \ users
  /\ visible' = visible \ users
  /\ group' = ClearPermissions(users)
  /\ unclaimed' = unclaimed \ users
  /\ spared' = spared \ users

\* When the row is gone by now: DoesNotExist, and a rollback.
RemoveWritten(t) ==
  /\ thread[t].op = "remove"
  /\ IF thread[t].user \in contributors THEN Removed({thread[t].user})
     ELSE UNCHANGED <<people, unclaimed, spared>>
  /\ thread' = [thread EXCEPT ![t] = Idle]
  /\ UNCHANGED <<registered, disabled, mergedBy>>

-----------------------------------------------------------------------------
(* manage_contributors *)

\* What the request gives for each contributor that it retains.
UserDicts ==
  UNION {[given -> [permission : Permissions, visible : BOOLEAN]] :
           given \in SUBSET contributors}

(***************************************************************************)
(* Contributors are made visible before others are hidden.  Those that are *)
(* not given are removed, with the outcome ignored: when everybody given   *)
(* is hidden, the last visible contributor stays.  A request that also     *)
(* reorders the contributors fails as soon as it removes one: the order of *)
(* the rows is not modelled, and without it that request changes nothing.  *)
(***************************************************************************)
ManageContributors(t, dicts) ==
  LET given   == DOMAIN dicts
      changed == {u \in given : u \notin group[dicts[u].permission]}
      groups  == SetPermissions([u \in changed |-> dicts[u].permission])
      shown   == visible \cup {u \in given : dicts[u].visible}
      left    == shown \ {u \in given : ~dicts[u].visible}
      removed == contributors \ given
  IN
  /\ AdminRequest(t)
  /\ left # {} \/ shown = left
  /\ \E u \in given \cap groups["admin"] : Active(u)
  /\ \E stays \in IF left \subseteq removed THEN left ELSE {None} :
       LET gone == removed \ {stays} IN
       /\ contributors' = contributors \ gone
       /\ visible' = left \ gone
       /\ group' = [p \in Permissions |-> groups[p] \ gone]
       /\ unclaimed' = unclaimed \ removed
       /\ spared' = (spared \ gone) \cup (removed \cap {stays})
  /\ UNCHANGED <<registered, disabled, mergedBy, thread>>

-----------------------------------------------------------------------------
(* Claims *)

\* replace_contributor: the row, the groups and the record.
Replace(old, new) ==
  LET Moved(users) == IF old \in users THEN (users \ {old}) \cup {new}
                      ELSE users
  IN
  /\ contributors' = Moved(contributors)
  /\ visible' = Moved(visible)
  /\ group' = [p \in Permissions |-> Moved(group[p])]
  /\ unclaimed' = unclaimed \ {old}
  /\ spared' = spared \ {old}

\* claim_user_registered: with the token of the record.
ClaimRegistered(t, u, new) ==
  /\ thread[t] = Idle /\ Unlocked /\ Active(new) /\ new \notin contributors
  /\ u \in unclaimed \cap contributors
  /\ Replace(u, new)
  /\ UNCHANGED <<registered, disabled, mergedBy, thread>>

\* claim_user_form: the user sets a password.
ClaimForm(t, u) ==
  /\ thread[t] = Idle /\ u \in unclaimed \ registered
  /\ registered' = registered \cup {u}
  /\ unclaimed' = unclaimed \ {u}
  /\ UNCHANGED <<people, disabled, mergedBy, spared, thread>>

-----------------------------------------------------------------------------
(* Accounts *)

\* The highest permission of the two.
MergedLevel(self, user) ==
  IF self \in contributors /\ Rank(Level(self)) > Rank(Level(user))
  THEN Level(self) ELSE Level(user)

\* Visible if either of the two is.
MergedVisible(self, user) ==
  IF user \in visible THEN (visible \ {user}) \cup {self} ELSE visible

\* merge_user, of user into self, whichever accounts these are.
MergeUser(self, user) ==
  /\ self # user
  /\ IF user \in contributors
     THEN LET level == MergedLevel(self, user) IN
          /\ contributors' = (contributors \ {user}) \cup {self}
          /\ visible' = MergedVisible(self, user)
          /\ group' = [SetPermissions([u \in {self} |-> level])
                         EXCEPT ![Level(user)] = @ \ {user}]
     ELSE UNCHANGED people
  /\ mergedBy' = [mergedBy EXCEPT ![user] = self]
  /\ spared' = spared \ {user}
  /\ UNCHANGED disabled

\* confirm_email of an address of user.  The first address of an account
\* registers it; an account that is disabled may be left unregistered.
ConfirmEmail(t, self, user) ==
  /\ thread[t] = Idle /\ mergedBy[self] = None
  /\ MergeUser(self, user)
  /\ \/ registered' = registered \cup {self}
     \/ self \in disabled /\ user \notin registered /\ registered' = registered
  /\ unclaimed' = unclaimed \ {self, user}
  /\ UNCHANGED thread

\* UserMergeAccounts does not save self, registered or not.
MergeAccounts(t, self, user) ==
  /\ thread[t] = Idle
  /\ MergeUser(self, user)
  /\ unclaimed' = unclaimed \ {user}
  /\ UNCHANGED <<registered, thread>>

\* The staff, or the spam filter, suspends the account, or restores it.
Disable(t, u) ==
  /\ thread[t] = Idle /\ u \notin disabled
  /\ disabled' = disabled \cup {u}
  /\ registered' = registered \ {u}
  /\ UNCHANGED <<people, mergedBy, unclaimed, spared, thread>>

\* Mutated form: is_registered is not restored.
EnableUnregistered(t, u) ==
  /\ thread[t] = Idle /\ u \in disabled
  /\ disabled' = disabled \ {u}
  /\ UNCHANGED <<people, registered, mergedBy, unclaimed, spared, thread>>

Enable(t, u) ==
  /\ thread[t] = Idle /\ u \in disabled
  /\ disabled' = disabled \ {u}
  /\ registered' = registered \cup {u}
  /\ UNCHANGED <<people, mergedBy, unclaimed, spared, thread>>

\* gdpr_delete: the resource is shared, and has an alternate admin.
MayDelete(u) ==
  /\ contributors # {u}
  /\ \E w \in group["admin"] \ {u} : Active(w)

\* The outcome of remove_contributor is ignored.
GdprDelete(t, u) ==
  /\ thread[t] = Idle /\ u \in contributors /\ MayDelete(u)
  /\ IF MayRemove(u) THEN Removed({u})
     ELSE /\ unclaimed' = unclaimed \ {u}
          /\ spared' = spared \cup {u}
          /\ UNCHANGED people
  /\ disabled' = disabled \cup {u}
  /\ UNCHANGED <<registered, mergedBy, thread>>

-----------------------------------------------------------------------------
\* Those of S were not registered by the merge that made them contributors.
LeftUnsaved(S) ==
  unsaved' = (unsaved \cup S) \cap (contributors' \ (registered \cup disabled)')

Next ==
  \E t \in Threads :
    \/ /\ \/ \E u \in Users :
               \/ \E permission \in Permissions, isVisible \in BOOLEAN :
                    \/ AddContributor(t, u, permission, isVisible)
                    \/ UpdateContributor(t, u, permission, isVisible)
               \/ AddRefused(t, u)
               \/ RemoveContributor(t, u) \/ RemoveRefused(t, u)
               \/ ClaimForm(t, u)
               \/ \E new \in Users : ClaimRegistered(t, u, new)
               \/ \E self \in Users : ConfirmEmail(t, self, u)
               \/ Disable(t, u) \/ Enable(t, u) \/ GdprDelete(t, u)
          \/ \E dicts \in UserDicts : ManageContributors(t, dicts)
          \/ UpdateWritten(t) \/ UpdateRefused(t)
          \/ RemoveWritten(t)
       /\ LeftUnsaved({})
    \/ \E self, user \in Users :
         MergeAccounts(t, self, user) /\ LeftUnsaved({self})

Spec == Init /\ [][Next]_vars

-----------------------------------------------------------------------------
TypeOK ==
  /\ contributors \subseteq Users /\ visible \subseteq contributors
  /\ group \in [Permissions -> SUBSET Users]
  /\ registered \subseteq Users /\ disabled \subseteq Users
  /\ mergedBy \in [Users -> Users \cup {None}]
  /\ unclaimed \subseteq Users /\ spared \subseteq Users
  /\ unsaved \subseteq Users
  /\ thread \in [Threads -> {Idle} \cup Pending]

\* The resource keeps an admin contributor who is registered, or was until the
\* staff or the spam filter suspended the account: none of the removals,
\* demotions, claims, merges and deletions, each with a check of its own, takes
\* the last one, as long as requests do not overlap and but for a merge by the
\* staff into an account that it leaves unregistered.
AdminRemains ==
  \E u \in contributors \cap group["admin"] :
    u \in registered \cup disabled \cup unsaved

\* Somebody is cited, as long as requests do not overlap: whether it is asked
\* for by hiding, removing, managing, merging, claiming or deleting.
VisibleRemains == visible # {}

\* A permission belongs to a contributor, and a contributor has exactly one:
\* the rows and the groups, written one after the other, agree.
OnePermissionEach ==
  /\ \A u \in contributors :
       \E p \in Permissions : \A q \in Permissions : u \in group[q] <=> q = p
  /\ \A p \in Permissions : group[p] \subseteq contributors

\* An unregistered contributor can claim the account, unless a removal that
\* was refused has taken the record, which remove_contributor drops first, or
\* a merge by the staff has put an account without one in place of another.
UnregisteredIsClaimable ==
  \A u \in contributors \ (registered \cup disabled) :
    u \in unclaimed \cup spared \cup unsaved

\* manage_contributors and gdpr_delete ignore whether a removal succeeded.  It
\* only fails for somebody who is then the only visible contributor, so a
\* request that leaves another one visible removes all it was meant to; a
\* removal that is refused spares the last active admin.
SparedForAReason ==
  [][\A u \in spared' \ spared :
       visible' = {u} \/ (AdminContributors(Users \ {u}))' = {}]_vars

=============================================================================
