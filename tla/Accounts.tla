------------------------------- MODULE Accounts -------------------------------
(***************************************************************************)
(* The accounts of the OSF: how they are created, confirmed, merged,       *)
(* disabled and deleted, the addresses and external identities by which    *)
(* their owners sign in, and the links mailed to confirm these             *)
(* (osf/models/user.py, framework/auth, admin/users).                      *)
(*                                                                         *)
(* An address is confirmed when it has a row in the table of e-mails,      *)
(* which names its account; an account signs in with its username, an      *)
(* address that no other account has as username.  A link that is still to *)
(* be followed is a record in the row of its account.  Each request is one *)
(* step.  What else an account owns is left out, and so are sessions: who  *)
(* is active may ask.                                                      *)
(***************************************************************************)
EXTENDS Naturals

CONSTANTS
  Accounts,     \* the accounts that may be created
  Addresses,    \* the e-mail addresses
  Identities,   \* the external identities, ORCID iDs
  None,         \* no account, no address, no identity
  Tokens,       \* the tokens of links that may wait at once, a bound
  MaxActs       \* how often administrators act, a bound

ASSUME NoneAssumption ==
  None \notin Accounts \cup Addresses \cup Identities

ASSUME BoundAssumption == MaxActs \in Nat

VARIABLES
  user,    \* user[a]: the row of account a
  emails,  \* emails[e]: the account that has confirmed address e
  acts,    \* how often administrators have acted
  chosen,  \* history: who chose, by the API, a username not agreed to yet
  revived  \* history: the merged accounts another was merged into since

vars == <<user, emails, acts, chosen, revived>>

-----------------------------------------------------------------------------
\* A link to confirm an address, or with it an identity.
Links == [token : Tokens, email : Addresses, identity : Identities \cup {None}]

Row == [made : BOOLEAN, username : Addresses \cup {None},
        registered : BOOLEAN, confirmed : BOOLEAN, password : BOOLEAN,
        unclaimed : BOOLEAN, disabled : BOOLEAN,
        merged : BOOLEAN, links : SUBSET Links,
        identity : [Identities -> {"none", "CREATE", "LINK", "VERIFIED"}]]

\* A row as it is created; None is a username without an @.
Fresh(username) ==
  [made |-> TRUE, username |-> username, registered |-> FALSE,
   confirmed |-> FALSE, password |-> FALSE, unclaimed |-> FALSE,
   disabled |-> FALSE, merged |-> FALSE, links |-> {},
   identity |-> [i \in Identities |-> "none"]]

NotMade == [Fresh(None) EXCEPT !.made = FALSE]

Made == {a \in Accounts : user[a].made}

\* update_is_active.
IsActive(r) ==
  /\ r.registered /\ r.confirmed /\ ~r.merged /\ ~r.disabled
  /\ r.password \/ \E i \in Identities : r.identity[i] = "VERIFIED"

Active == {a \in Made : IsActive(user[a])}

\* check_user.
Status(r) ==
  CASE IsActive(r)          -> "active"
    [] r.disabled           -> "disabled"
    [] ~r.disabled /\ r.merged -> "merged"
    [] OTHER ->
         IF r.confirmed \/ r.registered THEN "invalid"
         ELSE IF r.password \/ \E i \in Identities : r.identity[i] = "CREATE"
              THEN "unconfirmed" ELSE "unclaimed"

\* get_user: nobody where several match.
Matches(e) == {a \in Made : user[a].username = e \/ emails[e] = a}
GetUser(e) == LET m == Matches(e)
              IN IF \E a \in m : m = {a} THEN CHOOSE a \in m : TRUE ELSE None

\* The unique columns of the two tables.
UsernameFree(a, e) == \A b \in Made \ {a} : user[b].username \notin {e} \ {None}
EmailFree(a, e)    == emails[e] \in {a, None}

UsedTokens == {l.token : l \in UNION {user[a].links : a \in Accounts}}

\* add_unconfirmed_email: a link to an address replaces one that waits.
AddUnconfirmed(a, r, e, i) ==
  LET same == {l \in r.links : l.email = e}
      old  == IF same = {} THEN {{}} ELSE {{l} : l \in same}
  IN IF i = None /\ emails[e] = a THEN {}
     ELSE {[r EXCEPT !.links =
             (@ \ o) \cup {[token |-> k, email |-> e, identity |-> i]}] :
           o \in old, k \in Tokens \ UsedTokens}

Save(a, r) == user' = [user EXCEPT ![a] = r]

\* Who goes by an address that is not, or no longer, their own ...
Unagreed ==
  {a \in Accounts : user[a].username # None /\ emails[user[a].username] # a}

\* ... and was let do so: those of S have just chosen it.
Chose(S) == chosen' = (chosen \cup S) \cap Unagreed'

-----------------------------------------------------------------------------
Init ==
  /\ user = [a \in Accounts |-> NotMade]
  /\ emails = [e \in Addresses |-> None]
  /\ acts = 0
  /\ chosen = {}
  /\ revived = {}

\* create_unconfirmed.
CreateUnconfirmed(e, password, i, others) ==
  \E a \in Accounts \ Made :
    /\ UsernameFree(a, e)
    /\ \E r \in AddUnconfirmed(a, Fresh(e), e, i) :
         user' = [others EXCEPT ![a] =
                   [r EXCEPT !.password = password,
                             !.identity = [j \in Identities |->
                                IF j = i THEN "CREATE" ELSE "none"]]]
    /\ UNCHANGED emails

\* register_unconfirmed.
RegisterUnconfirmed(e) ==
  LET a == GetUser(e)
  IN \/ a = None /\ CreateUnconfirmed(e, TRUE, None, user)
     \/ /\ a # None /\ ~user[a].registered
        /\ \E r \in AddUnconfirmed(a, user[a], e, None) :
             Save(a, [r EXCEPT !.password = TRUE])
        /\ UNCHANGED emails

\* deserialize_contributors: who is invited gets a record to claim, unless the
\* account that has the name is registered.
Invite(e) ==
  /\ UNCHANGED emails
  /\ \/ \E a \in Accounts \ Made :
          /\ UsernameFree(a, e)
          /\ Save(a, [Fresh(e) EXCEPT !.unclaimed = TRUE])
     \/ \E a \in {GetUser(e)} \ {None} :
          /\ ~UsernameFree(None, e) /\ ~user[a].registered
          /\ Save(a, [user[a] EXCEPT !.unclaimed = TRUE])

\* register: the account takes the address as its username.
Registered(r, e) ==
  [r EXCEPT !.username = e, !.registered = TRUE, !.confirmed = TRUE]

\* claim_user_form.
Claim(a, e) ==
  /\ a \in Made /\ user[a].unclaimed
  /\ emails[e] # None => ~user[emails[e]].registered
  /\ UsernameFree(a, e) /\ EmailFree(a, e)
  /\ Save(a, [Registered(user[a], e) EXCEPT !.password = TRUE,
                                            !.unclaimed = FALSE])
  /\ emails' = [emails EXCEPT ![e] = a]

\* The sign-on of an institution, which vouches for the address.
InstitutionSignOn(e) ==
  LET a == GetUser(e)
  IN \/ /\ a = None /\ emails[e] = None
        /\ \E b \in Accounts \ Made :
             /\ UsernameFree(b, e)
             /\ Save(b, [Registered(Fresh(e), e) EXCEPT !.password = TRUE])
             /\ emails' = [emails EXCEPT ![e] = b]
     \/ /\ a # None /\ EmailFree(a, e)
        /\ \/ /\ Status(user[a]) = "unclaimed"
              /\ Save(a, [Registered(user[a], e) EXCEPT !.password = TRUE,
                                                        !.unclaimed = FALSE])
           \/ /\ Status(user[a]) = "unconfirmed" /\ user[a].password
              /\ Save(a, [Registered(user[a], e) EXCEPT !.links = {}])
        /\ emails' = [emails EXCEPT ![e] = a]

-----------------------------------------------------------------------------
\* Mutated form: the links of a merged account stay with it.
LinksAreLeft(s) ==
  [s EXCEPT !.username = None, !.password = FALSE, !.unclaimed = FALSE,
            !.merged = TRUE,
            !.identity = [i \in Identities |-> "none"]]

\* What merge_user makes of the row r of the account that merges ...
Merging(r, s) ==
  [r EXCEPT !.registered = @ \/ s.registered,
            !.unclaimed = @ \/ s.unclaimed,
            !.links = @ \cup {l \in s.links : l.email # s.username},
            !.identity = [i \in Identities |->
               CASE s.identity[i] = "none" -> @[i]
                 [] s.identity[i] = "VERIFIED" -> "VERIFIED"
                 [] OTHER -> IF @[i] = "VERIFIED" THEN @[i] ELSE "LINK"]]

\* ... and of the row s that is merged.
Merged(s) ==
  [s EXCEPT !.username = None, !.password = FALSE, !.unclaimed = FALSE,
            !.links = {}, !.merged = TRUE,
            !.identity = [i \in Identities |-> "none"]]

\* confirm_email: who has confirmed the address before is merged if that is
\* asked for, and who has it as a username is merged in any case.
ConfirmEmail(a, l, merge) ==
  LET e      == l.email
      old    == {emails[e]} \ {None}
      invited == {b \in Made \ ({a} \cup old) : user[b].username = e}
      first  == IF old = {} THEN user[a] ELSE Merging(user[a], user[emails[e]])
      second == IF invited = {} THEN first
                ELSE Merging(first, user[CHOOSE b \in invited : TRUE])
      row    == IF e = second.username THEN Registered(second, e) ELSE second
  IN /\ a \in Made /\ l \in user[a].links /\ l.identity = None
     /\ emails[e] # a /\ (emails[e] # None => merge)
     /\ user' = [b \in Accounts |->
          CASE b = a -> [row EXCEPT !.links = @ \ {l}, !.unclaimed = FALSE]
            [] b # a /\ b \in old \cup invited -> Merged(user[b])
            [] OTHER -> user[b]]
     /\ emails' = [f \in Addresses |->
          IF f = e \/ emails[f] \in old \cup invited THEN a ELSE emails[f]]
     /\ revived' = revived \ (old \cup invited)

\* The rows once identity i is nobody's who waits to have it verified.
Dropped(i, S) ==
  [b \in Accounts |-> IF b \in S THEN [user[b] EXCEPT !.identity[i] = "none"]
                      ELSE user[b]]

\* ensure_external_identity_uniqueness finds that i is another's: a loses it,
\* and those are who were looked at before.
Claimed(i, a) == \E b \in Made \ {a} : user[b].identity[i] = "VERIFIED"
\* Mutated form: others may go on waiting for the identity.
NobodyWaits(i, a) == {}

Waiting(i, a) ==
  {b \in Made \ {a} : user[b].identity[i] \in {"CREATE", "LINK"}}
RefuseIdentity(i, a) ==
  /\ Claimed(i, a)
  /\ \E S \in SUBSET Waiting(i, a) : user' = Dropped(i, S \cup ({a} \ {None}))
  /\ UNCHANGED emails

\* external_login_email_post: who signs in with an unknown identity names an
\* address, and with it an account, or gets a new one.
ExternalLogin(e, i) ==
  LET a == GetUser(e)
      others == Dropped(i, Waiting(i, a))
  IN \/ RefuseIdentity(i, a)
     \/ /\ ~Claimed(i, a) /\ a # None
        /\ \E r \in AddUnconfirmed(a, user[a], e, i) :
             user' = [others EXCEPT ![a] = [r EXCEPT !.identity[i] = "LINK"]]
        /\ UNCHANGED emails
     \/ /\ ~Claimed(i, a) /\ a = None
        /\ CreateUnconfirmed(e, FALSE, i, others)

\* external_login_confirm_email_get.
ConfirmExternal(a, l) ==
  LET e == l.email
      i == l.identity
      r == IF user[a].registered THEN user[a] ELSE Registered(user[a], e)
  IN /\ a \in Made /\ l \in user[a].links /\ i # None
     /\ user[a].identity[i] # "none"
     /\ \/ RefuseIdentity(i, a)
        \/ /\ ~Claimed(i, a) /\ EmailFree(a, e)
           /\ UsernameFree(a, r.username)
           /\ user' = [Dropped(i, Waiting(i, a)) EXCEPT ![a] =
                 [r EXCEPT !.links = @ \ {l}, !.identity[i] = "VERIFIED"]]
           /\ emails' = [emails EXCEPT ![e] = a]

-----------------------------------------------------------------------------
\* An address is added, or a link to it mailed again, in the settings ...
AddEmail(a, e) ==
  /\ a \in Active
  /\ \E r \in AddUnconfirmed(a, user[a], e, None) : Save(a, r)
  /\ UNCHANGED emails

\* ... or by resend_confirmation_post, for an address with a link.
ResendConfirmation(e) ==
  LET a == GetUser(e)
  IN /\ a # None /\ \E l \in user[a].links : l.email = e
     /\ \E r \in AddUnconfirmed(a, user[a], e, None) : Save(a, r)
     /\ UNCHANGED emails

\* Mutated form: the username may be removed too.
RemoveAnyEmail(a, e) ==
  /\ a \in Active /\ emails[e] = a
  /\ emails' = [emails EXCEPT ![e] = None]
  /\ UNCHANGED user

\* remove_email; update_user also drops a link to the address.
RemoveEmail(a, e) ==
  /\ a \in Active /\ emails[e] = a /\ e # user[a].username
  /\ emails' = [emails EXCEPT ![e] = None]
  /\ \E S \in {{}} \cup {{l} : l \in {k \in user[a].links : k.email = e}} :
       Save(a, [user[a] EXCEPT !.links = @ \ S])

\* unconfirmed_email_remove drops a link and those that have expired.
RemoveLinks(a) ==
  /\ a \in Active
  /\ \E S \in SUBSET user[a].links \ {{}} :
       Save(a, [user[a] EXCEPT !.links = @ \ S])
  /\ UNCHANGED emails

\* A confirmed address becomes the username.  The API takes one whose link was
\* followed too, though the account has yet to agree to it.
Primaries(a) ==
  {e \in Addresses : emails[e] = a} \cup
  {l.email : l \in {k \in user[a].links : k.identity = None}}

SetPrimary(a, e) ==
  /\ a \in Active /\ e \in Primaries(a) /\ UsernameFree(a, e)
  /\ Save(a, [user[a] EXCEPT !.username = e])
  /\ UNCHANGED emails

SetPassword(a) ==
  /\ a \in Active
  /\ Save(a, [user[a] EXCEPT !.password = TRUE])
  /\ UNCHANGED emails

DeleteIdentity(a, i) ==
  /\ a \in Active /\ user[a].identity[i] # "none"
  /\ Save(a, [user[a] EXCEPT !.identity[i] = "none"])
  /\ UNCHANGED emails

-----------------------------------------------------------------------------
\* The administrators' pages work on any account, merged or erased included.
\* UserDeleteView disables an account, as does the nightly script for accounts
\* whose owners ask for it, and restores it.
Disable(a) ==
  /\ a \in Made /\ ~user[a].disabled
  /\ Save(a, [user[a] EXCEPT !.disabled = TRUE, !.registered = FALSE])
  /\ UNCHANGED emails

Restore(a) ==
  /\ a \in Made /\ user[a].disabled
  /\ Save(a, [user[a] EXCEPT !.disabled = FALSE, !.registered = TRUE])
  /\ UNCHANGED emails

GdprDelete(a) ==
  /\ a \in Made
  /\ Save(a, [user[a] EXCEPT !.disabled = TRUE, !.username = None,
                             !.password = FALSE, !.unclaimed = FALSE,
                             !.identity = [i \in Identities |-> "none"]])
  /\ emails' = [e \in Addresses |-> IF emails[e] = a THEN None ELSE emails[e]]

\* UserMergeAccounts saves the account that is merged, not the one that merges.
MergeAccounts(a, b) ==
  /\ a \in Made /\ b \in Made \ {a}
  /\ Save(b, Merged(user[b]))
  /\ emails' = [e \in Addresses |-> IF emails[e] = b THEN a ELSE emails[e]]
  /\ revived' = (revived \ {b}) \cup {c \in {a} : user[c].merged}

-----------------------------------------------------------------------------
Visitor ==
  /\ \E e \in Addresses :
       \/ RegisterUnconfirmed(e) \/ Invite(e) \/ InstitutionSignOn(e)
       \/ ResendConfirmation(e)
       \/ \E a \in Accounts : Claim(a, e)
       \/ \E i \in Identities : ExternalLogin(e, i)
  /\ Chose({})
  /\ UNCHANGED <<acts, revived>>

Follow ==
  /\ \E a \in Accounts : \E l \in user[a].links :
       \/ ConfirmExternal(a, l) /\ UNCHANGED revived
       \/ \E merge \in BOOLEAN : ConfirmEmail(a, l, merge)
  /\ Chose({})
  /\ UNCHANGED acts

Settings ==
  /\ \E a \in Accounts :
       \/ /\ \/ RemoveLinks(a) \/ SetPassword(a)
             \/ \E e \in Addresses : AddEmail(a, e) \/ RemoveEmail(a, e)
             \/ \E i \in Identities : DeleteIdentity(a, i)
          /\ Chose({})
       \/ \E e \in Addresses : SetPrimary(a, e) /\ Chose({a})
  /\ UNCHANGED <<acts, revived>>

Admin ==
  /\ acts < MaxActs /\ acts' = acts + 1
  /\ \E a \in Accounts :
       \/ (Disable(a) \/ Restore(a) \/ GdprDelete(a)) /\ UNCHANGED revived
       \/ \E b \in Accounts : MergeAccounts(a, b)
  /\ Chose({})

Next == Visitor \/ Follow \/ Settings \/ Admin

Spec == Init /\ [][Next]_vars

-----------------------------------------------------------------------------
TypeOK ==
  /\ user \in [Accounts -> Row]
  /\ emails \in [Addresses -> Accounts \cup {None}]
  /\ acts \in 0..MaxActs
  /\ chosen \subseteq Accounts
  /\ revived \subseteq Accounts

\* An active account is the one that is found by its username, to sign in or
\* to reset its password, whoever else confirms, removes or merges addresses;
\* but for who took, through the API, an address not yet agreed to.
ActiveIsFound ==
  \A a \in Active \ chosen :
    user[a].username # None => Matches(user[a].username) = {a}

\* An external identity that is verified is on no other account, not even as
\* one to be verified, whatever is created, linked, confirmed and merged: get_user
\* signs in nobody when it finds two.
IdentityIsUnique ==
  \A i \in Identities : \A a, b \in Accounts :
    user[a].identity[i] = "VERIFIED" /\ user[b].identity[i] # "none" => a = b

\* A merged account keeps nothing to sign in with, and regains nothing: no
\* link, invitation or identity leads to it, until an administrator merges
\* another account into it, which nothing prevents.
MergedIsEmpty ==
  \A a \in Accounts \ revived : user[a].merged =>
    /\ user[a].username = None /\ user[a].links = {} /\ ~user[a].password
    /\ \A e \in Addresses : emails[e] # a
    /\ \A i \in Identities : user[a].identity[i] = "none"

\* The username of an active account is not an address that is confirmed to
\* another.  The API says that an unconfirmed address cannot be primary, and
\* calls one confirmed to another user unconfirmed.
PrimaryIsNotAnothers ==
  \A a \in Active : \A e \in Addresses :
    e = user[a].username => emails[e] \in {a, None}
===============================================================================
