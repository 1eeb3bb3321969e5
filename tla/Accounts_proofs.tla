---------------------------- MODULE Accounts_proofs ----------------------------
(***************************************************************************)
(* Proofs about Accounts, for any accounts, addresses, identities and      *)
(* tokens.  The invariant relates the table of accounts to that of         *)
(* addresses.  Every request changes the row of one account, after it has  *)
(* dropped a waiting identity from others or merged others into it: three  *)
(* lemmas say that each of these keeps the invariant, and the proof of an  *)
(* action shows that it is made of them.                                   *)
(***************************************************************************)
EXTENDS Accounts, TLAPS

\* A row that is not made is the empty one.
RowOK(r) == r \in Row /\ (~r.made => r = NotMade)

\* The unique column of usernames.
Alone(u) ==
  \A a, b \in Accounts : u[a].username = u[b].username /\ u[a].username # None => a = b

\* An address is confirmed by an account that is made.
Owned(u, m) ==
  \A e \in Addresses : m[e] # None => u[m[e]].made

\* A confirmed account has confirmed its username, but for those of c.
Listed(u, m, c) ==
  \A a \in Accounts \ c :
    u[a].confirmed /\ u[a].username # None => m[u[a].username] = a

\* A verified identity has one owner.
Unshared(u) ==
  \A i \in Identities : \A a, b \in Accounts :
    u[a].identity[i] = "VERIFIED" /\ u[b].identity[i] # "none" => a = b

\* Nobody finds account a, whose row is r, and no link or invitation waits.
Bare(a, r, m) ==
  /\ r.username = None /\ r.links = {} /\ ~r.password /\ ~r.unclaimed
  /\ \A i \in Identities : r.identity[i] = "none"
  /\ \A e \in Addresses : m[e] # a

\* So it is with the merged accounts, but for those of v.
Emptied(u, m, v) == \A a \in Accounts \ v : u[a].merged => Bare(a, u[a], m)

\* The inductive invariant, of the rows u, the addresses m and the exceptions.
AccountsInv(u, m, c, v) ==
  /\ u \in [Accounts -> Row]
  /\ m \in [Addresses -> Accounts \cup {None}]
  /\ c \in SUBSET Accounts /\ v \in SUBSET Accounts
  /\ \A a \in Accounts : RowOK(u[a])
  /\ Alone(u) /\ Owned(u, m) /\ Unshared(u)
  /\ Listed(u, m, c) /\ Emptied(u, m, v)

\* Who has nothing to be excepted for need not be.
LEMMA Excepted ==
  ASSUME NEW u, NEW m, NEW c, NEW v, AccountsInv(u, m, c, v),
         NEW d \in SUBSET Accounts, NEW w \in SUBSET Accounts,
         \A a \in c \ d : u[a].username # None => m[u[a].username] = a,
         \A a \in v \ w : Bare(a, u[a], m)
  PROVE  AccountsInv(u, m, d, w)
<1>1. Listed(u, m, d)
  BY DEF AccountsInv, Listed
<1>2. Emptied(u, m, w)
  BY DEF AccountsInv, Emptied
<1> QED
  BY <1>1, <1>2 DEF AccountsInv

-----------------------------------------------------------------------------
(* The three kinds of change.                                              *)

\* Row a becomes r, whose username no other has and which is not a merged one
\* that gains something; the addresses of others stay theirs, and a takes over
\* no identity of others.
Change(u, m, a, r, m2, c, v) ==
  /\ a \in Accounts /\ r \in Row /\ r.made
  /\ r.merged => a \in v \/ Bare(a, r, m2)
  /\ \/ r.username \in {None, u[a].username}
     \/ \A b \in Accounts \ {a} : u[b].username # r.username
  /\ m2 \in [Addresses -> Accounts \cup {None}]
  /\ \A e \in Addresses : m2[e] # m[e] => m[e] \in {a, None} /\ m2[e] \in {a, None}
  /\ a \notin c /\ r.confirmed /\ r.username # None => m2[r.username] = a
  /\ \A i \in Identities :
       \/ r.identity[i] \in {"none", u[a].identity[i]}
       \/ \A b \in Accounts \ {a} : u[b].identity[i] = "none"
       \/ /\ r.identity[i] # "VERIFIED"
          /\ \A b \in Accounts \ {a} : u[b].identity[i] # "VERIFIED"

LEMMA OneRow ==
  ASSUME NEW u, NEW m, NEW c, NEW v, AccountsInv(u, m, c, v),
         NEW a, NEW r, NEW m2, Change(u, m, a, r, m2, c, v)
  PROVE  AccountsInv([u EXCEPT ![a] = r], m2, c, v)
<1> USE DEF Change
<1> DEFINE w == [u EXCEPT ![a] = r]
<1>1. /\ u \in [Accounts -> Row] /\ w \in [Accounts -> Row]
      /\ w[a] = r /\ \A b \in Accounts \ {a} : w[b] = u[b]
  BY DEF AccountsInv, RowOK
<1>2. \A b \in Accounts : RowOK(w[b])
  BY <1>1 DEF AccountsInv, RowOK
<1>3. Alone(w)
  BY <1>1 DEF AccountsInv, Alone
<1>4. Owned(w, m2)
  BY <1>1, NoneAssumption DEF AccountsInv, Owned
<1>5. Unshared(w)
  BY <1>1 DEF AccountsInv, Unshared
<1>6. Listed(w, m2, c)
  <2> SUFFICES ASSUME NEW b \in Accounts \ c, w[b].confirmed, w[b].username # None
               PROVE  m2[w[b].username] = b
    BY DEF Listed
  <2>1. CASE b = a
    BY <2>1, <1>1
  <2>2. CASE b # a
    <3>1. w[b] = u[b] /\ u[b].username \in Addresses
      BY <2>2, <1>1 DEF Row
    <3>2. m[u[b].username] = b
      BY <3>1 DEF AccountsInv, Listed
    <3> QED
      BY <2>2, <3>1, <3>2, NoneAssumption
  <2> QED
    BY <2>1, <2>2
<1>7. Emptied(w, m2, v)
  <2> SUFFICES ASSUME NEW b \in Accounts \ v, w[b].merged PROVE Bare(b, w[b], m2)
    BY DEF Emptied
  <2>1. CASE b = a
    BY <2>1, <1>1
  <2>2. CASE b # a
    <3>1. w[b] = u[b] /\ Bare(b, u[b], m)
      BY <2>2, <1>1 DEF AccountsInv, Emptied
    <3> QED
      BY <2>2, <3>1, NoneAssumption DEF Bare
  <2> QED
    BY <2>1, <2>2
<1> QED
  BY <1>1, <1>2, <1>3, <1>4, <1>5, <1>6, <1>7 DEF AccountsInv

\* Some rows lose an identity that they do not own.
LEMMA LoseIdentity ==
  ASSUME NEW i \in Identities, NEW S \in SUBSET Made,
         AccountsInv(user, emails, chosen, revived)
  PROVE  /\ AccountsInv(Dropped(i, S), emails, chosen, revived)
         /\ \A b \in Accounts : LET r == Dropped(i, S)[b] IN
              /\ r.made = user[b].made /\ r.username = user[b].username
              /\ r.confirmed = user[b].confirmed
              /\ \A j \in Identities :
                   r.identity[j] = IF b \in S /\ j = i THEN "none"
                                   ELSE user[b].identity[j]
<1> DEFINE v == Dropped(i, S)
<1>1. user \in [Accounts -> Row]
  BY DEF AccountsInv
<1>2. \A b \in Accounts :
        v[b] = IF b \in S THEN [user[b] EXCEPT !.identity[i] = "none"] ELSE user[b]
  BY DEF Dropped
<1>3. ASSUME NEW b \in Accounts
      PROVE  /\ v[b] \in Row
             /\ v[b].made = user[b].made /\ v[b].username = user[b].username
             /\ v[b].confirmed = user[b].confirmed
             /\ v[b].password = user[b].password
             /\ v[b].unclaimed = user[b].unclaimed
             /\ v[b].merged = user[b].merged /\ v[b].links = user[b].links
             /\ \A j \in Identities :
                  v[b].identity[j] = IF b \in S /\ j = i THEN "none"
                                     ELSE user[b].identity[j]
  <2>1. CASE b \in S
    <3> DEFINE f == [user[b].identity EXCEPT ![i] = "none"]
    <3>1. v[b] = [user[b] EXCEPT !.identity = f]
      BY <2>1, <1>2
    <3>2. user[b] \in Row /\ user[b].identity \in
            [Identities -> {"none", "CREATE", "LINK", "VERIFIED"}]
      BY <1>1 DEF Row
    <3>3. /\ f \in [Identities -> {"none", "CREATE", "LINK", "VERIFIED"}]
          /\ \A j \in Identities :
               f[j] = IF j = i THEN "none" ELSE user[b].identity[j]
      BY <3>2
    <3> HIDE DEF f
    <3> QED
      BY <2>1, <3>1, <3>2, <3>3 DEF Row
  <2>2. CASE b \notin S
    BY <2>2, <1>1, <1>2
  <2> QED
    BY <2>1, <2>2
<1>4. v \in [Accounts -> Row]
  BY <1>3 DEF Dropped
<1>5. ASSUME NEW b \in Accounts PROVE RowOK(v[b])
  <2>1. RowOK(user[b])
    BY DEF AccountsInv
  <2>2. CASE ~v[b].made
    <3>1. b \notin S
      BY <2>2, <1>3 DEF Made
    <3> QED
      BY <3>1, <2>1, <1>2
  <2>3. CASE v[b].made
    BY <2>3, <2>1, <1>3 DEF RowOK
  <2> QED
    BY <2>2, <2>3
<1>6. Alone(v) /\ Owned(v, emails) /\ Unshared(v)
  <2>1. Alone(v)
    BY <1>3 DEF AccountsInv, Alone
  <2>2. Owned(v, emails)
    BY <1>3 DEF AccountsInv, Owned
  <2>3. Unshared(v)
    BY <1>3 DEF AccountsInv, Unshared
  <2> QED
    BY <2>1, <2>2, <2>3
<1>7. Listed(v, emails, chosen)
  BY <1>3 DEF AccountsInv, Listed
<1>8. Emptied(v, emails, revived)
  BY <1>3 DEF AccountsInv, Emptied, Bare
<1> QED
  BY <1>3, <1>4, <1>5, <1>6, <1>7, <1>8 DEF AccountsInv

\* merge_user keeps what the account that merges is found by, and takes over
\* identities, the verified ones as verified.
LEMMA MergingRow ==
  ASSUME NEW r \in Row, NEW s \in Row
  PROVE  LET t == Merging(r, s) IN
         /\ t \in Row
         /\ t.made = r.made /\ t.username = r.username /\ t.confirmed = r.confirmed
         /\ t.password = r.password
         /\ t.merged = r.merged
         /\ \A i \in Identities :
              /\ t.identity[i] = "none" <=>
                   r.identity[i] = "none" /\ s.identity[i] = "none"
              /\ t.identity[i] = "VERIFIED" <=>
                   r.identity[i] = "VERIFIED" \/ s.identity[i] = "VERIFIED"
<1> DEFINE kinds == {"none", "CREATE", "LINK", "VERIFIED"}
           f == [i \in Identities |->
                  CASE s.identity[i] = "none" -> r.identity[i]
                    [] s.identity[i] = "VERIFIED" -> "VERIFIED"
                    [] OTHER -> IF r.identity[i] = "VERIFIED" THEN r.identity[i]
                                ELSE "LINK"]
           g == r.registered \/ s.registered
           h == r.unclaimed \/ s.unclaimed
           k == r.links \cup {l \in s.links : l.email # s.username}
<1>1. /\ r.identity \in [Identities -> kinds] /\ s.identity \in [Identities -> kinds]
      /\ r.links \in SUBSET Links /\ s.links \in SUBSET Links
  BY DEF Row
<1>2. ASSUME NEW i \in Identities
      PROVE  /\ f[i] \in kinds
             /\ f[i] = "none" <=> r.identity[i] = "none" /\ s.identity[i] = "none"
             /\ f[i] = "VERIFIED" <=>
                  r.identity[i] = "VERIFIED" \/ s.identity[i] = "VERIFIED"
  <2>1. r.identity[i] \in kinds /\ s.identity[i] \in kinds
    BY <1>1
  <2> QED
    BY <2>1
<1>3. f \in [Identities -> kinds] /\ g \in BOOLEAN /\ h \in BOOLEAN
      /\ k \in SUBSET Links
  BY <1>1, <1>2
<1>4. Merging(r, s) = [r EXCEPT !.registered = g, !.unclaimed = h, !.links = k,
                                !.identity = f]
  BY DEF Merging
<1> HIDE DEF f, g, h, k
<1>5. /\ Merging(r, s) \in Row
      /\ Merging(r, s).identity = f
      /\ Merging(r, s).made = r.made /\ Merging(r, s).username = r.username
      /\ Merging(r, s).confirmed = r.confirmed
      /\ Merging(r, s).password = r.password
      /\ Merging(r, s).merged = r.merged
  BY <1>3, <1>4 DEF Row
<1> QED
  BY <1>2, <1>5

LEMMA MergedRow ==
  ASSUME NEW s \in Row, s.made
  PROVE  LET t == Merged(s) IN
         /\ t \in Row /\ t.made /\ t.merged
         /\ t.username = None /\ t.links = {} /\ ~t.password /\ ~t.unclaimed
         /\ \A i \in Identities : t.identity[i] = "none"
<1> DEFINE f == [i \in Identities |-> "none"]
<1>1. Merged(s) = [s EXCEPT !.username = None, !.password = FALSE,
                            !.unclaimed = FALSE, !.links = {}, !.merged = TRUE,
                            !.identity = f]
  BY DEF Merged
<1>2. f \in [Identities -> {"none", "CREATE", "LINK", "VERIFIED"}]
      /\ \A i \in Identities : f[i] = "none"
  OBVIOUS
<1> HIDE DEF f
<1>3. None \in Addresses \cup {None} /\ {} \in SUBSET Links
  OBVIOUS
<1>4. /\ Merged(s).made /\ Merged(s).username = None
      /\ Merged(s).merged = TRUE /\ Merged(s).links = {}
      /\ Merged(s).password = FALSE /\ Merged(s).unclaimed = FALSE
      /\ Merged(s).identity = f
  BY <1>1 DEF Row
<1>5. Merged(s) \in Row
  BY <1>1, <1>2, <1>3 DEF Row
<1> QED
  BY <1>2, <1>4, <1>5

\* The tables once those of S are merged into a, whose row becomes r.
MergedRows(u, a, S, r) ==
  [c \in Accounts |-> CASE c = a -> r
                        [] c # a /\ c \in S -> Merged(u[c])
                        [] OTHER -> u[c]]
MergedEmails(m, a, S) == [e \in Addresses |-> IF m[e] \in S THEN a ELSE m[e]]

\* One account is merged into another, whose row is saved or not.
LEMMA MergeOne ==
  ASSUME NEW u, NEW m, NEW c, NEW v, AccountsInv(u, m, c, v),
         NEW a \in Accounts, NEW b \in Accounts \ {a},
         u[a].made, u[b].made, u[a].merged => a \in v,
         NEW r, r = u[a] \/ r = Merging(u[a], u[b])
  PROVE  /\ AccountsInv(MergedRows(u, a, {b}, r), MergedEmails(m, a, {b}), c, v)
         /\ Bare(b, MergedRows(u, a, {b}, r)[b], MergedEmails(m, a, {b}))
<1> DEFINE w == MergedRows(u, a, {b}, r)
           n == MergedEmails(m, a, {b})
<1>1. /\ u \in [Accounts -> Row] /\ m \in [Addresses -> Accounts \cup {None}]
      /\ u[a] \in Row /\ u[b] \in Row
  BY DEF AccountsInv
<1>2. /\ r \in Row
      /\ r.made = u[a].made /\ r.username = u[a].username
      /\ r.confirmed = u[a].confirmed
      /\ r.merged = u[a].merged
      /\ \A i \in Identities :
           /\ r.identity[i] # "none" =>
                u[a].identity[i] # "none" \/ u[b].identity[i] # "none"
           /\ r.identity[i] = "VERIFIED" =>
                u[a].identity[i] = "VERIFIED" \/ u[b].identity[i] = "VERIFIED"
  <2>1. CASE r = u[a]
    BY <2>1, <1>1
  <2>2. CASE r = Merging(u[a], u[b])
    <3>1. /\ r \in Row
          /\ r.made = u[a].made /\ r.username = u[a].username
          /\ r.confirmed = u[a].confirmed
          /\ r.merged = u[a].merged
      <4>1. r \in Row
        BY <2>2, <1>1, MergingRow
      <4>2. r.username = u[a].username /\ r.merged = u[a].merged
        BY <2>2, <1>1, MergingRow
      <4>3. r.made = u[a].made
        BY <2>2, <1>1, MergingRow
      <4>4. r.confirmed = u[a].confirmed
        BY <2>2, <1>1, MergingRow
      <4> QED
        BY <4>1, <4>2, <4>3, <4>4
    <3>2. \A i \in Identities :
            /\ r.identity[i] = "none" <=>
                 u[a].identity[i] = "none" /\ u[b].identity[i] = "none"
            /\ r.identity[i] = "VERIFIED" <=>
                 u[a].identity[i] = "VERIFIED" \/ u[b].identity[i] = "VERIFIED"
      BY <2>2, <1>1, MergingRow
    <3> QED
      BY <3>1, <3>2
  <2> QED
    BY <2>1, <2>2
<1>3. RowOK(r)
  BY <1>2 DEF AccountsInv, RowOK
<1>4. LET t == Merged(u[b]) IN
        /\ t \in Row /\ t.made /\ t.merged
        /\ t.username = None /\ t.links = {} /\ ~t.password /\ ~t.unclaimed
        /\ \A i \in Identities : t.identity[i] = "none"
  BY <1>1, MergedRow
<1>5. w[a] = r /\ w[b] = Merged(u[b]) /\ \A d \in Accounts \ {a, b} : w[d] = u[d]
  BY DEF MergedRows
<1>6. \A e \in Addresses : n[e] = IF m[e] = b THEN a ELSE m[e]
  BY DEF MergedEmails
<1>7. ASSUME NEW d \in Accounts PROVE RowOK(w[d])
  BY <1>3, <1>4, <1>5 DEF AccountsInv, RowOK
<1>8. w \in [Accounts -> Row]
  <2>1. \A d \in Accounts : w[d] \in Row
    BY <1>7 DEF RowOK
  <2> QED
    BY <2>1 DEF MergedRows
<1>9. n \in [Addresses -> Accounts \cup {None}]
  BY <1>1 DEF MergedEmails
<1> HIDE DEF w, n
<1>10. Alone(w)
  BY <1>2, <1>4, <1>5 DEF AccountsInv, Alone
<1>11. Owned(w, n)
  <2> SUFFICES ASSUME NEW e \in Addresses, n[e] # None PROVE w[n[e]].made
    BY DEF Owned
  <2>1. CASE m[e] = b \/ m[e] = a
    <3>1. n[e] = a
      BY <2>1, <1>6
    <3> QED
      BY <3>1, <1>2, <1>5
  <2>2. CASE m[e] # b /\ m[e] # a
    <3>1. n[e] = m[e] /\ m[e] \in Accounts \ {a, b}
      BY <2>2, <1>1, <1>6
    <3> QED
      BY <3>1, <1>5 DEF AccountsInv, Owned
  <2> QED
    BY <2>1, <2>2
<1>12. Unshared(w)
  <2> SUFFICES ASSUME NEW i \in Identities, NEW d \in Accounts, NEW f \in Accounts,
                      w[d].identity[i] = "VERIFIED", w[f].identity[i] # "none"
               PROVE  d = f
    BY DEF Unshared
  <2>1. d # b /\ f # b
    BY <1>4, <1>5
  <2>2. /\ w[d].identity[i] = "VERIFIED" =>
             u[d].identity[i] = "VERIFIED" \/ (d = a /\ u[b].identity[i] = "VERIFIED")
        /\ w[f].identity[i] # "none" =>
             u[f].identity[i] # "none" \/ (f = a /\ u[b].identity[i] # "none")
    BY <2>1, <1>2, <1>5
  <2> QED
    BY <2>1, <2>2 DEF AccountsInv, Unshared
<1>13. Listed(w, n, c)
  <2> SUFFICES ASSUME NEW d \in Accounts \ c, w[d].confirmed, w[d].username # None
               PROVE  n[w[d].username] = d
    BY DEF Listed
  <2>1. d # b
    BY <1>4, <1>5
  <2>2. u[d].confirmed /\ u[d].username = w[d].username /\ u[d].username \in Addresses
    BY <2>1, <1>1, <1>2, <1>5 DEF Row
  <2>3. m[u[d].username] = d
    BY <2>2 DEF AccountsInv, Listed
  <2> QED
    BY <2>1, <2>2, <2>3, <1>6
<1>14. Bare(b, w[b], n)
  BY <1>4, <1>5, <1>6 DEF Bare
<1>15. Emptied(w, n, v)
  <2> SUFFICES ASSUME NEW d \in Accounts \ v, w[d].merged PROVE Bare(d, w[d], n)
    BY DEF Emptied
  <2>1. CASE d = b
    BY <2>1, <1>14
  <2>2. CASE d # b
    <3>1. d # a
      BY <1>2, <1>5
    <3>2. w[d] = u[d] /\ Bare(d, u[d], m)
      BY <2>2, <3>1, <1>5 DEF AccountsInv, Emptied
    <3> QED
      BY <2>2, <3>1, <3>2, <1>6 DEF Bare
  <2> QED
    BY <2>1, <2>2
<1>16. c \in SUBSET Accounts /\ v \in SUBSET Accounts
  BY DEF AccountsInv
<1> QED
  BY <1>7, <1>8, <1>9, <1>10, <1>11, <1>12, <1>13, <1>14, <1>15, <1>16
     DEF AccountsInv, w, n

-----------------------------------------------------------------------------
(* What the actions start from.                                            *)

\* Most of them change what a row is found by in no way.
LEMMA SameNames ==
  ASSUME AccountsInv(user, emails, chosen, revived),
         NEW a \in Accounts, NEW r \in Row, r.made,
         r.merged => a \in revived \/ Bare(a, r, emails),
         r.username = user[a].username, r.confirmed = user[a].confirmed,
         \A i \in Identities : r.identity[i] \in {"none", user[a].identity[i]},
         user' = [user EXCEPT ![a] = r], emails' = emails
  PROVE  AccountsInv(user', emails', chosen, revived)
<1>1. emails \in [Addresses -> Accounts \cup {None}]
  BY DEF AccountsInv
<1>2. a \notin chosen /\ r.confirmed /\ r.username # None => emails[r.username] = a
  BY DEF AccountsInv, Listed
<1>3. Change(user, emails, a, r, emails, chosen, revived)
  BY <1>1, <1>2 DEF Change
<1>4. AccountsInv([user EXCEPT ![a] = r], emails, chosen, revived)
  BY <1>3, OneRow
<1> QED
  BY <1>4

\* Who is found by an address alone has it as username, and is not a merged
\* account unless another was merged into it since.
LEMMA Found ==
  ASSUME AccountsInv(user, emails, chosen, revived),
         NEW e \in Addresses, GetUser(e) # None
  PROVE  LET a == GetUser(e) IN
         /\ a \in Accounts /\ user[a] \in Row
         /\ user[a].made /\ (user[a].merged => a \in revived)
         /\ \A b \in Accounts \ {a} : user[b].username # e
<1> DEFINE a == GetUser(e)
<1>1. a \in Matches(e) /\ Matches(e) = {a}
  BY DEF GetUser
<1>2. a \in Accounts /\ user[a].made /\ (user[a].username = e \/ emails[e] = a)
  BY <1>1 DEF Matches, Made
<1> HIDE DEF a
<1>3. user[a] \in Row /\ RowOK(user[a])
  BY <1>2 DEF AccountsInv
<1>4. user[a].merged => a \in revived
  BY <1>2, NoneAssumption DEF AccountsInv, Emptied, Bare
<1>5. ASSUME NEW b \in Accounts \ {a}, user[b].username = e PROVE FALSE
  <2>1. RowOK(user[b])
    BY DEF AccountsInv
  <2>2. user[b].made
    <3>1. CASE ~user[b].made
      BY <3>1, <2>1, <1>5, NoneAssumption DEF RowOK, NotMade, Fresh
    <3> QED
      BY <3>1
  <2>3. b \in Matches(e)
    BY <2>2, <1>5 DEF Matches, Made
  <2> QED
    BY <2>3, <1>1
<1> QED
  BY <1>2, <1>3, <1>4, <1>5 DEF RowOK, a

\* The unique column: no other row has the username, made or not.
LEMMA FreeName ==
  ASSUME AccountsInv(user, emails, chosen, revived),
         NEW e \in Addresses,
         NEW a \in Accounts, UsernameFree(a, e)
  PROVE  \A b \in Accounts \ {a} : user[b].username # e
<1> SUFFICES ASSUME NEW b \in Accounts \ {a}, user[b].username = e PROVE FALSE
  OBVIOUS
<1>1. CASE b \in Made
  BY <1>1, NoneAssumption DEF UsernameFree
<1>2. CASE b \notin Made
  BY <1>2, NoneAssumption DEF AccountsInv, RowOK, Made, NotMade, Fresh
<1> QED
  BY <1>1, <1>2

\* Who is active is not merged.
LEMMA ActiveRow ==
  ASSUME AccountsInv(user, emails, chosen, revived),
         NEW a \in Active
  PROVE  /\ a \in Accounts /\ user[a] \in Row /\ user[a].made
         /\ ~user[a].merged /\ user[a].registered /\ user[a].confirmed
<1>1. a \in Accounts /\ user[a].made /\ IsActive(user[a])
  BY DEF Active, Made
<1> QED
  BY <1>1 DEF IsActive, AccountsInv

\* Nor is who has a link, unless another was merged into the account since.
LEMMA LinkedRow ==
  ASSUME AccountsInv(user, emails, chosen, revived),
         NEW a \in Made, NEW l \in user[a].links
  PROVE  /\ a \in Accounts /\ user[a] \in Row /\ user[a].made
         /\ user[a].merged => a \in revived
         /\ l \in Links
<1>1. a \in Accounts /\ user[a].made
  BY DEF Made
<1>2. user[a].merged => a \in revived
  BY <1>1 DEF AccountsInv, Emptied, Bare
<1> QED
  BY <1>1, <1>2 DEF AccountsInv, Row

\* add_unconfirmed_email changes the links only.
LEMMA Relinked ==
  ASSUME NEW a \in Accounts, NEW r \in Row, NEW e \in Addresses,
         NEW i \in Identities \cup {None}, NEW s \in AddUnconfirmed(a, r, e, i)
  PROVE  \E L \in SUBSET Links : s = [r EXCEPT !.links = L]
<1>1. PICK o \in SUBSET r.links, k \in Tokens :
        s = [r EXCEPT !.links =
               (@ \ o) \cup {[token |-> k, email |-> e, identity |-> i]}]
  BY DEF AddUnconfirmed
<1> DEFINE L == (r.links \ o) \cup {[token |-> k, email |-> e, identity |-> i]}
<1>2. r.links \in SUBSET Links /\ [token |-> k, email |-> e, identity |-> i] \in Links
  BY DEF Row, Links
<1>3. L \in SUBSET Links
  BY <1>2
<1>4. s = [r EXCEPT !.links = L]
  BY <1>1
<1> QED
  BY <1>3, <1>4

-----------------------------------------------------------------------------
(* Each request keeps the invariant.                                       *)

LEMMA RegisterKeeps ==
  ASSUME AccountsInv(user, emails, chosen, revived),
         NEW e \in Addresses, NEW i \in Identities \cup {None},
         NEW password \in BOOLEAN, NEW others,
         AccountsInv(others, emails, chosen, revived),
         \A b \in Accounts : others[b].username = user[b].username,
         \A b \in Accounts : i # None => others[b].identity[i] # "VERIFIED",
         CreateUnconfirmed(e, password, i, others)
  PROVE  AccountsInv(user', emails', chosen, revived)
<1>0. PICK a \in Accounts \ Made :
        /\ UsernameFree(a, e)
        /\ \E s \in AddUnconfirmed(a, Fresh(e), e, i) :
             user' = [others EXCEPT ![a] =
                       [s EXCEPT !.password = password,
                                 !.identity = [j \in Identities |->
                                    IF j = i THEN "CREATE" ELSE "none"]]]
        /\ emails' = emails
  BY DEF CreateUnconfirmed
<1>1. PICK s \in AddUnconfirmed(a, Fresh(e), e, i) :
        user' = [others EXCEPT ![a] =
                     [s EXCEPT !.password = password,
                               !.identity = [j \in Identities |->
                                  IF j = i THEN "CREATE" ELSE "none"]]]
  BY <1>0
<1>2. Fresh(e) \in Row
  BY DEF Fresh, Row
<1>3. PICK L \in SUBSET Links : s = [Fresh(e) EXCEPT !.links = L]
  BY <1>2, Relinked
<1> DEFINE f == [j \in Identities |-> IF j = i THEN "CREATE" ELSE "none"]
           r == [s EXCEPT !.password = password, !.identity = f]
<1>4. f \in [Identities -> {"none", "CREATE", "LINK", "VERIFIED"}]
      /\ \A j \in Identities : f[j] = IF j = i THEN "CREATE" ELSE "none"
  OBVIOUS
<1> HIDE DEF f
<1>5. /\ r \in Row /\ r.made /\ ~r.merged /\ r.username = e
      /\ ~r.confirmed /\ r.identity = f
  BY <1>3, <1>4 DEF Fresh, Row
<1> HIDE DEF r
<1>6. \A b \in Accounts \ {a} : user[b].username # e
  BY <1>0, FreeName
<1>7. Change(others, emails, a, r, emails, chosen, revived)
  BY <1>4, <1>5, <1>6, NoneAssumption DEF Change, AccountsInv
<1>8. AccountsInv([others EXCEPT ![a] = r], emails, chosen, revived)
  BY <1>7, OneRow
<1> QED
  BY <1>0, <1>1, <1>8 DEF r, f

LEMMA RegisterUnconfirmedKeeps ==
  ASSUME AccountsInv(user, emails, chosen, revived),
         NEW e \in Addresses, RegisterUnconfirmed(e)
  PROVE  AccountsInv(user', emails', chosen, revived)
<1> DEFINE a == GetUser(e)
<1>1. CASE CreateUnconfirmed(e, TRUE, None, user)
  BY <1>1, RegisterKeeps
<1>2. CASE /\ a # None
           /\ \E r \in AddUnconfirmed(a, user[a], e, None) :
                Save(a, [r EXCEPT !.password = TRUE])
           /\ UNCHANGED emails
  <2>1. /\ a \in Accounts /\ user[a] \in Row
        /\ user[a].made /\ (user[a].merged => a \in revived)
    BY <1>2, Found
  <2>2. PICK s \in AddUnconfirmed(a, user[a], e, None) :
          user' = [user EXCEPT ![a] = [s EXCEPT !.password = TRUE]]
    BY <1>2 DEF Save
  <2> HIDE DEF a
  <2>3. PICK L \in SUBSET Links : s = [user[a] EXCEPT !.links = L]
    BY <2>1, Relinked
  <2> DEFINE r == [s EXCEPT !.password = TRUE]
  <2>4. /\ r \in Row /\ r.made = user[a].made /\ r.merged = user[a].merged
        /\ r.username = user[a].username
        /\ r.confirmed = user[a].confirmed /\ r.identity = user[a].identity
    BY <2>1, <2>3 DEF Row
  <2> HIDE DEF r
  <2>5. user' = [user EXCEPT ![a] = r] /\ emails' = emails
    BY <1>2, <2>2 DEF r
  <2> QED
    BY <2>1, <2>4, <2>5, SameNames
<1> QED
  BY <1>1, <1>2 DEF RegisterUnconfirmed

LEMMA InviteKeeps ==
  ASSUME AccountsInv(user, emails, chosen, revived),
         NEW e \in Addresses, Invite(e)
  PROVE  AccountsInv(user', emails', chosen, revived)
<1>1. CASE \E a \in Accounts \ Made :
             /\ UsernameFree(a, e)
             /\ Save(a, [Fresh(e) EXCEPT !.unclaimed = TRUE])
  <2>1. PICK a \in Accounts \ Made :
               /\ UsernameFree(a, e)
               /\ user' = [user EXCEPT ![a] = [Fresh(e) EXCEPT !.unclaimed = TRUE]]
    BY <1>1 DEF Save
  <2> DEFINE r == [Fresh(e) EXCEPT !.unclaimed = TRUE]
  <2>2. /\ r \in Row /\ r.made /\ ~r.merged /\ r.username = e
        /\ ~r.confirmed /\ \A i \in Identities : r.identity[i] = "none"
    BY DEF Fresh, Row
  <2> HIDE DEF r
  <2>3. \A b \in Accounts \ {a} : user[b].username # e
    BY <2>1, FreeName
  <2>4. Change(user, emails, a, r, emails, chosen, revived)
    BY <2>2, <2>3, NoneAssumption DEF Change, AccountsInv
  <2>5. AccountsInv([user EXCEPT ![a] = r], emails, chosen, revived)
    BY <2>4, OneRow
  <2>6. emails' = emails
    BY DEF Invite
  <2> QED
    BY <2>1, <2>5, <2>6 DEF r
<1>2. CASE \E a \in {GetUser(e)} \ {None} :
             Save(a, [user[a] EXCEPT !.unclaimed = TRUE])
  <2> DEFINE a == GetUser(e)
  <2>1. /\ a # None /\ user' = [user EXCEPT ![a] = [user[a] EXCEPT !.unclaimed = TRUE]]
        /\ emails' = emails
    BY <1>2 DEF Save, Invite
  <2>2. /\ a \in Accounts /\ user[a] \in Row
        /\ user[a].made /\ (user[a].merged => a \in revived)
    BY <2>1, Found
  <2> HIDE DEF a
  <2> DEFINE r == [user[a] EXCEPT !.unclaimed = TRUE]
  <2>3. /\ r \in Row /\ r.made = user[a].made /\ r.merged = user[a].merged
        /\ r.username = user[a].username
        /\ r.confirmed = user[a].confirmed /\ r.identity = user[a].identity
    BY <2>2 DEF Row
  <2> HIDE DEF r
  <2>4. user' = [user EXCEPT ![a] = r]
    BY <2>1 DEF r
  <2> QED
    BY <2>1, <2>2, <2>3, <2>4, SameNames
<1> QED
  BY <1>1, <1>2 DEF Invite

\* register: the address is free, or the account's own already.
LEMMA RegisteredKeeps ==
  ASSUME AccountsInv(user, emails, chosen, revived),
         NEW e \in Addresses, NEW a \in Accounts,
         NEW r \in Row, r.made, r.merged => a \in revived, r.username = e,
         \A i \in Identities : r.identity[i] \in {"none", user[a].identity[i]},
         \A b \in Accounts \ {a} : user[b].username # e, EmailFree(a, e),
         user' = [user EXCEPT ![a] = r], emails' = [emails EXCEPT ![e] = a]
  PROVE  AccountsInv(user', emails', chosen, revived)
<1>1. emails \in [Addresses -> Accounts \cup {None}]
  BY DEF AccountsInv
<1>2. Change(user, emails, a, r, emails', chosen, revived)
  BY <1>1, NoneAssumption DEF Change, EmailFree
<1>3. AccountsInv([user EXCEPT ![a] = r], emails', chosen, revived)
  BY <1>2, OneRow
<1> QED
  BY <1>3

LEMMA ClaimKeeps ==
  ASSUME AccountsInv(user, emails, chosen, revived),
         NEW e \in Addresses, NEW a \in Accounts, Claim(a, e)
  PROVE  AccountsInv(user', emails', chosen, revived)
<1> DEFINE r == [Registered(user[a], e) EXCEPT !.password = TRUE, !.unclaimed = FALSE]
<1>1. /\ user[a].made /\ user[a].unclaimed /\ UsernameFree(a, e) /\ EmailFree(a, e)
      /\ user' = [user EXCEPT ![a] = r] /\ emails' = [emails EXCEPT ![e] = a]
  BY DEF Claim, Made, Save
<1>2. user[a] \in Row /\ (user[a].merged => a \in revived)
  BY <1>1 DEF AccountsInv, Emptied, Bare
<1>3. /\ r \in Row /\ r.made = user[a].made /\ r.merged = user[a].merged
      /\ r.username = e /\ r.identity = user[a].identity
  BY <1>2 DEF Registered, Row
<1> HIDE DEF r
<1> QED
  BY <1>1, <1>2, <1>3, FreeName, RegisteredKeeps

LEMMA InstitutionSignOnKeeps ==
  ASSUME AccountsInv(user, emails, chosen, revived),
         NEW e \in Addresses, InstitutionSignOn(e)
  PROVE  AccountsInv(user', emails', chosen, revived)
<1>1. CASE \E b \in Accounts \ Made :
             /\ UsernameFree(b, e) /\ emails[e] = None
             /\ Save(b, [Registered(Fresh(e), e) EXCEPT !.password = TRUE])
             /\ emails' = [emails EXCEPT ![e] = b]
  <2>1. PICK b \in Accounts \ Made :
             /\ UsernameFree(b, e) /\ EmailFree(b, e)
             /\ user' = [user EXCEPT ![b] =
                           [Registered(Fresh(e), e) EXCEPT !.password = TRUE]]
             /\ emails' = [emails EXCEPT ![e] = b]
    BY <1>1 DEF Save, EmailFree
  <2> DEFINE r == [Registered(Fresh(e), e) EXCEPT !.password = TRUE]
  <2>2. /\ r \in Row /\ r.made /\ ~r.merged
        /\ r.username = e /\ \A i \in Identities : r.identity[i] = "none"
    BY DEF Registered, Fresh, Row
  <2>3. user' = [user EXCEPT ![b] = r]
    BY <2>1
  <2> HIDE DEF r
  <2> QED
    BY <2>1, <2>2, <2>3, FreeName, RegisteredKeeps
<1>2. CASE LET a == GetUser(e) IN
           /\ a # None /\ EmailFree(a, e)
           /\ \/ Save(a, [Registered(user[a], e) EXCEPT !.password = TRUE,
                                                        !.unclaimed = FALSE])
              \/ Save(a, [Registered(user[a], e) EXCEPT !.links = {}])
           /\ emails' = [emails EXCEPT ![e] = a]
  <2> DEFINE a == GetUser(e)
  <2>1. /\ a \in Accounts /\ user[a] \in Row
        /\ user[a].made /\ (user[a].merged => a \in revived)
        /\ \A b \in Accounts \ {a} : user[b].username # e
    BY <1>2, Found
  <2>2. EmailFree(a, e) /\ emails' = [emails EXCEPT ![e] = a]
    BY <1>2
  <2>3. \/ user' = [user EXCEPT ![a] =
                      [Registered(user[a], e) EXCEPT !.password = TRUE,
                                                     !.unclaimed = FALSE]]
        \/ user' = [user EXCEPT ![a] = [Registered(user[a], e) EXCEPT !.links = {}]]
    BY <1>2 DEF Save
  <2> HIDE DEF a
  <2>4. PICK r : /\ user' = [user EXCEPT ![a] = r]
                 /\ \/ r = [Registered(user[a], e) EXCEPT !.password = TRUE,
                                                          !.unclaimed = FALSE]
                    \/ r = [Registered(user[a], e) EXCEPT !.links = {}]
    BY <2>3
  <2>5. /\ r \in Row /\ r.made = user[a].made /\ r.merged = user[a].merged
        /\ r.username = e /\ r.identity = user[a].identity
    <3>1. CASE r = [Registered(user[a], e) EXCEPT !.password = TRUE,
                                                  !.unclaimed = FALSE]
      BY <3>1, <2>1 DEF Registered, Row
    <3>2. CASE r = [Registered(user[a], e) EXCEPT !.links = {}]
      <4>1. {} \in SUBSET Links
        OBVIOUS
      <4> QED
        BY <3>2, <4>1, <2>1 DEF Registered, Row
    <3> QED
      BY <3>1, <3>2, <2>4
  <2> QED
    BY <2>1, <2>2, <2>4, <2>5, RegisteredKeeps
<1> QED
  BY <1>1, <1>2 DEF InstitutionSignOn

LEMMA RefuseIdentityKeeps ==
  ASSUME AccountsInv(user, emails, chosen, revived),
         NEW i \in Identities, NEW a,
         a = None \/ a \in Made, RefuseIdentity(i, a)
  PROVE  AccountsInv(user', emails', chosen, revived)
<1>1. PICK S \in SUBSET Waiting(i, a) :
        user' = Dropped(i, S \cup ({a} \ {None})) /\ emails' = emails
  BY DEF RefuseIdentity
<1> DEFINE T == S \cup ({a} \ {None})
<1>2. T \in SUBSET Made
  BY DEF Waiting
<1> HIDE DEF T
<1>3. AccountsInv(Dropped(i, T), emails, chosen, revived)
  BY <1>2, LoseIdentity
<1> QED
  BY <1>1, <1>3 DEF T

\* Nobody else has an identity that is not another's once those who wait for
\* it have lost it.
LEMMA IdentityFreed ==
  ASSUME AccountsInv(user, emails, chosen, revived),
         NEW i \in Identities, NEW a, ~Claimed(i, a)
  PROVE  LET others == Dropped(i, Waiting(i, a)) IN
         /\ AccountsInv(others, emails, chosen, revived)
         /\ \A b \in Accounts :
              /\ others[b].username = user[b].username
              /\ b # a => others[b].identity[i] = "none"
              /\ \A j \in Identities :
                   others[b].identity[j] \in {"none", user[b].identity[j]}
         /\ a \in Accounts => others[a] = user[a]
<1> DEFINE S == Waiting(i, a)
<1>1. S \in SUBSET Made
  BY DEF Waiting
<1>2. AccountsInv(Dropped(i, S), emails, chosen, revived)
  BY <1>1, LoseIdentity
<1>3. \A b \in Accounts : LET r == Dropped(i, S)[b] IN
        /\ r.username = user[b].username
        /\ \A j \in Identities :
             r.identity[j] = IF b \in S /\ j = i THEN "none" ELSE user[b].identity[j]
  BY <1>1, LoseIdentity
<1>4. ASSUME NEW b \in Accounts, b # a, b \notin S PROVE user[b].identity[i] = "none"
  <2>1. CASE b \in Made
    <3>1. user[b].identity[i] \in {"none", "CREATE", "LINK", "VERIFIED"}
      BY DEF AccountsInv, Row
    <3> QED
      BY <2>1, <3>1, <1>4 DEF Claimed, Waiting
  <2>2. CASE b \notin Made
    <3>1. user[b] = NotMade
      BY <2>2 DEF AccountsInv, RowOK, Made
    <3> QED
      BY <3>1 DEF NotMade, Fresh
  <2> QED
    BY <2>1, <2>2
<1>5. a \in Accounts => Dropped(i, S)[a] = user[a]
  BY DEF Dropped, Waiting
<1> QED
  BY <1>2, <1>3, <1>4, <1>5

LEMMA ExternalLoginKeeps ==
  ASSUME AccountsInv(user, emails, chosen, revived),
         NEW e \in Addresses, NEW i \in Identities,
         ExternalLogin(e, i)
  PROVE  AccountsInv(user', emails', chosen, revived)
<1> DEFINE a == GetUser(e)
           others == Dropped(i, Waiting(i, a))
<1>1. CASE RefuseIdentity(i, a)
  <2>1. a = None \/ a \in Made
    BY Found DEF Made
  <2> QED
    BY <1>1, <2>1, RefuseIdentityKeeps
<1>2. CASE /\ ~Claimed(i, a) /\ a # None
           /\ \E r \in AddUnconfirmed(a, user[a], e, i) :
                user' = [others EXCEPT ![a] = [r EXCEPT !.identity[i] = "LINK"]]
           /\ UNCHANGED emails
  <2>1. /\ a \in Accounts /\ user[a] \in Row
        /\ user[a].made /\ (user[a].merged => a \in revived)
    BY <1>2, Found
  <2>2. ~Claimed(i, a)
    BY <1>2
  <2>3. PICK s \in AddUnconfirmed(a, user[a], e, i) :
          /\ user' = [others EXCEPT ![a] = [s EXCEPT !.identity[i] = "LINK"]]
          /\ emails' = emails
    BY <1>2
  <2>4. AccountsInv(others, emails, chosen, revived)
    BY <2>2, IdentityFreed
  <2>5. others[a] = user[a] /\ \A b \in Accounts \ {a} : others[b].identity[i] = "none"
    BY <2>1, <2>2, IdentityFreed
  <2> HIDE DEF a, others
  <2>6. PICK L \in SUBSET Links : s = [user[a] EXCEPT !.links = L]
    BY <2>1, <2>3, Relinked
  <2> DEFINE f == [user[a].identity EXCEPT ![i] = "LINK"]
             r == [user[a] EXCEPT !.links = L, !.identity = f]
  <2>7. user[a].identity \in [Identities -> {"none", "CREATE", "LINK", "VERIFIED"}]
    BY <2>1 DEF Row
  <2>8. /\ f \in [Identities -> {"none", "CREATE", "LINK", "VERIFIED"}]
        /\ f[i] = "LINK" /\ \A j \in Identities \ {i} : f[j] = user[a].identity[j]
    BY <2>7
  <2>9. [s EXCEPT !.identity[i] = "LINK"] = r
    BY <2>1, <2>6 DEF Row
  <2> HIDE DEF f
  <2>10. /\ r \in Row /\ r.made = user[a].made /\ r.merged = user[a].merged
         /\ r.username = user[a].username
         /\ r.confirmed = user[a].confirmed /\ r.identity = f
    BY <2>1, <2>8 DEF Row
  <2> HIDE DEF r
  <2>11. /\ emails \in [Addresses -> Accounts \cup {None}]
         /\ a \notin chosen /\ r.confirmed /\ r.username # None =>
              emails[r.username] = a
    BY <2>1, <2>10 DEF AccountsInv, Listed
  <2>12. Change(others, emails, a, r, emails, chosen, revived)
    BY <2>1, <2>5, <2>8, <2>10, <2>11 DEF Change
  <2>13. AccountsInv([others EXCEPT ![a] = r], emails, chosen, revived)
    BY <2>4, <2>12, OneRow
  <2> QED
    BY <2>3, <2>9, <2>13
<1>3. CASE ~Claimed(i, a) /\ a = None /\ CreateUnconfirmed(e, FALSE, i, others)
  <2>1. AccountsInv(others, emails, chosen, revived)
    BY <1>3, IdentityFreed
  <2>2. /\ \A b \in Accounts : others[b].username = user[b].username
        /\ \A b \in Accounts : others[b].identity[i] # "VERIFIED"
    <3>1. \A b \in Accounts : b # a
      BY <1>3, NoneAssumption
    <3> QED
      BY <1>3, <3>1, IdentityFreed
  <2>3. CreateUnconfirmed(e, FALSE, i, others)
    BY <1>3
  <2> HIDE DEF others
  <2> QED
    BY <2>1, <2>2, <2>3, RegisterKeeps
<1> QED
  BY <1>1, <1>2, <1>3 DEF ExternalLogin

LEMMA ConfirmExternalKeeps ==
  ASSUME AccountsInv(user, emails, chosen, revived),
         NEW a \in Accounts, NEW l \in user[a].links,
         ConfirmExternal(a, l)
  PROVE  AccountsInv(user', emails', chosen, revived)
<1> DEFINE e == l.email
           i == l.identity
           r0 == IF user[a].registered THEN user[a] ELSE Registered(user[a], e)
           others == Dropped(i, Waiting(i, a))
<1>1. a \in Made /\ i # None
  BY DEF ConfirmExternal
<1>2. /\ user[a] \in Row /\ user[a].made /\ (user[a].merged => a \in revived)
      /\ l \in Links
  BY <1>1, LinkedRow
<1>3. e \in Addresses /\ i \in Identities
  BY <1>1, <1>2 DEF Links
<1>4. CASE RefuseIdentity(i, a)
  BY <1>1, <1>3, <1>4, RefuseIdentityKeeps
<1>5. CASE /\ ~Claimed(i, a) /\ EmailFree(a, e)
           /\ UsernameFree(a, r0.username)
           /\ user' = [others EXCEPT ![a] =
                 [r0 EXCEPT !.links = @ \ {l}, !.identity[i] = "VERIFIED"]]
           /\ emails' = [emails EXCEPT ![e] = a]
  <2>1. AccountsInv(others, emails, chosen, revived)
    BY <1>3, <1>5, IdentityFreed
  <2>2. /\ others[a] = user[a]
        /\ \A b \in Accounts \ {a} : others[b].identity[i] = "none"
        /\ \A b \in Accounts : others[b].username = user[b].username
    BY <1>3, <1>5, IdentityFreed
  <2> DEFINE f == [user[a].identity EXCEPT ![i] = "VERIFIED"]
             L == user[a].links \ {l}
             r == [r0 EXCEPT !.links = @ \ {l}, !.identity[i] = "VERIFIED"]
  <2>3. /\ user[a].identity \in [Identities -> {"none", "CREATE", "LINK", "VERIFIED"}]
        /\ L \in SUBSET Links
    BY <1>2 DEF Row
  <2>4. /\ f \in [Identities -> {"none", "CREATE", "LINK", "VERIFIED"}]
        /\ \A j \in Identities \ {i} : f[j] = user[a].identity[j]
    BY <2>3
  <2>5. r = [r0 EXCEPT !.links = L, !.identity = f]
    BY <1>2 DEF Registered, Row
  <2>6. /\ r0 \in Row /\ r0.made = user[a].made /\ r0.merged = user[a].merged
        /\ \/ r0.username = user[a].username /\ r0.confirmed = user[a].confirmed
           \/ r0.username = e
    BY <1>2, <1>3 DEF Registered, Row
  <2>7. user' = [others EXCEPT ![a] = r] /\ emails' = [emails EXCEPT ![e] = a]
    BY <1>5
  <2>8. EmailFree(a, e) /\ UsernameFree(a, r0.username)
    BY <1>5
  <2> HIDE DEF f, L, r, r0, others, e, i
  <2>9. /\ r \in Row /\ r.made = r0.made /\ r.merged = r0.merged
        /\ r.username = r0.username
        /\ r.confirmed = r0.confirmed /\ r.identity = f
    BY <2>3, <2>4, <2>5, <2>6 DEF Row
  <2>10. \/ r.username = others[a].username
         \/ \A b \in Accounts \ {a} : others[b].username # r.username
    BY <2>2, <2>6, <2>8, <2>9, <1>3, FreeName
  <2>11. /\ emails \in [Addresses -> Accounts \cup {None}]
         /\ emails' \in [Addresses -> Accounts \cup {None}]
         /\ \A x \in Addresses : emails'[x] # emails[x] =>
              emails[x] \in {a, None} /\ emails'[x] \in {a, None}
    BY <2>7, <2>8, <1>3 DEF AccountsInv, EmailFree
  <2>12. a \notin chosen /\ r.confirmed /\ r.username # None => emails'[r.username] = a
    <3>1. CASE r.username = e
      BY <3>1, <2>7, <2>11, <1>3
    <3>2. CASE r.username = user[a].username /\ r.confirmed = user[a].confirmed
      <4> SUFFICES ASSUME a \notin chosen, r.confirmed, r.username # None
                   PROVE  emails'[r.username] = a
        OBVIOUS
      <4>1. emails[r.username] = a /\ r.username \in Addresses
        BY <3>2, <2>9 DEF AccountsInv, Listed, Row
      <4> QED
        BY <4>1, <2>7, <2>11
    <3> QED
      BY <3>1, <3>2, <2>6, <2>9
  <2>13. r.merged => a \in revived
    BY <1>2, <2>6, <2>9
  <2>14. \A j \in Identities :
           \/ r.identity[j] \in {"none", others[a].identity[j]}
           \/ \A b \in Accounts \ {a} : others[b].identity[j] = "none"
    BY <2>2, <2>4, <2>9
  <2>15. r.made
    BY <1>2, <2>6, <2>9
  <2>16. Change(others, emails, a, r, emails', chosen, revived)
    BY <2>9, <2>10, <2>11, <2>12, <2>13, <2>14, <2>15 DEF Change
  <2>17. AccountsInv([others EXCEPT ![a] = r], emails', chosen, revived)
    BY <2>1, <2>16, OneRow
  <2> QED
    BY <2>7, <2>17
<1> QED
  BY <1>4, <1>5 DEF ConfirmExternal

LEMMA RelinkKeeps ==
  ASSUME AccountsInv(user, emails, chosen, revived),
         NEW a \in Accounts, NEW e \in Addresses,
         user[a] \in Row, user[a].made, (user[a].merged => a \in revived),
         \E s \in AddUnconfirmed(a, user[a], e, None) : Save(a, s), UNCHANGED emails
  PROVE  AccountsInv(user', emails', chosen, revived)
<1>1. PICK s \in AddUnconfirmed(a, user[a], e, None) : user' = [user EXCEPT ![a] = s]
  BY DEF Save
<1>2. PICK L \in SUBSET Links : s = [user[a] EXCEPT !.links = L]
  BY Relinked
<1>3. /\ s \in Row /\ s.made = user[a].made /\ s.merged = user[a].merged
      /\ s.username = user[a].username
      /\ s.confirmed = user[a].confirmed /\ s.identity = user[a].identity
  BY <1>2 DEF Row
<1> QED
  BY <1>1, <1>3, SameNames

LEMMA SettingsKeep ==
  ASSUME AccountsInv(user, emails, chosen, revived), NEW a \in Accounts,
         \/ RemoveLinks(a) \/ SetPassword(a)
         \/ \E e \in Addresses : AddEmail(a, e) \/ RemoveEmail(a, e)
         \/ \E i \in Identities : DeleteIdentity(a, i)
  PROVE  AccountsInv(user', emails', chosen, revived)
<1>1. /\ a \in Active /\ user[a] \in Row /\ user[a].made
      /\ ~user[a].merged /\ user[a].registered /\ user[a].confirmed
  <2>1. a \in Active
    BY DEF RemoveLinks, SetPassword, AddEmail, RemoveEmail, DeleteIdentity
  <2> QED
    BY <2>1, ActiveRow
<1>2. CASE RemoveLinks(a)
  <2>1. PICK S : user' = [user EXCEPT ![a] = [user[a] EXCEPT !.links = @ \ S]]
    BY <1>2 DEF RemoveLinks, Save
  <2> DEFINE r == [user[a] EXCEPT !.links = @ \ S]
  <2>2. /\ r \in Row /\ r.made = user[a].made /\ r.merged = user[a].merged
        /\ r.username = user[a].username /\ r.confirmed = user[a].confirmed
        /\ r.identity = user[a].identity
    BY <1>1 DEF Row
  <2>3. user' = [user EXCEPT ![a] = r] /\ emails' = emails
    BY <1>2, <2>1 DEF RemoveLinks
  <2> HIDE DEF r
  <2> QED
    BY <1>1, <2>2, <2>3, SameNames
<1>3. CASE SetPassword(a)
  <2> DEFINE r == [user[a] EXCEPT !.password = TRUE]
  <2>2. /\ r \in Row /\ r.made = user[a].made /\ r.merged = user[a].merged
        /\ r.username = user[a].username /\ r.confirmed = user[a].confirmed
        /\ r.identity = user[a].identity
    BY <1>1 DEF Row
  <2>3. user' = [user EXCEPT ![a] = r] /\ emails' = emails
    BY <1>3 DEF SetPassword, Save
  <2> HIDE DEF r
  <2> QED
    BY <1>1, <2>2, <2>3, SameNames
<1>4. ASSUME NEW e \in Addresses, AddEmail(a, e)
      PROVE  AccountsInv(user', emails', chosen, revived)
  <2>1. /\ \E s \in AddUnconfirmed(a, user[a], e, None) : Save(a, s)
        /\ UNCHANGED emails
    BY <1>4 DEF AddEmail
  <2> QED
    BY <1>1, <2>1, RelinkKeeps
<1>5. ASSUME NEW e \in Addresses, RemoveEmail(a, e)
      PROVE  AccountsInv(user', emails', chosen, revived)
  <2>1. PICK S : user' = [user EXCEPT ![a] = [user[a] EXCEPT !.links = @ \ S]]
    BY <1>5 DEF RemoveEmail, Save
  <2> DEFINE r == [user[a] EXCEPT !.links = @ \ S]
  <2>2. /\ r \in Row /\ r.made = user[a].made /\ r.merged = user[a].merged
        /\ r.username = user[a].username /\ r.confirmed = user[a].confirmed
        /\ r.identity = user[a].identity
    BY <1>1 DEF Row
  <2>3. user' = [user EXCEPT ![a] = r]
    BY <2>1
  <2> HIDE DEF r
  <2>4. emails[e] = a /\ e # user[a].username /\ emails' = [emails EXCEPT ![e] = None]
    BY <1>5 DEF RemoveEmail
  <2>5. emails \in [Addresses -> Accounts \cup {None}]
    BY DEF AccountsInv
  <2>6. a \notin chosen /\ r.username # None => emails'[r.username] = a
    <3> SUFFICES ASSUME a \notin chosen, r.username # None
                 PROVE  emails'[r.username] = a
      OBVIOUS
    <3>1. emails[r.username] = a
      BY <1>1, <2>2 DEF AccountsInv, Listed
    <3>2. r.username \in Addresses
      BY <1>1, <2>2 DEF Row
    <3> QED
      BY <3>1, <3>2, <2>2, <2>4, <2>5
  <2>7. Change(user, emails, a, r, emails', chosen, revived)
    BY <1>1, <2>2, <2>4, <2>5, <2>6 DEF Change
  <2>8. AccountsInv([user EXCEPT ![a] = r], emails', chosen, revived)
    BY <2>7, OneRow
  <2> QED
    BY <2>3, <2>8
<1>6. ASSUME NEW i \in Identities, DeleteIdentity(a, i)
      PROVE  AccountsInv(user', emails', chosen, revived)
  <2> DEFINE S == {a}
  <2>1. AccountsInv(Dropped(i, S), emails, chosen, revived)
    BY <1>1, LoseIdentity DEF Active
  <2>2. user' = Dropped(i, S)
    <3>1. user' = [user EXCEPT ![a] = [user[a] EXCEPT !.identity[i] = "none"]]
          /\ user \in [Accounts -> Row]
      BY <1>6 DEF DeleteIdentity, Save, AccountsInv
    <3> QED
      BY <3>1 DEF Dropped
  <2>3. emails' = emails
    BY <1>6 DEF DeleteIdentity
  <2> QED
    BY <2>1, <2>2, <2>3
<1> QED
  BY <1>2, <1>3, <1>4, <1>5, <1>6

\* Who chooses a username is excepted until the address is confirmed by them.
LEMMA SetPrimaryKeeps ==
  ASSUME AccountsInv(user, emails, chosen, revived),
         NEW a \in Accounts, NEW e \in Addresses, SetPrimary(a, e)
  PROVE  AccountsInv(user', emails', chosen \cup {a}, revived)
<1> DEFINE r == [user[a] EXCEPT !.username = e]
           d == chosen \cup {a}
<1>1. /\ user[a] \in Row /\ user[a].made /\ ~user[a].merged
  BY ActiveRow DEF SetPrimary
<1>2. /\ r \in Row /\ r.made = user[a].made /\ r.merged = user[a].merged
      /\ r.username = e /\ r.identity = user[a].identity
  BY <1>1 DEF Row
<1>3. user' = [user EXCEPT ![a] = r] /\ emails' = emails
  BY DEF SetPrimary, Save
<1>4. \A b \in Accounts \ {a} : user[b].username # e
  BY FreeName DEF SetPrimary
<1>5. chosen \in SUBSET Accounts /\ d \in SUBSET Accounts /\ revived \in SUBSET Accounts
  BY DEF AccountsInv
<1>6. a \in d /\ chosen \ d = {} /\ revived \ revived = {}
  OBVIOUS
<1> HIDE DEF r, d
<1>7. AccountsInv(user, emails, d, revived)
  BY <1>5, <1>6, Excepted
<1>8. Change(user, emails, a, r, emails, d, revived)
  BY <1>1, <1>2, <1>4, <1>6 DEF Change, AccountsInv
<1>9. AccountsInv([user EXCEPT ![a] = r], emails, d, revived)
  BY <1>7, <1>8, OneRow
<1> QED
  BY <1>3, <1>9 DEF d

\* merge_user for the accounts of S, of which there is one or none.
Merges(u, a, S, r, v) ==
  /\ u[a].made /\ (u[a].merged => a \in v)
  /\ S \in SUBSET (Accounts \ {a})
  /\ S = {} \/ \E b \in Accounts : S = {b} /\ u[b].made
  /\ S = {} => r = u[a]
  /\ \A b \in Accounts : S = {b} => r = Merging(u[a], u[b])

\* A row that is found as another is.
FoundAs(r, s) ==
  /\ r \in Row /\ r.made /\ r.merged = s.merged
  /\ r.username = s.username /\ r.confirmed = s.confirmed

LEMMA MergeSome ==
  ASSUME NEW u, NEW m, NEW c, NEW v, AccountsInv(u, m, c, v),
         NEW a \in Accounts, NEW S, NEW r, Merges(u, a, S, r, v)
  PROVE  /\ AccountsInv(MergedRows(u, a, S, r), MergedEmails(m, a, S), c, v)
         /\ MergedRows(u, a, S, r)[a] = r
         /\ FoundAs(r, u[a])
<1> DEFINE w == MergedRows(u, a, S, r)
           n == MergedEmails(m, a, S)
<1>1. u \in [Accounts -> Row] /\ m \in [Addresses -> Accounts \cup {None}] /\ w[a] = r
  BY DEF AccountsInv, MergedRows
<1>2. CASE S = {}
  <2>1. w = u /\ n = m
    <3>1. r = u[a]
      BY <1>2 DEF Merges
    <3>2. w = [d \in Accounts |-> u[d]]
      BY <1>2, <3>1 DEF MergedRows
    <3>3. n = [e \in Addresses |-> m[e]]
      BY <1>2 DEF MergedEmails
    <3> HIDE DEF w, n
    <3> QED
      BY <1>1, <3>2, <3>3
  <2>2. r \in Row /\ r = u[a]
    BY <1>1, <1>2 DEF Merges
  <2> HIDE DEF w, n
  <2>3. AccountsInv(w, n, c, v)
    BY <2>1
  <2>4. FoundAs(r, u[a])
    BY <2>2 DEF FoundAs, Merges
  <2> QED
    BY <1>1, <2>3, <2>4 DEF w, n
<1>3. CASE \E b \in Accounts : S = {b} /\ u[b].made
  <2>1. PICK b \in Accounts \ {a} : S = {b} /\ u[b].made
    BY <1>3 DEF Merges
  <2>2. r = Merging(u[a], u[b]) /\ u[a] \in Row /\ u[b] \in Row
    BY <1>1, <2>1 DEF Merges
  <2>3. AccountsInv(w, n, c, v)
    BY <2>1, <2>2, MergeOne DEF Merges
  <2>4. r \in Row
    BY <2>2, MergingRow
  <2>5. r.username = u[a].username /\ r.merged = u[a].merged
    BY <2>2, MergingRow
  <2>6. r.made = u[a].made
    BY <2>2, MergingRow
  <2>7. r.confirmed = u[a].confirmed
    BY <2>2, MergingRow
  <2>8. FoundAs(r, u[a])
    BY <2>4, <2>5, <2>6, <2>7 DEF FoundAs, Merges
  <2> HIDE DEF w, n
  <2> QED
    BY <1>1, <2>3, <2>8 DEF w, n
<1> QED
  BY <1>2, <1>3 DEF Merges

LEMMA ConfirmEmailKeeps ==
  ASSUME AccountsInv(user, emails, chosen, revived),
         NEW a \in Accounts, NEW l \in user[a].links,
         NEW merge \in BOOLEAN, ConfirmEmail(a, l, merge)
  PROVE  AccountsInv(user', emails', chosen, revived')
<1> DEFINE e == l.email
           old == {emails[e]} \ {None}
           invited == {b \in Made \ ({a} \cup old) : user[b].username = e}
           first == IF old = {} THEN user[a] ELSE Merging(user[a], user[emails[e]])
           second == IF invited = {} THEN first
                     ELSE Merging(first, user[CHOOSE b \in invited : TRUE])
           row == IF e = second.username THEN Registered(second, e) ELSE second
           r == [row EXCEPT !.links = @ \ {l}, !.unclaimed = FALSE]
           u1 == MergedRows(user, a, old, first)
           m1 == MergedEmails(emails, a, old)
           u2 == MergedRows(u1, a, invited, second)
           m2 == MergedEmails(m1, a, invited)
<1>1. /\ a \in Made /\ emails[e] # a
      /\ user' = [b \in Accounts |->
           CASE b = a -> r
             [] b # a /\ b \in old \cup invited -> Merged(user[b])
             [] OTHER -> user[b]]
      /\ emails' = [f \in Addresses |->
           IF f = e \/ emails[f] \in old \cup invited THEN a ELSE emails[f]]
  BY DEF ConfirmEmail
<1>2. /\ user[a] \in Row /\ user[a].made /\ (user[a].merged => a \in revived)
      /\ e \in Addresses
  BY <1>1, LinkedRow DEF Links
<1>3. emails \in [Addresses -> Accounts \cup {None}] /\ user \in [Accounts -> Row]
  BY DEF AccountsInv
<1>4. Merges(user, a, old, first, revived)
  <2>1. CASE emails[e] = None
    BY <2>1, <1>2, NoneAssumption DEF Merges
  <2>2. CASE emails[e] # None
    <3>1. emails[e] \in Accounts \ {a} /\ old = {emails[e]} /\ user[emails[e]].made
      BY <2>2, <1>1, <1>2, <1>3 DEF AccountsInv, Owned
    <3>2. first = Merging(user[a], user[emails[e]])
      BY <3>1
    <3> HIDE DEF old, first
    <3> QED
      BY <1>2, <3>1, <3>2 DEF Merges
  <2> QED
    BY <2>1, <2>2
<1>5. AccountsInv(u1, m1, chosen, revived) /\ u1[a] = first /\ FoundAs(first, user[a])
  <2> HIDE DEF old, first
  <2> QED
    BY <1>4, MergeSome
<1>6. \A b \in invited : u1[b] = user[b] /\ user[b].made /\ b \in Accounts \ {a}
  BY DEF Made, MergedRows
<1>7. Merges(u1, a, invited, second, revived)
  <2>1. CASE invited = {}
    <3>1. second = u1[a]
      BY <2>1, <1>5
    <3> HIDE DEF invited, second, first, u1
    <3> QED
      BY <2>1, <3>1, <1>2, <1>5 DEF Merges, FoundAs
  <2>2. CASE invited # {}
    <3>1. PICK b \in invited : TRUE
      BY <2>2
    <3>2. \A c \in invited : c = b
      <4>1. e # None /\ \A c \in invited : c \in Accounts /\ user[c].username = e
        BY <1>2, NoneAssumption DEF Made
      <4> HIDE DEF invited, e
      <4> QED
        BY <3>1, <4>1 DEF AccountsInv, Alone
    <3>3. invited = {b}
      BY <3>1, <3>2
    <3>4. second = Merging(first, user[CHOOSE c \in invited : TRUE])
      BY <2>2
    <3> HIDE DEF invited, second, first, u1
    <3>5. (CHOOSE c \in invited : TRUE) = b
      BY <3>3
    <3>6. second = Merging(u1[a], u1[b]) /\ b \in Accounts \ {a} /\ u1[b].made
      BY <3>1, <3>4, <3>5, <1>5, <1>6
    <3> QED
      BY <3>3, <3>6, <1>2, <1>5 DEF Merges, FoundAs
  <2> QED
    BY <2>1, <2>2
<1>8. AccountsInv(u2, m2, chosen, revived) /\ u2[a] = second /\ FoundAs(second, user[a])
  <2> HIDE DEF invited, second, first, u1, m1
  <2>1. AccountsInv(u2, m2, chosen, revived) /\ u2[a] = second /\ FoundAs(second, u1[a])
    BY <1>5, <1>7, MergeSome
  <2> QED
    BY <2>1, <1>5 DEF FoundAs
<1>9. user' = [u2 EXCEPT ![a] = r]
  <2>1. \A c \in Accounts \ {a} :
          u2[c] = IF c \in old \cup invited THEN Merged(user[c]) ELSE user[c]
    <3>1. \A c \in Accounts \ {a} :
            /\ u1[c] = IF c \in old THEN Merged(user[c]) ELSE user[c]
            /\ u2[c] = IF c \in invited THEN Merged(u1[c]) ELSE u1[c]
      BY DEF MergedRows
    <3>2. \A c \in invited : c \notin old
      OBVIOUS
    <3> HIDE DEF u1, u2, old, invited
    <3> QED
      BY <3>1, <3>2
  <2>2. u2 = [c \in Accounts |-> u2[c]]
    BY DEF MergedRows
  <2> HIDE DEF u2, r, old, invited
  <2> QED
    BY <1>1, <2>1, <2>2
<1>10. emails' = [m2 EXCEPT ![e] = a] /\ m2[e] \in {a, None}
  <2>1. m2 = [f \in Addresses |->
                IF emails[f] \in old \cup invited THEN a ELSE emails[f]]
    <3>1. a \notin invited /\ \A f \in Addresses :
            m2[f] = IF m1[f] \in invited THEN a ELSE m1[f]
      BY DEF MergedEmails
    <3>2. \A f \in Addresses : m1[f] = IF emails[f] \in old THEN a ELSE emails[f]
      BY DEF MergedEmails
    <3>3. m2 = [f \in Addresses |-> m2[f]]
      BY DEF MergedEmails
    <3> HIDE DEF m1, m2, old, invited
    <3> QED
      BY <3>1, <3>2, <3>3
  <2>2. emails[e] \in old \/ emails[e] = None
    OBVIOUS
  <2>3. None \notin old \cup invited
    BY <1>4, <1>7, NoneAssumption DEF Merges
  <2> HIDE DEF m2, old, invited
  <2> QED
    BY <1>1, <1>2, <2>1, <2>2, <2>3
<1> HIDE DEF u1, m1, u2, m2, old, invited, first, second
<1>11. /\ row \in Row /\ row.made /\ row.merged = second.merged
       /\ row.username = second.username
       /\ row.identity = second.identity
       /\ e = second.username \/ row.confirmed = second.confirmed
  <2>1. CASE e = second.username
    BY <2>1, <1>2, <1>8 DEF FoundAs, Registered, Row
  <2>2. CASE e # second.username
    BY <2>2, <1>8 DEF FoundAs
  <2> QED
    BY <2>1, <2>2
<1> HIDE DEF row
<1>12. /\ r \in Row /\ r.made /\ r.merged = second.merged
       /\ r.username = second.username
       /\ r.identity = second.identity
       /\ e = second.username \/ r.confirmed = second.confirmed
  BY <1>11 DEF Row
<1> HIDE DEF r
<1>13. m2 \in [Addresses -> Accounts \cup {None}]
  BY <1>8 DEF AccountsInv
<1>14. a \notin chosen /\ r.confirmed /\ r.username # None => emails'[r.username] = a
  <2> SUFFICES ASSUME a \notin chosen, r.confirmed, r.username # None
               PROVE  emails'[r.username] = a
    OBVIOUS
  <2>1. CASE r.username = e
    BY <2>1, <1>2, <1>10, <1>13
  <2>2. CASE r.username # e
    <3>1. u2[a].confirmed /\ u2[a].username = r.username /\ r.username \in Addresses
      BY <2>2, <1>8, <1>12 DEF FoundAs, Row
    <3>2. m2[r.username] = a
      BY <3>1, <1>8 DEF AccountsInv, Listed
    <3> QED
      BY <3>1, <3>2, <1>10, <1>13
  <2> QED
    BY <2>1, <2>2
<1>15. Change(u2, m2, a, r, emails', chosen, revived)
  BY <1>2, <1>8, <1>10, <1>12, <1>13, <1>14 DEF Change, FoundAs
<1>16. AccountsInv([u2 EXCEPT ![a] = r], emails', chosen, revived)
  BY <1>8, <1>15, OneRow
<1>17. /\ chosen \in SUBSET Accounts /\ chosen \ chosen = {}
       /\ revived' \in SUBSET Accounts /\ revived \ revived' \subseteq old \cup invited
  BY DEF AccountsInv, ConfirmEmail, old, invited
<1>18. ASSUME NEW b \in old \cup invited PROVE Bare(b, user'[b], emails')
  <2>1. b \in Accounts \ {a} /\ user[b] \in Row /\ user[b].made
    BY <1>3, <1>4, <1>7, <1>18, <1>6 DEF Merges
  <2>2. user'[b] = Merged(user[b])
    BY <2>1, <1>1, <1>18
  <2>3. \A f \in Addresses : emails'[f] # b
    BY <2>1, <1>1, <1>18
  <2> QED
    BY <2>1, <2>2, <2>3, MergedRow DEF Bare
<1>19. AccountsInv(user', emails', chosen, revived)
  BY <1>9, <1>16
<1> QED
  BY <1>17, <1>18, <1>19, Excepted

LEMMA DisabledKeeps ==
  ASSUME AccountsInv(user, emails, chosen, revived),
         NEW a \in Accounts, Disable(a) \/ Restore(a)
  PROVE  AccountsInv(user', emails', chosen, revived)
<1>1. user[a] \in Row /\ user[a].made
  BY DEF Disable, Restore, Made, AccountsInv
<1>2. PICK d \in BOOLEAN :
        /\ user' = [user EXCEPT ![a] =
                      [user[a] EXCEPT !.disabled = d, !.registered = ~d]]
        /\ emails' = emails
  BY DEF Disable, Restore, Save
<1> DEFINE r == [user[a] EXCEPT !.disabled = d, !.registered = ~d]
<1>3. /\ r \in Row /\ r.made = user[a].made /\ r.merged = user[a].merged
      /\ r.username = user[a].username /\ r.confirmed = user[a].confirmed
      /\ r.identity = user[a].identity
      /\ r.links = user[a].links /\ r.password = user[a].password
      /\ r.unclaimed = user[a].unclaimed
  BY <1>1 DEF Row
<1>4. user' = [user EXCEPT ![a] = r] /\ emails' = emails
  BY <1>2
<1> HIDE DEF r
<1>5. r.merged => a \in revived \/ Bare(a, r, emails)
  <2>1. user[a].merged => a \in revived \/ Bare(a, user[a], emails)
    BY DEF AccountsInv, Emptied
  <2>2. Bare(a, user[a], emails) => Bare(a, r, emails)
    BY <1>3 DEF Bare
  <2> QED
    BY <1>3, <2>1, <2>2
<1> QED
  BY <1>1, <1>3, <1>4, <1>5, SameNames

LEMMA GdprDeleteKeeps ==
  ASSUME AccountsInv(user, emails, chosen, revived), NEW a \in Accounts, GdprDelete(a)
  PROVE  AccountsInv(user', emails', chosen, revived)
<1> DEFINE f == [i \in Identities |-> "none"]
           r == [user[a] EXCEPT !.disabled = TRUE, !.username = None,
                                !.password = FALSE, !.unclaimed = FALSE,
                                !.identity = f]
<1>1. user[a] \in Row /\ user[a].made
  BY DEF GdprDelete, Made, AccountsInv
<1>2. /\ user' = [user EXCEPT ![a] = r]
      /\ emails' = [e \in Addresses |-> IF emails[e] = a THEN None ELSE emails[e]]
  BY DEF GdprDelete, Save
<1>3. f \in [Identities -> {"none", "CREATE", "LINK", "VERIFIED"}]
      /\ \A i \in Identities : f[i] = "none"
  OBVIOUS
<1> HIDE DEF f
<1>4. /\ r \in Row /\ r.made /\ r.merged = user[a].merged /\ r.username = None
      /\ r.links = user[a].links /\ ~r.password /\ ~r.unclaimed /\ r.identity = f
  BY <1>1, <1>3 DEF Row
<1> HIDE DEF r
<1>5. emails \in [Addresses -> Accounts \cup {None}]
  BY DEF AccountsInv
<1>6. r.merged => a \in revived \/ Bare(a, r, emails')
  <2>1. user[a].merged => a \in revived \/ Bare(a, user[a], emails)
    BY DEF AccountsInv, Emptied
  <2>2. \A e \in Addresses : emails'[e] # a
    BY <1>2, NoneAssumption
  <2>3. Bare(a, user[a], emails) => Bare(a, r, emails')
    BY <1>3, <1>4, <2>2 DEF Bare
  <2> QED
    BY <1>4, <2>1, <2>3
<1>7. Change(user, emails, a, r, emails', chosen, revived)
  BY <1>2, <1>3, <1>4, <1>5, <1>6 DEF Change
<1>8. AccountsInv([user EXCEPT ![a] = r], emails', chosen, revived)
  BY <1>7, OneRow
<1> QED
  BY <1>2, <1>8

\* An administrator may merge into a merged account, which is excepted then.
LEMMA MergeAccountsKeeps ==
  ASSUME AccountsInv(user, emails, chosen, revived),
         NEW a \in Accounts, NEW b \in Accounts, MergeAccounts(a, b)
  PROVE  AccountsInv(user', emails', chosen, revived')
<1> DEFINE w == revived \cup {c \in {a} : user[c].merged}
           u2 == MergedRows(user, a, {b}, user[a])
           m2 == MergedEmails(emails, a, {b})
<1>1. /\ a # b /\ user[a].made /\ user[b].made
      /\ user' = [user EXCEPT ![b] = Merged(user[b])]
      /\ emails' = [e \in Addresses |-> IF emails[e] = b THEN a ELSE emails[e]]
      /\ revived' = (revived \ {b}) \cup {c \in {a} : user[c].merged}
  BY DEF MergeAccounts, Made, Save
<1>2. /\ user \in [Accounts -> Row] /\ chosen \in SUBSET Accounts
      /\ revived \in SUBSET Accounts
  BY DEF AccountsInv
<1>3. /\ w \in SUBSET Accounts /\ (user[a].merged => a \in w) /\ revived \ w = {}
      /\ chosen \ chosen = {} /\ revived' = w \ {b}
  BY <1>1, <1>2
<1>4. user' = u2
  BY <1>1, <1>2 DEF MergedRows
<1>5. emails' = m2
  BY <1>1 DEF MergedEmails
<1> HIDE DEF w, u2, m2
<1>6. AccountsInv(user, emails, chosen, w)
  BY <1>2, <1>3, Excepted
<1>7. AccountsInv(u2, m2, chosen, w) /\ Bare(b, u2[b], m2)
  BY <1>1, <1>3, <1>6, MergeOne DEF u2, m2
<1>8. AccountsInv(u2, m2, chosen, w \ {b})
  <2>1. w \ {b} \in SUBSET Accounts /\ \A d \in w \ (w \ {b}) : Bare(d, u2[d], m2)
    BY <1>3, <1>7
  <2> QED
    BY <1>2, <1>3, <1>7, <2>1, Excepted
<1> QED
  BY <1>3, <1>4, <1>5, <1>8

LEMMA VisitorKeeps ==
  ASSUME AccountsInv(user, emails, chosen, revived), NEW e \in Addresses,
         \/ RegisterUnconfirmed(e) \/ Invite(e) \/ InstitutionSignOn(e)
         \/ ResendConfirmation(e)
         \/ \E a \in Accounts : Claim(a, e)
         \/ \E i \in Identities : ExternalLogin(e, i)
  PROVE  AccountsInv(user', emails', chosen, revived)
<1>1. CASE ResendConfirmation(e)
  <2> DEFINE a == GetUser(e)
  <2>1. /\ a # None /\ \E s \in AddUnconfirmed(a, user[a], e, None) : Save(a, s)
        /\ UNCHANGED emails
    BY <1>1 DEF ResendConfirmation
  <2>2. /\ a \in Accounts /\ user[a] \in Row
        /\ user[a].made /\ (user[a].merged => a \in revived)
    BY <2>1, Found
  <2> HIDE DEF a
  <2> QED
    BY <2>1, <2>2, RelinkKeeps
<1> QED
  BY <1>1, RegisterUnconfirmedKeeps, InviteKeeps, InstitutionSignOnKeeps,
     ClaimKeeps, ExternalLoginKeeps

\* Who has confirmed the username, or has none, is no longer excepted.
LEMMA Forgiven ==
  ASSUME NEW C, AccountsInv(user', emails', C, revived'), chosen' = C \cap Unagreed'
  PROVE  AccountsInv(user, emails, chosen, revived)'
<1>1. /\ C \in SUBSET Accounts /\ revived' \in SUBSET Accounts
  BY DEF AccountsInv
<1>2. chosen' \in SUBSET Accounts /\ revived' \ revived' = {}
  BY <1>1
<1>3. \A a \in C \ chosen' : user'[a].username # None => emails'[user'[a].username] = a
  BY <1>1 DEF Unagreed
<1>4. AccountsInv(user', emails', chosen', revived')
  BY <1>1, <1>2, <1>3, Excepted
<1> QED
  BY <1>4

\* Each step keeps the invariant.
LEMMA NextKeeps ==
  ASSUME AccountsInv(user, emails, chosen, revived), Next
  PROVE  AccountsInv(user, emails, chosen, revived)'
<1>1. chosen \cup {} = chosen
  OBVIOUS
<1>2. CASE Visitor
  <2>1. AccountsInv(user', emails', chosen, revived)
    BY <1>2, VisitorKeeps DEF Visitor
  <2>2. revived' = revived /\ chosen' = chosen \cap Unagreed'
    BY <1>1, <1>2 DEF Visitor, Chose
  <2> QED
    BY <2>1, <2>2, Forgiven
<1>3. CASE Follow
  <2>1. AccountsInv(user', emails', chosen, revived')
    BY <1>3, ConfirmExternalKeeps, ConfirmEmailKeeps DEF Follow
  <2>2. chosen' = chosen \cap Unagreed'
    BY <1>1, <1>3 DEF Follow, Chose
  <2> QED
    BY <2>1, <2>2, Forgiven
<1>4. CASE Settings
  <2>1. revived' = revived
    BY <1>4 DEF Settings
  <2>2. PICK a \in Accounts :
          \/ /\ \/ RemoveLinks(a) \/ SetPassword(a)
                \/ \E e \in Addresses : AddEmail(a, e) \/ RemoveEmail(a, e)
                \/ \E i \in Identities : DeleteIdentity(a, i)
             /\ chosen' = (chosen \cup {}) \cap Unagreed'
          \/ \E e \in Addresses :
               SetPrimary(a, e) /\ chosen' = (chosen \cup {a}) \cap Unagreed'
    BY <1>4 DEF Settings, Chose
  <2>3. CASE /\ \/ RemoveLinks(a) \/ SetPassword(a)
                \/ \E e \in Addresses : AddEmail(a, e) \/ RemoveEmail(a, e)
                \/ \E i \in Identities : DeleteIdentity(a, i)
             /\ chosen' = (chosen \cup {}) \cap Unagreed'
    <3>1. AccountsInv(user', emails', chosen, revived')
      BY <2>1, <2>3, SettingsKeep
    <3> QED
      BY <1>1, <2>3, <3>1, Forgiven
  <2>4. CASE \E e \in Addresses :
               SetPrimary(a, e) /\ chosen' = (chosen \cup {a}) \cap Unagreed'
    <3>1. AccountsInv(user', emails', chosen \cup {a}, revived')
      BY <2>1, <2>4, SetPrimaryKeeps
    <3> QED
      BY <2>4, <3>1, Forgiven
  <2> QED
    BY <2>2, <2>3, <2>4
<1>5. CASE Admin
  <2>1. chosen' = chosen \cap Unagreed'
    BY <1>1, <1>5 DEF Admin, Chose
  <2>2. PICK a \in Accounts :
          \/ (Disable(a) \/ Restore(a) \/ GdprDelete(a)) /\ revived' = revived
          \/ \E b \in Accounts : MergeAccounts(a, b)
    BY <1>5 DEF Admin
  <2>3. AccountsInv(user', emails', chosen, revived')
    BY <2>2, DisabledKeeps, GdprDeleteKeeps, MergeAccountsKeeps
  <2> QED
    BY <2>1, <2>3, Forgiven
<1> QED
  BY <1>2, <1>3, <1>4, <1>5 DEF Next

-----------------------------------------------------------------------------
\* The table of accounts (OSFUser) and that of addresses (Email) keep the
\* invariant, whatever accounts are created, claimed, confirmed, merged, changed,
\* disabled and erased: user.py, framework/auth, the API and the admin pages.
THEOREM Safety == Spec => []AccountsInv(user, emails, chosen, revived)
<1>1. Init => AccountsInv(user, emails, chosen, revived)
  <2> SUFFICES ASSUME Init PROVE AccountsInv(user, emails, chosen, revived)
    OBVIOUS
  <2>1. /\ user \in [Accounts -> {NotMade}] /\ emails \in [Addresses -> {None}]
        /\ chosen = {} /\ revived = {}
    BY DEF Init
  <2>2. /\ NotMade \in Row /\ ~NotMade.made /\ NotMade.username = None
        /\ ~NotMade.merged
        /\ \A i \in Identities : NotMade.identity[i] = "none"
    BY DEF NotMade, Fresh, Row
  <2> HIDE DEF NotMade
  <2>3. RowOK(NotMade)
    BY <2>2 DEF RowOK
  <2>4. \A a \in Accounts : user[a] = NotMade
    BY <2>1
  <2>5. /\ Alone(user) /\ Unshared(user) /\ Listed(user, emails, chosen)
        /\ Emptied(user, emails, revived)
    BY <2>2, <2>4 DEF Alone, Unshared, Listed, Emptied
  <2>6. Owned(user, emails)
    BY <2>1 DEF Owned
  <2> QED
    BY <2>1, <2>2, <2>3, <2>4, <2>5, <2>6 DEF AccountsInv
<1>2. /\ AccountsInv(user, emails, chosen, revived) /\ [Next]_vars
      => AccountsInv(user, emails, chosen, revived)'
  <2> SUFFICES ASSUME AccountsInv(user, emails, chosen, revived), [Next]_vars
               PROVE  AccountsInv(user, emails, chosen, revived)'
    OBVIOUS
  <2>1. CASE UNCHANGED vars
    BY <2>1 DEF vars
  <2>2. CASE Next
    BY <2>2, NextKeeps
  <2> QED
    BY <2>1, <2>2
<1> QED
  BY <1>1, <1>2, PTL DEF Spec

\* The tables and the exceptions have their types, whatever the number of
\* tokens, and administrators act no oftener than the bound.
THEOREM Typing == Spec => []TypeOK
<1>1. Init => acts \in 0..MaxActs
  BY BoundAssumption DEF Init
<1>2. acts \in 0..MaxActs /\ [Next]_vars => (acts \in 0..MaxActs)'
  BY BoundAssumption DEF Next, Visitor, Follow, Settings, Admin, vars
<1>3. AccountsInv(user, emails, chosen, revived) /\ acts \in 0..MaxActs => TypeOK
  BY DEF AccountsInv, TypeOK
<1> QED
  BY <1>1, <1>2, <1>3, Safety, PTL DEF Spec

\* ensure_external_identity_uniqueness does what its name says, together with
\* merge_user, which hands identities over: a verified one is on one account.
THEOREM IdentitiesAreUnique == Spec => []IdentityIsUnique
<1>1. AccountsInv(user, emails, chosen, revived) => IdentityIsUnique
  BY DEF AccountsInv, Unshared, IdentityIsUnique
<1> QED
  BY <1>1, Safety, PTL

\* After merge_user nothing leads to the merged account again, whatever is
\* registered, invited, claimed, confirmed, disabled, erased and merged later,
\* but for an administrator who merges another account into it.
THEOREM MergedAreEmpty == Spec => []MergedIsEmpty
<1>1. AccountsInv(user, emails, chosen, revived) => MergedIsEmpty
  BY DEF AccountsInv, Emptied, Bare, MergedIsEmpty
<1> QED
  BY <1>1, Safety, PTL

\* get_user finds an active account, and only it, by its username, but for who
\* chose by the API a username whose link they have yet to agree to.
THEOREM ActiveAreFound == Spec => []ActiveIsFound
<1>1. AccountsInv(user, emails, chosen, revived) => ActiveIsFound
  <2> SUFFICES ASSUME AccountsInv(user, emails, chosen, revived),
                      NEW a \in Active \ chosen, user[a].username # None
               PROVE  Matches(user[a].username) = {a}
    BY DEF ActiveIsFound
  <2>1. /\ a \in Accounts /\ a \in Made /\ user[a] \in Row /\ user[a].confirmed
    BY ActiveRow DEF Active
  <2>2. emails[user[a].username] = a
    BY <2>1 DEF AccountsInv, Listed
  <2>3. a \in Matches(user[a].username)
    BY <2>1 DEF Matches
  <2>4. ASSUME NEW b \in Matches(user[a].username) PROVE b = a
    <3>1. b \in Accounts /\ (user[b].username = user[a].username
                            \/ emails[user[a].username] = b)
      BY DEF Matches, Made
    <3> QED
      BY <2>1, <2>2, <3>1 DEF AccountsInv, Alone
  <2> QED
    BY <2>3, <2>4
<1> QED
  BY <1>1, Safety, PTL
===============================================================================
