----------------------------- MODULE AuthProofs -----------------------------
(***************************************************************************)
(* Proofs about users and permissions (Auth): the maps of the store agree, *)
(* access follows them, the file is current, and a connection is open for  *)
(* a password its user had, whatever requests, sessions and crashes cross  *)
(* each other.                                                             *)
(*                                                                         *)
(* What every change of the store does is stated for the maps as values    *)
(* (StoreOK, FileOK), apart from who makes the change and when.            *)
(***************************************************************************)
EXTENDS Auth, TLAPS

\* The maps of the store, and that a user's list has the user's permissions.
StoreOK(usr, us, byName, perms, uperms) ==
    /\ us \subseteq UserId /\ \A u \in us : usr[u] \in User
    /\ byName \in [DOMAIN byName -> us] /\ DOMAIN byName \subseteq Name
    /\ \A u \in us : usr[u].name \in DOMAIN byName /\ byName[usr[u].name] = u
    /\ \A n \in DOMAIN byName : usr[byName[n]].name = n
    /\ perms \in [DOMAIN perms -> SUBSET Right] /\ DOMAIN perms \subseteq us \X Db
    /\ uperms \in [us -> SUBSET Key]
    /\ \A u \in us : uperms[u] = {k \in DOMAIN perms : k[1] = u}

\* What the file may hold.
FileOK(f) ==
    /\ f = [users |-> f.users, permissions |-> f.permissions]
    /\ f.users \in [DOMAIN f.users -> User] /\ DOMAIN f.users \subseteq UserId
    /\ \A u, v \in DOMAIN f.users : f.users[u].name = f.users[v].name => u = v
    /\ f.permissions \in [DOMAIN f.permissions -> SUBSET Right]
    /\ DOMAIN f.permissions \subseteq (DOMAIN f.users) \X Db

StoreInv == StoreOK(user, users, usersByName, permissions, userPerms)

FileInv == FileOK(file) /\ FileIsCurrent

\* One password change at a time, and nothing at work unless the server serves.
WorkInv ==
    /\ up # "serving" => /\ updating = None
                         /\ \A r \in Request : reqs[r] = NoRequest
                         /\ \A s \in Session : sess[s] = NoSession
    /\ \A r \in Request : reqs[r].phase = "updating" => updating # None /\ updating.of \in users
    /\ \A r, q \in Request : reqs[r].phase = "updating" /\ reqs[q].phase = "updating" => r = q

\* What a session has read is among what it may have seen.
SessionInv(s) ==
    LET e == sess[s] IN
    /\ e.phase = "found" =>
        /\ user[e.id] \in User /\ user[e.id].pw \in e.seen
        /\ updating # None /\ updating.of = e.id => updating.pw \in e.seen
    /\ e.phase = "challenged" => e.key \in e.seen \cup {Torn}
    /\ e.phase = "open" => e.pw \in e.seen

AuthInv ==
    AuthTypeOK /\ StoreInv /\ FileInv /\ WorkInv /\ \A s \in Session : SessionInv(s)

USE AuthAssumption

-----------------------------------------------------------------------------
(* The maps, as values.                                                    *)

LEMMA UserFields ==
    ASSUME NEW e \in User
    PROVE  e.name \in Name /\ e.role \in Role /\ e.pw \in Password /\ e # None
BY DEF User

\* Users have different names.
LEMMA NamesDiffer ==
    ASSUME NEW usr, NEW us, NEW byName, NEW perms, NEW uperms,
           StoreOK(usr, us, byName, perms, uperms),
           NEW u \in us, NEW v \in us, usr[u].name = usr[v].name
    PROVE  u = v
BY DEF StoreOK

\* What persist writes can be loaded.
LEMMA ImageOK ==
    ASSUME NEW usr, NEW us, NEW byName, NEW perms, NEW uperms,
           StoreOK(usr, us, byName, perms, uperms)
    PROVE  FileOK([users |-> [u \in us |-> usr[u]], permissions |-> perms])
<1> DEFINE fu == [u \in us |-> usr[u]]
           f == [users |-> fu, permissions |-> perms]
<1>1. fu \in [us -> User] /\ DOMAIN fu = us /\ us \subseteq UserId
  BY DEF StoreOK
<1>2. \A u, v \in us : fu[u].name = fu[v].name => u = v
  BY NamesDiffer
<1>3. perms \in [DOMAIN perms -> SUBSET Right] /\ DOMAIN perms \subseteq us \X Db
  BY DEF StoreOK
<1> HIDE DEF fu
<1>4. f.users = fu /\ f.permissions = perms /\ f = [users |-> f.users, permissions |-> f.permissions]
  OBVIOUS
<1> HIDE DEF f
<1>5. FileOK(f)
  BY <1>1, <1>2, <1>3, <1>4 DEF FileOK
<1> QED
  BY <1>5 DEF f, fu

\* load makes the maps that belong to the file.
LEMMA LoadOK ==
    ASSUME NEW f, FileOK(f), NEW usr,
           \A u \in DOMAIN f.users : usr[u] = f.users[u]
    PROVE  StoreOK(usr, DOMAIN f.users,
                   [n \in {f.users[u].name : u \in DOMAIN f.users} |->
                        CHOOSE u \in DOMAIN f.users : f.users[u].name = n],
                   f.permissions,
                   [u \in DOMAIN f.users \cup {k[1] : k \in DOMAIN f.permissions} |->
                        {k \in DOMAIN f.permissions : k[1] = u}])
<1> DEFINE us == DOMAIN f.users
           names == {f.users[u].name : u \in us}
           byName == [n \in names |-> CHOOSE u \in us : f.users[u].name = n]
           uperms == [u \in us |-> {k \in DOMAIN f.permissions : k[1] = u}]
<1>1. /\ us \subseteq UserId /\ \A u \in us : usr[u] \in User /\ usr[u].name \in Name
  BY UserFields DEF FileOK
<1>2. \A n \in names : byName[n] \in us /\ f.users[byName[n]].name = n
  OBVIOUS
<1>3. DOMAIN byName = names /\ names \subseteq Name /\ byName \in [names -> us]
  BY <1>1, <1>2
<1>4. \A u \in us : usr[u].name \in names /\ byName[usr[u].name] = u
  BY <1>2 DEF FileOK
<1>5. /\ f.permissions \in [DOMAIN f.permissions -> SUBSET Right]
      /\ DOMAIN f.permissions \subseteq us \X Db /\ DOMAIN f.permissions \subseteq Key
  BY <1>1 DEF FileOK, Key
<1>6. uperms \in [us -> SUBSET Key] /\ \A u \in us : uperms[u] = {k \in DOMAIN f.permissions : k[1] = u}
  BY <1>5
<1>7. \A n \in DOMAIN byName : usr[byName[n]].name = n
  BY <1>2, <1>3
<1>8. DOMAIN f.users \cup {k[1] : k \in DOMAIN f.permissions} = us
  <2>1. \A k \in DOMAIN f.permissions : k[1] \in us
    BY <1>5
  <2> QED
    BY <2>1
<1> HIDE DEF us, names, byName, uperms
<1>9. StoreOK(usr, us, byName, f.permissions, uperms)
  BY <1>1, <1>3, <1>4, <1>5, <1>6, <1>7 DEF StoreOK
<1> QED
  BY <1>8, <1>9 DEF us, names, byName, uperms

LEMMA CreateOK ==
    ASSUME NEW usr \in [UserId -> User \cup {None}], NEW us, NEW byName, NEW perms, NEW uperms,
           StoreOK(usr, us, byName, perms, uperms),
           NEW u \in UserId, usr[u] = None, NEW n \in Name, n \notin DOMAIN byName,
           NEW e \in User, e.name = n
    PROVE  StoreOK([usr EXCEPT ![u] = e], us \cup {u}, With(byName, n, u), perms, With(uperms, u, {}))
<1> DEFINE usr2 == [usr EXCEPT ![u] = e]
           us2 == us \cup {u}
           byName2 == With(byName, n, u)
           uperms2 == With(uperms, u, {})
<1>1. u \notin us /\ us \subseteq UserId /\ us2 \subseteq UserId
  BY UserFields DEF StoreOK
<1>2. usr2[u] = e /\ \A x \in us : usr2[x] = usr[x] /\ usr[x] \in User
  BY <1>1 DEF StoreOK
<1>3. /\ byName \in [DOMAIN byName -> us2] /\ DOMAIN byName \subseteq Name /\ u \in us2
  BY DEF StoreOK
<1>4. /\ byName2 \in [DOMAIN byName \cup {n} -> us2] /\ byName2[n] = u
      /\ \A x \in DOMAIN byName : x # n => byName2[x] = byName[x]
  BY <1>3 DEF With
<1>5. /\ uperms2 \in [us2 -> SUBSET Key] /\ uperms2[u] = {}
      /\ \A x \in us : x # u => uperms2[x] = uperms[x]
  <2>1. uperms \in [us -> SUBSET Key] /\ {} \in SUBSET Key
    BY DEF StoreOK
  <2> QED
    BY <2>1 DEF With
<1> HIDE DEF usr2, byName2, uperms2
<1>6. DOMAIN byName2 = DOMAIN byName \cup {n} /\ byName2 \in [DOMAIN byName2 -> us2] /\ DOMAIN byName2 \subseteq Name
  BY <1>3, <1>4
<1>7. \A x \in us2 : usr2[x] \in User /\ usr2[x].name \in DOMAIN byName2 /\ byName2[usr2[x].name] = x
  <2>1. \A x \in us : usr[x].name \in DOMAIN byName /\ usr[x].name # n /\ byName[usr[x].name] = x
    BY DEF StoreOK
  <2> QED
    BY <1>2, <1>4, <1>6, <2>1
<1>8. \A x \in DOMAIN byName2 : usr2[byName2[x]].name = x
  <2>1. \A x \in DOMAIN byName : usr[byName[x]].name = x /\ byName[x] \in us /\ x # n
    BY DEF StoreOK
  <2> QED
    BY <1>2, <1>4, <1>6, <2>1
<1>9. perms \in [DOMAIN perms -> SUBSET Right] /\ DOMAIN perms \subseteq us \X Db /\ DOMAIN perms \subseteq us2 \X Db
  BY DEF StoreOK
<1>10. \A x \in us2 : uperms2[x] = {k \in DOMAIN perms : k[1] = x}
  <2>1. \A k \in DOMAIN perms : k[1] # u
    BY <1>1, <1>9
  <2>2. \A x \in us : uperms[x] = {k \in DOMAIN perms : k[1] = x}
    BY DEF StoreOK
  <2> QED
    BY <1>1, <1>5, <2>1, <2>2
<1> HIDE DEF us2
<1>11. StoreOK(usr2, us2, byName2, perms, uperms2)
  BY <1>1, <1>5, <1>6, <1>7, <1>8, <1>9, <1>10 DEF StoreOK
<1> QED
  BY <1>11 DEF usr2, us2, byName2, uperms2

LEMMA DeleteOK ==
    ASSUME NEW usr, NEW us, NEW byName, NEW perms, NEW uperms,
           StoreOK(usr, us, byName, perms, uperms), NEW u \in us
    PROVE  StoreOK(usr, us \ {u}, Without(byName, {usr[u].name}), Without(perms, uperms[u]),
                   Without(uperms, {u}))
<1> DEFINE us2 == us \ {u}
           name == usr[u].name
           byName2 == Without(byName, {name})
           perms2 == Without(perms, uperms[u])
           uperms2 == Without(uperms, {u})
<1>1. us \subseteq UserId /\ \A x \in us : usr[x] \in User
  BY DEF StoreOK
<1>2. /\ byName2 \in [DOMAIN byName \ {name} -> us]
      /\ \A x \in DOMAIN byName \ {name} : byName2[x] = byName[x]
  <2>1. byName \in [DOMAIN byName -> us]
    BY DEF StoreOK
  <2> QED
    BY <2>1 DEF Without, Restrict
<1>3. /\ perms2 \in [DOMAIN perms \ uperms[u] -> SUBSET Right]
  <2>1. perms \in [DOMAIN perms -> SUBSET Right]
    BY DEF StoreOK
  <2> QED
    BY <2>1 DEF Without, Restrict
<1>4. /\ uperms2 \in [us2 -> SUBSET Key] /\ \A x \in us2 : uperms2[x] = uperms[x]
  <2>1. uperms \in [us -> SUBSET Key]
    BY DEF StoreOK
  <2> QED
    BY <2>1 DEF Without, Restrict
<1> HIDE DEF byName2, perms2, uperms2
<1>5. \A x \in DOMAIN byName : x # name => byName[x] \in us2
  BY DEF StoreOK
<1>6. DOMAIN byName2 = DOMAIN byName \ {name} /\ byName2 \in [DOMAIN byName2 -> us2] /\ DOMAIN byName2 \subseteq Name
  <2>1. DOMAIN byName \subseteq Name
    BY DEF StoreOK
  <2> QED
    BY <1>2, <1>5, <2>1
<1>7. \A x \in us2 : usr[x].name \in DOMAIN byName2 /\ byName2[usr[x].name] = x
  <2>1. \A x \in us2 : usr[x].name \in DOMAIN byName /\ usr[x].name # name /\ byName[usr[x].name] = x
    BY DEF StoreOK
  <2> QED
    BY <1>2, <1>6, <2>1
<1>8. \A x \in DOMAIN byName2 : usr[byName2[x]].name = x
  <2>1. \A x \in DOMAIN byName : usr[byName[x]].name = x
    BY DEF StoreOK
  <2> QED
    BY <1>2, <1>6, <2>1
<1>9. uperms[u] = {k \in DOMAIN perms : k[1] = u} /\ DOMAIN perms \subseteq us \X Db
  BY DEF StoreOK
<1>10. DOMAIN perms2 = {k \in DOMAIN perms : k[1] # u} /\ perms2 \in [DOMAIN perms2 -> SUBSET Right]
  BY <1>3, <1>9
<1>11. DOMAIN perms2 \subseteq us2 \X Db
  BY <1>9, <1>10
<1>12. \A x \in us2 : uperms2[x] = {k \in DOMAIN perms2 : k[1] = x}
  <2>1. \A x \in us : uperms[x] = {k \in DOMAIN perms : k[1] = x}
    BY DEF StoreOK
  <2> QED
    BY <1>4, <1>10, <2>1
<1>13. us2 \subseteq UserId /\ \A x \in us2 : usr[x] \in User
  BY <1>1
<1> HIDE DEF us2
<1>14. StoreOK(usr, us2, byName2, perms2, uperms2)
  BY <1>4, <1>6, <1>7, <1>8, <1>10, <1>11, <1>12, <1>13 DEF StoreOK
<1> QED
  BY <1>14 DEF us2, byName2, perms2, uperms2

LEMMA GrantOK ==
    ASSUME NEW usr, NEW us, NEW byName, NEW perms, NEW uperms,
           StoreOK(usr, us, byName, perms, uperms), NEW u \in us, NEW db \in Db, NEW rights \in SUBSET Right
    PROVE  StoreOK(usr, us, byName, With(perms, <<u, db>>, rights),
                   With(uperms, u, uperms[u] \cup {<<u, db>>}))
<1> DEFINE k0 == <<u, db>>
           perms2 == With(perms, k0, rights)
           keys == uperms[u] \cup {k0}
           uperms2 == With(uperms, u, keys)
<1>1. /\ us \subseteq UserId /\ k0 \in us \X Db /\ k0 \in Key /\ k0[1] = u
  BY DEF StoreOK, Key
<1>2. /\ perms \in [DOMAIN perms -> SUBSET Right] /\ DOMAIN perms \subseteq us \X Db
      /\ uperms \in [us -> SUBSET Key] /\ \A x \in us : uperms[x] = {k \in DOMAIN perms : k[1] = x}
  BY DEF StoreOK
<1> HIDE DEF k0
<1>3. perms2 \in [DOMAIN perms \cup {k0} -> SUBSET Right] /\ DOMAIN perms2 = DOMAIN perms \cup {k0}
  BY <1>2 DEF With
<1>4. keys \in SUBSET Key
  BY <1>1, <1>2
<1> HIDE DEF keys
<1>5. uperms2 \in [us -> SUBSET Key] /\ uperms2[u] = keys /\ \A x \in us : x # u => uperms2[x] = uperms[x]
  BY <1>2, <1>4 DEF With
<1> HIDE DEF perms2, uperms2
<1>6. \A x \in us : uperms2[x] = {k \in DOMAIN perms2 : k[1] = x}
  BY <1>1, <1>2, <1>3, <1>5 DEF keys
<1>7. perms2 \in [DOMAIN perms2 -> SUBSET Right] /\ DOMAIN perms2 \subseteq us \X Db
  BY <1>1, <1>2, <1>3
<1>8. StoreOK(usr, us, byName, perms2, uperms2)
  BY <1>5, <1>6, <1>7 DEF StoreOK
<1> QED
  BY <1>8 DEF perms2, uperms2, keys, k0

LEMMA RevokeOK ==
    ASSUME NEW usr, NEW us, NEW byName, NEW perms, NEW uperms,
           StoreOK(usr, us, byName, perms, uperms), NEW u, NEW db, <<u, db>> \in DOMAIN perms
    PROVE  StoreOK(usr, us, byName, Without(perms, {<<u, db>>}),
                   [uperms EXCEPT ![u] = @ \ {<<u, db>>}])
<1> DEFINE k0 == <<u, db>>
           perms2 == Without(perms, {k0})
           uperms2 == [uperms EXCEPT ![u] = @ \ {k0}]
<1>1. /\ perms \in [DOMAIN perms -> SUBSET Right] /\ DOMAIN perms \subseteq us \X Db
      /\ uperms \in [us -> SUBSET Key] /\ \A x \in us : uperms[x] = {k \in DOMAIN perms : k[1] = x}
  BY DEF StoreOK
<1>2. u \in us /\ k0[1] = u
  BY <1>1
<1> HIDE DEF k0
<1>3. perms2 \in [DOMAIN perms \ {k0} -> SUBSET Right] /\ DOMAIN perms2 = DOMAIN perms \ {k0}
  BY <1>1 DEF Without, Restrict
<1>4. uperms2 \in [us -> SUBSET Key] /\ uperms2[u] = uperms[u] \ {k0} /\ \A x \in us : x # u => uperms2[x] = uperms[x]
  BY <1>1, <1>2
<1> HIDE DEF perms2, uperms2
<1>5. \A x \in us : uperms2[x] = {k \in DOMAIN perms2 : k[1] = x}
  BY <1>1, <1>2, <1>3, <1>4
<1>6. perms2 \in [DOMAIN perms2 -> SUBSET Right] /\ DOMAIN perms2 \subseteq us \X Db
  BY <1>1, <1>3
<1>7. StoreOK(usr, us, byName, perms2, uperms2)
  BY <1>4, <1>5, <1>6 DEF StoreOK
<1> QED
  BY <1>7 DEF perms2, uperms2, k0

-----------------------------------------------------------------------------
(* The store's operations.                                                 *)

\* What an operation of the store does, whoever calls it: the maps stay right, no
\* user object is changed, and the file is written or not.
StoreChange ==
    /\ StoreInv' /\ user' \in [UserId -> User \cup {None}]
    /\ \A u \in UserId : user[u] # None => user'[u] = user[u]
    /\ persist \/ UNCHANGED <<user, users, permissions, file, writeFailed>>

LEMMA Unchanged ==
    ASSUME AuthInv, UNCHANGED <<store, disk>>
    PROVE  StoreChange
<1>1. UNCHANGED <<user, users, usersByName, permissions, userPerms, file, writeFailed>>
  BY DEF store, disk
<1>2. StoreInv /\ user \in [UserId -> User \cup {None}]
  BY DEF AuthInv, AuthTypeOK
<1> QED
  BY <1>1, <1>2 DEF StoreChange, StoreInv

LEMMA CreateUserChanges ==
    ASSUME AuthInv, NEW n \in Name, NEW pw \in Password, NEW role \in Role, CreateUser(n, pw, role)
    PROVE  StoreChange
<1>1. CASE n \in DOMAIN usersByName
  BY <1>1, Unchanged DEF CreateUser
<1>2. CASE n \notin DOMAIN usersByName
  <2> DEFINE e == [name |-> n, role |-> role, pw |-> pw]
  <2>1. PICK u \in Fresh :
            /\ user' = [user EXCEPT ![u] = e] /\ users' = users \cup {u}
            /\ usersByName' = With(usersByName, n, u) /\ userPerms' = With(userPerms, u, {})
            /\ permissions' = permissions /\ persist
    BY <1>2 DEF CreateUser
  <2>2. e \in User /\ e.name = n
    BY DEF User
  <2> HIDE DEF e
  <2>3. StoreInv /\ user \in [UserId -> User \cup {None}] /\ u \in UserId /\ user[u] = None
    BY DEF AuthInv, AuthTypeOK, Fresh
  <2>4. StoreOK([user EXCEPT ![u] = e], users \cup {u}, With(usersByName, n, u), permissions, With(userPerms, u, {}))
    BY <1>2, <2>2, <2>3, CreateOK DEF StoreInv
  <2>5. StoreInv'
    BY <2>1, <2>4 DEF StoreInv
  <2>6. user' \in [UserId -> User \cup {None}] /\ \A x \in UserId : user[x] # None => user'[x] = user[x]
    BY <2>1, <2>2, <2>3
  <2> QED
    BY <2>1, <2>5, <2>6 DEF StoreChange
<1> QED
  BY <1>1, <1>2

LEMMA DeleteUserChanges ==
    ASSUME AuthInv, NEW u \in UserId, DeleteUser(u)
    PROVE  StoreChange
<1>1. CASE u \notin users
  BY <1>1, Unchanged DEF DeleteUser
<1>2. CASE u \in users
  <2>1. /\ permissions' = Without(permissions, userPerms[u]) /\ userPerms' = Without(userPerms, {u})
        /\ users' = users \ {u} /\ usersByName' = Without(usersByName, {user[u].name})
        /\ user' = user /\ persist
    BY <1>2 DEF DeleteUser
  <2>2. StoreInv /\ user \in [UserId -> User \cup {None}]
    BY DEF AuthInv, AuthTypeOK
  <2>3. StoreOK(user, users \ {u}, Without(usersByName, {user[u].name}),
                Without(permissions, userPerms[u]), Without(userPerms, {u}))
    BY <1>2, <2>2, DeleteOK DEF StoreInv
  <2>4. StoreInv'
    BY <2>1, <2>3 DEF StoreInv
  <2> QED
    BY <2>1, <2>2, <2>4 DEF StoreChange
<1> QED
  BY <1>1, <1>2

LEMMA GrantPermissionChanges ==
    ASSUME AuthInv, NEW u \in UserId, NEW db \in Db, NEW rights \in SUBSET Right,
           GrantPermission(u, db, rights)
    PROVE  StoreChange
<1>1. CASE u \notin users
  BY <1>1, Unchanged DEF GrantPermission
<1>2. CASE u \in users
  <2>1. StoreInv /\ user \in [UserId -> User \cup {None}] /\ u \in DOMAIN userPerms
    BY <1>2 DEF AuthInv, AuthTypeOK, StoreInv, StoreOK
  <2>2. /\ permissions' = With(permissions, <<u, db>>, rights)
        /\ userPerms' = With(userPerms, u, userPerms[u] \cup {<<u, db>>})
        /\ UNCHANGED <<user, users, usersByName>> /\ persist
    BY <1>2, <2>1 DEF GrantPermission, Granted
  <2>3. StoreOK(user, users, usersByName, With(permissions, <<u, db>>, rights),
                With(userPerms, u, userPerms[u] \cup {<<u, db>>}))
    BY <1>2, <2>1, GrantOK DEF StoreInv
  <2>4. StoreInv'
    BY <2>2, <2>3 DEF StoreInv
  <2> QED
    BY <2>1, <2>2, <2>4 DEF StoreChange
<1> QED
  BY <1>1, <1>2

LEMMA RevokePermissionChanges ==
    ASSUME AuthInv, NEW u \in UserId, NEW db \in Db, RevokePermission(u, db)
    PROVE  StoreChange
<1>1. CASE <<u, db>> \notin DOMAIN permissions
  BY <1>1, Unchanged DEF RevokePermission
<1>2. CASE <<u, db>> \in DOMAIN permissions
  <2>1. StoreInv /\ user \in [UserId -> User \cup {None}]
    BY DEF AuthInv, AuthTypeOK
  <2>2. /\ permissions' = Without(permissions, {<<u, db>>})
        /\ userPerms' = [userPerms EXCEPT ![u] = @ \ {<<u, db>>}]
        /\ UNCHANGED <<user, users, usersByName>> /\ persist
    BY <1>2 DEF RevokePermission
  <2>3. StoreOK(user, users, usersByName, Without(permissions, {<<u, db>>}),
                [userPerms EXCEPT ![u] = @ \ {<<u, db>>}])
    BY <1>2, <2>1, RevokeOK DEF StoreInv
  <2>4. StoreInv'
    BY <2>2, <2>3 DEF StoreInv
  <2> QED
    BY <2>1, <2>2, <2>4 DEF StoreChange
<1> QED
  BY <1>1, <1>2

-----------------------------------------------------------------------------
(* Requests and sessions.                                                  *)

LEMMA RequestFields ==
    /\ NoRequest \in RequestState /\ NoRequest.phase = "idle"
    /\ \A u \in UserId, p \in {"admitted", "updating"} :
            [phase |-> p, by |-> u] \in RequestState /\ [phase |-> p, by |-> u].phase = p
    /\ \A u, v \in UserId : /\ [phase |-> "checked", by |-> u, of |-> v] \in RequestState
                            /\ [phase |-> "checked", by |-> u, of |-> v].phase = "checked"
BY DEF RequestState, NoRequest

LEMMA RequestIs ==
    ASSUME NEW e \in RequestState
    PROVE  /\ e.phase \in {"admitted", "updating"} => e.by \in UserId /\ e = [phase |-> e.phase, by |-> e.by]
           /\ e.phase = "checked" => e.by \in UserId /\ e.of \in UserId
<1>1. CASE e = NoRequest
  BY <1>1 DEF NoRequest
<1>2. CASE e \in [phase : {"admitted", "updating"}, by : UserId]
  BY <1>2
<1>3. CASE e \in [phase : {"checked"}, by : UserId, of : UserId]
  BY <1>3
<1> QED
  BY <1>1, <1>2, <1>3 DEF RequestState

\* The kinds of session.
Found == [phase : {"found"}, id : UserId, seen : SUBSET Password]

Challenged == [phase : {"challenged"}, id : UserId, seen : SUBSET Password, key : Password \cup {Torn}]

Opened == [phase : {"open"}, id : UserId, seen : SUBSET Password, pw : Password]

LEMMA SessionFields ==
    /\ NoSession \in SessionState /\ NoSession.phase = "idle"
    /\ Found \cup Challenged \cup Opened \subseteq SessionState
    /\ \A e \in Found : e.phase = "found" /\ e.id \in UserId /\ e.seen \in SUBSET Password
    /\ \A e \in Challenged : /\ e.phase = "challenged" /\ e.id \in UserId /\ e.seen \in SUBSET Password
                             /\ e.key \in Password \cup {Torn}
    /\ \A e \in Opened : e.phase = "open" /\ e.id \in UserId /\ e.seen \in SUBSET Password /\ e.pw \in Password
BY DEF SessionState, NoSession, Found, Challenged, Opened

LEMMA SessionIs ==
    ASSUME NEW e \in SessionState
    PROVE  /\ e = NoSession \/ e \in Found \/ e \in Challenged \/ e \in Opened
           /\ e.phase = "found" => e \in Found
           /\ e.phase = "challenged" => e \in Challenged
           /\ e.phase = "open" => e \in Opened
<1>1. e = NoSession \/ e \in Found \/ e \in Challenged \/ e \in Opened
  BY DEF SessionState, Found, Challenged, Opened
<1> QED
  BY <1>1, SessionFields

LEMMA StoreTyped ==
    ASSUME NEW usr, NEW us, NEW byName, NEW perms, NEW uperms,
           StoreOK(usr, us, byName, perms, uperms)
    PROVE  /\ us \subseteq UserId
           /\ byName \in [DOMAIN byName -> UserId] /\ DOMAIN byName \subseteq Name
           /\ perms \in [DOMAIN perms -> SUBSET Right] /\ DOMAIN perms \subseteq Key
           /\ uperms \in [DOMAIN uperms -> SUBSET Key] /\ DOMAIN uperms \subseteq UserId
BY DEF StoreOK, Key

\* The file after an operation of the store.
LEMMA FileKept ==
    ASSUME AuthInv, StoreInv', up # "down",
           persist \/ UNCHANGED <<user, users, permissions, file, writeFailed>>
    PROVE  FileInv' /\ writeFailed' \in BOOLEAN
<1>1. FileOK(file) /\ FileIsCurrent /\ writeFailed \in BOOLEAN
  BY DEF AuthInv, FileInv, AuthTypeOK
<1>2. FileOK(Image')
  BY ImageOK DEF StoreInv, Image
<1>3. CASE file' = Image' /\ writeFailed' = FALSE
  BY <1>2, <1>3 DEF FileInv, FileIsCurrent
<1>4. CASE writeFailed' = TRUE /\ file' = file
  BY <1>1, <1>4 DEF FileInv, FileIsCurrent
<1>5. CASE UNCHANGED <<user, users, permissions, file, writeFailed>>
  <2>1. Image' = Image
    BY <1>5 DEF Image
  <2> QED
    BY <1>1, <1>5, <2>1 DEF FileInv, FileIsCurrent
<1> QED
  BY <1>3, <1>4, <1>5 DEF persist

\* A call of the store's operations, when no password change has the lock.
LEMMA StoreCall ==
    ASSUME AuthInv, StoreChange, up # "down", up' = "serving", updating = None, updating' = None,
           tokens' = tokens, sess' = sess,
           reqs' \in [Request -> RequestState], \A r \in Request : reqs'[r].phase # "updating"
    PROVE  AuthInv'
<1>1. AuthTypeOK /\ WorkInv /\ \A s \in Session : SessionInv(s)
  BY DEF AuthInv
<1>2. /\ StoreInv' /\ user' \in [UserId -> User \cup {None}]
      /\ \A u \in UserId : user[u] # None => user'[u] = user[u]
      /\ persist \/ UNCHANGED <<user, users, permissions, file, writeFailed>>
  BY DEF StoreChange
<1>3. FileInv' /\ writeFailed' \in BOOLEAN
  BY <1>2, FileKept
<1>4. /\ users' \subseteq UserId
      /\ usersByName' \in [DOMAIN usersByName' -> UserId] /\ DOMAIN usersByName' \subseteq Name
      /\ permissions' \in [DOMAIN permissions' -> SUBSET Right] /\ DOMAIN permissions' \subseteq Key
      /\ userPerms' \in [DOMAIN userPerms' -> SUBSET Key] /\ DOMAIN userPerms' \subseteq UserId
  BY <1>2, StoreTyped DEF StoreInv
<1>5. AuthTypeOK'
  BY <1>1, <1>2, <1>3, <1>4 DEF AuthTypeOK
<1>6. WorkInv'
  BY DEF WorkInv
<1>7. ASSUME NEW s \in Session
      PROVE  SessionInv(s)'
  <2>1. sess'[s] = sess[s] /\ sess[s] \in SessionState /\ SessionInv(s)
    BY <1>1 DEF AuthTypeOK
  <2>2. sess[s].phase = "found" => user'[sess[s].id] = user[sess[s].id]
    <3>1. sess[s].phase = "found" => sess[s].id \in UserId /\ user[sess[s].id] \in User
      BY <2>1, SessionIs, SessionFields DEF SessionInv
    <3> QED
      BY <1>2, <3>1, UserFields
  <2> QED
    BY <2>1, <2>2 DEF SessionInv
<1> QED
  BY <1>2, <1>3, <1>5, <1>6, <1>7 DEF AuthInv

\* Requests and sessions go on while the store stays as it is.
LEMMA WorkGoesOn ==
    ASSUME AuthInv, Serving, UNCHANGED <<up, store, updating, disk>>, tokens' \subseteq UserId,
           reqs' \in [Request -> RequestState],
           \A r \in Request : reqs'[r].phase = "updating" <=> reqs[r].phase = "updating",
           sess' \in [Session -> SessionState], \A s \in Session : SessionInv(s)'
    PROVE  AuthInv'
<1>1. AuthTypeOK /\ StoreInv /\ FileInv /\ WorkInv
  BY DEF AuthInv
<1>2. UNCHANGED <<user, users, usersByName, permissions, userPerms, file, writeFailed, up, updating>>
  BY DEF store, disk
<1>3. AuthTypeOK'
  BY <1>1, <1>2 DEF AuthTypeOK
<1>4. StoreInv' /\ FileInv'
  BY <1>1, <1>2 DEF StoreInv, FileInv, FileIsCurrent, Image
<1>5. WorkInv'
  BY <1>1, <1>2 DEF WorkInv, Serving
<1> QED
  BY <1>3, <1>4, <1>5 DEF AuthInv

\* Sessions that a step leaves alone.
LEMMA SessionStays ==
    ASSUME AuthInv, NEW s \in Session, sess'[s] = sess[s], UNCHANGED <<user, updating>>
    PROVE  SessionInv(s)'
BY DEF AuthInv, SessionInv

\* One request is answered or goes on.
LEMMA RequestStep ==
    ASSUME AuthInv, Serving, NEW r \in Request, NEW e \in RequestState,
           e.phase # "updating", reqs[r].phase # "updating",
           reqs' = [reqs EXCEPT ![r] = e], UNCHANGED <<up, store, updating, disk, tokens, sess>>
    PROVE  AuthInv'
<1>1. AuthTypeOK
  BY DEF AuthInv
<1>2. /\ reqs' \in [Request -> RequestState]
      /\ \A q \in Request : reqs'[q].phase = "updating" <=> reqs[q].phase = "updating"
  BY <1>1 DEF AuthTypeOK
<1>3. \A s \in Session : SessionInv(s)'
  BY SessionStays DEF store
<1>4. tokens' \subseteq UserId /\ sess' \in [Session -> SessionState]
  BY <1>1 DEF AuthTypeOK
<1> QED
  BY <1>2, <1>3, <1>4, WorkGoesOn

\* One session ends or goes on.
LEMMA SessionStep ==
    ASSUME AuthInv, Serving, NEW s \in Session, NEW e \in SessionState,
           sess' = [sess EXCEPT ![s] = e], SessionInv(s)', tokens' \subseteq UserId,
           UNCHANGED <<up, store, updating, disk, reqs>>
    PROVE  AuthInv'
<1>1. AuthTypeOK
  BY DEF AuthInv
<1>2. sess' \in [Session -> SessionState] /\ \A q \in Session : q # s => sess'[q] = sess[q]
  BY <1>1 DEF AuthTypeOK
<1>3. \A q \in Session : q # s => SessionInv(q)'
  BY <1>2, SessionStays DEF store
<1>4. reqs' \in [Request -> RequestState]
  BY <1>1 DEF AuthTypeOK
<1> QED
  BY <1>2, <1>3, <1>4, WorkGoesOn

-----------------------------------------------------------------------------
(* The steps.                                                              *)

\* While no password change has the lock, no request is in one.
LEMMA NoneUpdating ==
    ASSUME AuthInv, updating = None, NEW r \in Request
    PROVE  reqs[r].phase # "updating"
BY DEF AuthInv, WorkInv

\* A request of an administrator calls the store and is answered.
LEMMA HandlerKeeps ==
    ASSUME AuthInv, Unlocked, NEW r \in Request, StoreChange, Answer(r),
           UNCHANGED <<up, updating, tokens, sess>>
    PROVE  AuthInv'
<1>1. reqs \in [Request -> RequestState]
  BY DEF AuthInv, AuthTypeOK
<1>2. /\ reqs' \in [Request -> RequestState] /\ reqs'[r] = NoRequest
      /\ \A q \in Request : q # r => reqs'[q] = reqs[q]
  BY <1>1, RequestFields DEF Answer
<1>3. updating = None /\ up = "serving"
  BY DEF Unlocked, Serving
<1>4. \A q \in Request : reqs'[q].phase # "updating"
  BY <1>2, <1>3, NoneUpdating, RequestFields
<1> QED
  BY <1>2, <1>3, <1>4, StoreCall

LEMMA AdminKeeps ==
    ASSUME AuthInv, NEW r \in Request,
           handleUsers(r) \/ handleUser(r) \/ handleUserPermission(r) \/ handleUserPermissions(r)
    PROVE  AuthInv'
<1>1. CASE handleUsers(r)
  <2>1. StoreChange
    BY <1>1, CreateUserChanges DEF handleUsers
  <2> QED
    BY <1>1, <2>1, HandlerKeeps DEF handleUsers
<1>2. CASE handleUser(r)
  <2>1. StoreChange
    BY <1>2, DeleteUserChanges DEF handleUser
  <2> QED
    BY <1>2, <2>1, HandlerKeeps DEF handleUser
<1>3. CASE handleUserPermission(r)
  <2>1. StoreChange
    BY <1>3, RevokePermissionChanges DEF handleUserPermission
  <2> QED
    BY <1>3, <2>1, HandlerKeeps DEF handleUserPermission
<1>4. CASE handleUserPermissions(r)
  <2>1. reqs[r].of \in UserId
    BY <1>4, RequestIs DEF handleUserPermissions, AuthInv, AuthTypeOK
  <2>2. StoreChange
    BY <1>4, <2>1, GrantPermissionChanges DEF handleUserPermissions
  <2> QED
    BY <1>4, <2>2, HandlerKeeps DEF handleUserPermissions
<1> QED
  BY <1>1, <1>2, <1>3, <1>4

LEMMA ChecksKeep ==
    ASSUME AuthInv, NEW r \in Request, authMiddleware(r) \/ Forbidden(r) \/ CheckUser(r)
    PROVE  AuthInv'
<1>1. reqs[r] \in RequestState /\ users \subseteq UserId
  BY DEF AuthInv, AuthTypeOK
<1>2. CASE authMiddleware(r)
  <2>1. PICK u \in tokens \cap users : reqs' = [reqs EXCEPT ![r] = [phase |-> "admitted", by |-> u]]
    BY <1>2 DEF authMiddleware
  <2> DEFINE e == [phase |-> "admitted", by |-> u]
  <2>2. e \in RequestState /\ e.phase = "admitted" /\ reqs[r].phase = "idle"
    BY <1>1, <1>2, RequestFields DEF authMiddleware
  <2> HIDE DEF e
  <2>3. reqs' = [reqs EXCEPT ![r] = e]
    BY <2>1 DEF e
  <2> QED
    BY <1>2, <2>2, <2>3, RequestStep DEF authMiddleware, Unlocked
<1>3. CASE Forbidden(r)
  BY <1>3, RequestFields, RequestStep DEF Forbidden, Answer
<1>4. CASE CheckUser(r)
  <2>1. PICK u \in users : reqs' = [reqs EXCEPT ![r] = [phase |-> "checked", by |-> reqs[r].by, of |-> u]]
    BY <1>4 DEF CheckUser
  <2> DEFINE e == [phase |-> "checked", by |-> reqs[r].by, of |-> u]
  <2>2. reqs[r].phase = "admitted" /\ reqs[r].by \in UserId
    BY <1>1, <1>4, RequestIs DEF CheckUser, RequireAdmin
  <2>3. e \in RequestState /\ e.phase = "checked"
    BY <1>1, <2>2, RequestFields
  <2> HIDE DEF e
  <2>4. reqs' = [reqs EXCEPT ![r] = e]
    BY <2>1 DEF e
  <2> QED
    BY <1>4, <2>2, <2>3, <2>4, RequestStep DEF CheckUser, Unlocked
<1> QED
  BY <1>2, <1>3, <1>4

\* A password change begins: who is looking at the password may see both.
LEMMA UpdateUserPasswordKeeps ==
    ASSUME AuthInv, NEW r \in Request, UpdateUserPassword(r)
    PROVE  AuthInv'
<1>1. AuthTypeOK /\ StoreInv /\ FileInv /\ WorkInv /\ \A s \in Session : SessionInv(s)
  BY DEF AuthInv
<1>2. PICK u \in users, pw \in Password :
        /\ updating' = [of |-> u, pw |-> pw]
        /\ sess' = [s \in Session |->
                        IF sess[s].phase \in {"found", "challenged"} /\ sess[s].id = u
                        THEN [sess[s] EXCEPT !.seen = @ \cup {pw}] ELSE sess[s]]
  BY DEF UpdateUserPassword
<1>3. /\ up = "serving" /\ updating = None /\ reqs[r].phase = "admitted"
      /\ reqs' = [reqs EXCEPT ![r].phase = "updating"]
      /\ UNCHANGED <<up, user, users, usersByName, permissions, userPerms, file, writeFailed, tokens>>
  BY DEF UpdateUserPassword, Unlocked, Serving, RequireAdmin, store, disk
<1>4. /\ updating' \in Update /\ updating' # None /\ updating'.of = u /\ updating'.pw = pw
  BY <1>1, <1>2 DEF AuthTypeOK, Update
<1>5. /\ reqs' \in [Request -> RequestState] /\ reqs'[r].phase = "updating"
      /\ \A q \in Request : q # r => reqs'[q] = reqs[q]
  <2> DEFINE e == [reqs[r] EXCEPT !.phase = "updating"]
  <2>1. reqs[r] \in RequestState /\ reqs \in [Request -> RequestState]
    BY <1>1 DEF AuthTypeOK
  <2>2. reqs[r].by \in UserId /\ reqs[r] = [phase |-> "admitted", by |-> reqs[r].by]
    BY <1>3, <2>1, RequestIs
  <2>3. e = [phase |-> "updating", by |-> reqs[r].by]
    BY <2>2
  <2>4. e \in RequestState /\ e.phase = "updating"
    BY <2>2, <2>3, RequestFields
  <2>5. reqs' = [reqs EXCEPT ![r] = e]
    BY <1>3
  <2> HIDE DEF e
  <2> QED
    BY <2>1, <2>4, <2>5
<1>6. ASSUME NEW s \in Session
      PROVE  sess'[s] \in SessionState /\ SessionInv(s)'
  <2>1. sess[s] \in SessionState /\ SessionInv(s)
    BY <1>1 DEF AuthTypeOK
  <2>2. CASE sess[s].phase \in {"found", "challenged"} /\ sess[s].id = u
    <3> DEFINE e == [sess[s] EXCEPT !.seen = @ \cup {pw}]
    <3>1. sess'[s] = e
      BY <1>2, <2>2
    <3>2. CASE sess[s].phase = "found"
      <4>1. sess[s] \in Found /\ user[sess[s].id] \in User /\ user[sess[s].id].pw \in sess[s].seen
        BY <2>1, <3>2, SessionIs DEF SessionInv
      <4>2. e \in Found /\ e.phase = "found" /\ e.id = u /\ e.seen = sess[s].seen \cup {pw}
        BY <2>2, <4>1 DEF Found
      <4> HIDE DEF e
      <4>3. e \in SessionState
        BY <4>2, SessionFields
      <4> QED
        BY <1>3, <1>4, <2>2, <3>1, <4>1, <4>2, <4>3 DEF SessionInv
    <3>3. CASE sess[s].phase = "challenged"
      <4>1. sess[s] \in Challenged /\ sess[s].key \in sess[s].seen \cup {Torn}
        BY <2>1, <3>3, SessionIs DEF SessionInv
      <4>2. /\ e \in Challenged /\ e.phase = "challenged" /\ e.key = sess[s].key
            /\ e.seen = sess[s].seen \cup {pw}
        BY <4>1 DEF Challenged
      <4> HIDE DEF e
      <4>3. e \in SessionState
        BY <4>2, SessionFields
      <4> QED
        BY <3>1, <4>1, <4>2, <4>3 DEF SessionInv
    <3> QED
      BY <2>2, <3>2, <3>3
  <2>3. CASE ~(sess[s].phase \in {"found", "challenged"} /\ sess[s].id = u)
    <3>1. sess'[s] = sess[s]
      BY <1>2, <2>3
    <3> QED
      BY <1>3, <1>4, <2>1, <2>3, <3>1 DEF SessionInv
  <2> QED
    BY <2>2, <2>3
<1>7. sess' \in [Session -> SessionState]
  <2>1. DOMAIN sess' = Session /\ sess' = [s \in Session |-> sess'[s]]
    BY <1>2
  <2> QED
    BY <1>6, <2>1
<1>8. AuthTypeOK'
  BY <1>1, <1>3, <1>4, <1>5, <1>7 DEF AuthTypeOK
<1>9. StoreInv' /\ FileInv'
  BY <1>1, <1>3 DEF StoreInv, FileInv, FileIsCurrent, Image
<1>10. WorkInv'
  <2>1. \A q \in Request : reqs'[q].phase = "updating" => q = r
    BY <1>3, <1>5, NoneUpdating
  <2> QED
    BY <1>3, <1>4, <2>1 DEF WorkInv
<1> QED
  BY <1>6, <1>8, <1>9, <1>10 DEF AuthInv

\* The password is set and the lock given back.
LEMMA SetPasswordKeeps ==
    ASSUME AuthInv, NEW r \in Request, SetPassword(r)
    PROVE  AuthInv'
<1>1. AuthTypeOK /\ StoreInv /\ FileInv /\ WorkInv /\ \A s \in Session : SessionInv(s)
  BY DEF AuthInv
<1>2. /\ reqs[r].phase = "updating" /\ user' = [user EXCEPT ![updating.of].pw = updating.pw]
      /\ updating' = None /\ UNCHANGED <<up, users, usersByName, permissions, userPerms, tokens, sess>>
      /\ persist /\ reqs' = [reqs EXCEPT ![r] = NoRequest]
  BY DEF SetPassword, Answer
<1>3. updating # None /\ updating.of \in users /\ updating \in Update
  BY <1>1, <1>2 DEF WorkInv, AuthTypeOK
<1>4. PICK u \in users, pw \in Password : updating.of = u /\ updating.pw = pw
  BY <1>3 DEF Update
<1>5. up = "serving"
  BY <1>1, <1>2, RequestFields DEF WorkInv
<1> DEFINE e == [user[u] EXCEPT !.pw = pw]
<1>6. user[u] \in User /\ u \in UserId /\ user \in [UserId -> User \cup {None}]
  BY <1>1 DEF StoreInv, StoreOK, AuthTypeOK
<1>7. e \in User /\ e.name = user[u].name /\ e.pw = pw
  BY <1>6 DEF User
<1>8. user' = [user EXCEPT ![u] = e]
  BY <1>2, <1>4
<1> HIDE DEF e
<1>9. /\ user' \in [UserId -> User \cup {None}] /\ user'[u] = e
      /\ \A x \in UserId : x # u => user'[x] = user[x]
  BY <1>6, <1>7, <1>8
<1>10. StoreInv'
  <2>1. StoreOK(user, users, usersByName, permissions, userPerms)
    BY <1>1 DEF StoreInv
  <2>2. \A x \in users : x \in UserId /\ user'[x] \in User /\ user'[x].name = user[x].name
    BY <1>7, <1>9, <2>1 DEF StoreOK
  <2>3. \A n \in DOMAIN usersByName : usersByName[n] \in users
    BY <2>1 DEF StoreOK
  <2>4. StoreOK(user', users, usersByName, permissions, userPerms)
    BY <2>1, <2>2, <2>3 DEF StoreOK
  <2> QED
    BY <1>2, <2>4 DEF StoreInv
<1>11. FileInv' /\ writeFailed' \in BOOLEAN
  BY <1>2, <1>5, <1>10, FileKept
<1>12. /\ reqs' \in [Request -> RequestState] /\ reqs'[r] = NoRequest
       /\ \A q \in Request : q # r => reqs'[q] = reqs[q]
  BY <1>1, <1>2, RequestFields DEF AuthTypeOK
<1>13. \A q \in Request : reqs'[q].phase # "updating"
  BY <1>1, <1>2, <1>12, RequestFields DEF WorkInv
<1>14. AuthTypeOK'
  BY <1>1, <1>2, <1>9, <1>11, <1>12 DEF AuthTypeOK
<1>15. WorkInv'
  BY <1>2, <1>5, <1>13 DEF WorkInv
<1>16. ASSUME NEW s \in Session
       PROVE  SessionInv(s)'
  <2>1. sess'[s] = sess[s] /\ sess[s] \in SessionState /\ SessionInv(s)
    BY <1>1, <1>2 DEF AuthTypeOK
  <2>2. CASE sess[s].phase = "found"
    <3>1. sess[s].id \in UserId
      BY <2>1, <2>2, SessionIs, SessionFields
    <3> QED
      BY <1>2, <1>3, <1>4, <1>7, <1>9, <2>1, <2>2, <3>1 DEF SessionInv
  <2>3. CASE sess[s].phase # "found"
    BY <2>1, <2>3 DEF SessionInv
  <2> QED
    BY <2>2, <2>3
<1> QED
  BY <1>10, <1>11, <1>14, <1>15, <1>16 DEF AuthInv

\* Whatever a session reads without the lock, it may have seen or is torn.
LEMMA VisibleIs ==
    ASSUME AuthInv, NEW s \in Session, sess[s].phase = "found", NEW key \in Visible(sess[s].id)
    PROVE  key \in sess[s].seen \cup {Torn}
BY DEF AuthInv, SessionInv, Visible

LEMMA SessionsKeep ==
    ASSUME AuthInv, NEW s \in Session,
           GetUserByUsername(s) \/ Login(s) \/ NewSCRAMServer(s) \/ VerifyClientFinal(s) \/ Disconnect(s)
    PROVE  AuthInv'
<1>1. AuthTypeOK /\ StoreInv /\ SessionInv(s) /\ sess[s] \in SessionState /\ sess \in [Session -> SessionState]
  BY DEF AuthInv, AuthTypeOK
<1>2. ASSUME Serving, sess' = [sess EXCEPT ![s] = NoSession], tokens' \subseteq UserId,
             UNCHANGED <<up, store, updating, disk, reqs>>
      PROVE  AuthInv'
  <2>1. sess'[s] = NoSession
    BY <1>1, <1>2
  <2>2. SessionInv(s)'
    BY <2>1, SessionFields DEF SessionInv
  <2> QED
    BY <1>2, <2>2, SessionFields, SessionStep
<1>3. CASE GetUserByUsername(s)
  <2>1. PICK n \in DOMAIN usersByName :
            sess' = [sess EXCEPT ![s] = [phase |-> "found", id |-> usersByName[n],
                                         seen |-> {user[usersByName[n]].pw}]]
    BY <1>3 DEF GetUserByUsername
  <2>2. usersByName[n] \in UserId /\ user[usersByName[n]] \in User
    BY <1>1 DEF StoreInv, StoreOK
  <2>3. PICK u \in UserId, pw \in Password : u = usersByName[n] /\ pw = user[u].pw
    BY <2>2, UserFields
  <2> DEFINE e == [phase |-> "found", id |-> u, seen |-> {pw}]
  <2>4. e \in Found /\ e.phase = "found" /\ e.id = u /\ e.seen = {pw}
    BY DEF Found
  <2>5. sess' = [sess EXCEPT ![s] = e]
    BY <2>1, <2>3
  <2> HIDE DEF e
  <2>6. /\ sess'[s] = e /\ e \in SessionState /\ updating = None /\ Serving
        /\ UNCHANGED <<up, user, store, updating, disk, tokens, reqs>>
    BY <1>1, <1>3, <2>4, <2>5, SessionFields DEF GetUserByUsername, Unlocked, store
  <2>7. SessionInv(s)'
    BY <2>2, <2>3, <2>4, <2>6 DEF SessionInv
  <2> QED
    BY <1>1, <2>5, <2>6, <2>7, SessionStep DEF AuthTypeOK
<1>4. CASE Login(s)
  <2>1. sess[s].id \in UserId
    BY <1>1, <1>4, SessionIs, SessionFields DEF Login
  <2>2. tokens' \subseteq UserId
    BY <1>1, <1>4, <2>1 DEF Login, AuthTypeOK
  <2> QED
    BY <1>2, <1>4, <2>2 DEF Login
<1>5. CASE NewSCRAMServer(s)
  <2>1. sess[s].phase = "found" /\ sess[s] \in Found
    BY <1>1, <1>5, SessionIs DEF NewSCRAMServer
  <2>2. PICK key \in Visible(sess[s].id) :
            sess' = [sess EXCEPT ![s] = [phase |-> "challenged", id |-> sess[s].id, seen |-> sess[s].seen, key |-> key]]
    BY <1>5 DEF NewSCRAMServer
  <2>3. key \in sess[s].seen \cup {Torn}
    BY <2>1, VisibleIs
  <2> DEFINE e == [phase |-> "challenged", id |-> sess[s].id, seen |-> sess[s].seen, key |-> key]
  <2>4. e \in Challenged /\ e.phase = "challenged" /\ e.key \in e.seen \cup {Torn}
    <3>1. sess[s].id \in UserId /\ sess[s].seen \in SUBSET Password
      BY <2>1, SessionFields
    <3> QED
      BY <2>3, <3>1 DEF Challenged
  <2>5. sess' = [sess EXCEPT ![s] = e]
    BY <2>2
  <2>6. PICK d : d = e
    OBVIOUS
  <2> HIDE DEF e
  <2>7. sess'[s] = d /\ d \in SessionState
    BY <1>1, <2>4, <2>5, <2>6, SessionFields
  <2>8. SessionInv(s)'
    BY <2>4, <2>6, <2>7 DEF SessionInv
  <2> QED
    BY <1>1, <1>5, <2>5, <2>6, <2>7, <2>8, SessionStep DEF NewSCRAMServer, AuthTypeOK
<1>6. CASE VerifyClientFinal(s)
  <2>1. sess[s].phase = "challenged" /\ sess[s] \in Challenged /\ sess[s].key \in sess[s].seen \cup {Torn}
    BY <1>1, <1>6, SessionIs DEF VerifyClientFinal, SessionInv
  <2>2. PICK pw \in Password :
            sess' = [sess EXCEPT ![s] = IF Proved(s, pw)
                        THEN [phase |-> "open", id |-> sess[s].id, seen |-> sess[s].seen, pw |-> pw]
                        ELSE NoSession]
    BY <1>6 DEF VerifyClientFinal
  <2>3. CASE Proved(s, pw)
    <3>1. pw \in sess[s].seen
      BY <2>1, <2>3 DEF Proved
    <3> DEFINE e == [phase |-> "open", id |-> sess[s].id, seen |-> sess[s].seen, pw |-> pw]
    <3>2. e \in Opened /\ e.phase = "open" /\ e.pw \in e.seen
      <4>1. sess[s].id \in UserId /\ sess[s].seen \in SUBSET Password
        BY <2>1, SessionFields
      <4> QED
        BY <3>1, <4>1 DEF Opened
    <3>3. sess' = [sess EXCEPT ![s] = e]
      BY <2>2, <2>3
    <3>4. PICK d : d = e
      OBVIOUS
    <3> HIDE DEF e
    <3>5. sess'[s] = d /\ d \in SessionState
      BY <1>1, <3>2, <3>3, <3>4, SessionFields
    <3>6. SessionInv(s)'
      BY <3>2, <3>4, <3>5 DEF SessionInv
    <3> QED
      BY <1>1, <1>6, <3>3, <3>4, <3>5, <3>6, SessionStep DEF VerifyClientFinal, AuthTypeOK
  <2>4. CASE ~Proved(s, pw)
    BY <1>1, <1>2, <1>6, <2>2, <2>4 DEF VerifyClientFinal, AuthTypeOK
  <2> QED
    BY <2>3, <2>4
<1>7. CASE Disconnect(s)
  BY <1>1, <1>2, <1>7 DEF Disconnect, AuthTypeOK
<1> QED
  BY <1>3, <1>4, <1>5, <1>6, <1>7

\* The server loads what the file has.
LEMMA NewPersistentStoreKeeps ==
    ASSUME AuthInv, NewPersistentStore
    PROVE  AuthInv'
<1>1. AuthTypeOK /\ StoreInv /\ FileInv /\ WorkInv
  BY DEF AuthInv
<1> DEFINE fu == file.users
<1>2. /\ up = "down" /\ up' = "loaded" /\ UNCHANGED <<updating, file, writeFailed, tokens, reqs, sess>>
      /\ user' = [u \in UserId |-> IF u \in DOMAIN fu THEN fu[u] ELSE user[u]]
      /\ users' = DOMAIN fu
      /\ usersByName' = [n \in {fu[u].name : u \in DOMAIN fu} |-> CHOOSE u \in DOMAIN fu : fu[u].name = n]
      /\ permissions' = file.permissions
      /\ userPerms' = [u \in DOMAIN fu \cup {k[1] : k \in DOMAIN file.permissions} |->
                            {k \in DOMAIN file.permissions : k[1] = u}]
  BY DEF NewPersistentStore, load, disk
<1>3. FileOK(file) /\ fu \in [DOMAIN fu -> User] /\ DOMAIN fu \subseteq UserId
  BY <1>1 DEF FileInv, FileOK
<1>4. \A u \in DOMAIN fu : user'[u] = fu[u]
  BY <1>2, <1>3
<1>5. StoreInv'
  <2>1. StoreOK(user', DOMAIN file.users,
                [n \in {file.users[u].name : u \in DOMAIN file.users} |->
                        CHOOSE u \in DOMAIN file.users : file.users[u].name = n],
                file.permissions,
                [u \in DOMAIN file.users \cup {k[1] : k \in DOMAIN file.permissions} |->
                        {k \in DOMAIN file.permissions : k[1] = u}])
    BY <1>3, <1>4, LoadOK
  <2> QED
    BY <1>2, <2>1 DEF StoreInv
<1>6. user' \in [UserId -> User \cup {None}]
  BY <1>1, <1>2, <1>3 DEF AuthTypeOK
<1>7. file' = Image'
  <2>1. [u \in users' |-> user'[u]] = fu
    BY <1>2, <1>3, <1>4
  <2>2. file = [users |-> file.users, permissions |-> file.permissions]
    BY <1>3 DEF FileOK
  <2> QED
    BY <1>2, <2>1, <2>2 DEF Image
<1>8. FileInv'
  BY <1>2, <1>3, <1>7 DEF FileInv, FileIsCurrent
<1>9. /\ users' \subseteq UserId
      /\ usersByName' \in [DOMAIN usersByName' -> UserId] /\ DOMAIN usersByName' \subseteq Name
      /\ permissions' \in [DOMAIN permissions' -> SUBSET Right] /\ DOMAIN permissions' \subseteq Key
      /\ userPerms' \in [DOMAIN userPerms' -> SUBSET Key] /\ DOMAIN userPerms' \subseteq UserId
  BY <1>5, StoreTyped DEF StoreInv
<1>10. /\ updating = None /\ \A r \in Request : reqs[r] = NoRequest
       /\ \A s \in Session : sess[s] = NoSession
  BY <1>1, <1>2 DEF WorkInv
<1>11. AuthTypeOK'
  BY <1>1, <1>2, <1>6, <1>9, <1>10 DEF AuthTypeOK
<1>12. WorkInv'
  BY <1>2, <1>10, RequestFields DEF WorkInv
<1>13. \A s \in Session : SessionInv(s)'
  BY <1>2, <1>10, SessionFields DEF SessionInv
<1> QED
  BY <1>5, <1>8, <1>11, <1>12, <1>13 DEF AuthInv

LEMMA EnsureAdminKeeps ==
    ASSUME AuthInv, EnsureAdmin
    PROVE  AuthInv'
<1>1. StoreChange
  BY CreateUserChanges DEF EnsureAdmin, Role
<1>2. /\ up # "down" /\ up' = "serving" /\ up # "serving"
      /\ UNCHANGED <<updating, tokens, reqs, sess>>
  BY DEF EnsureAdmin
<1>3. updating = None /\ reqs \in [Request -> RequestState]
  BY <1>2 DEF AuthInv, WorkInv, AuthTypeOK
<1> QED
  BY <1>1, <1>2, <1>3, NoneUpdating, StoreCall

LEMMA EmptyMaps ==
    ASSUME NEW usr
    PROVE  StoreOK(usr, {}, <<>>, <<>>, <<>>)
<1>1. \A T : <<>> \in [{} -> T]
  OBVIOUS
<1>2. DOMAIN <<>> = {}
  OBVIOUS
<1> QED
  BY <1>1, <1>2 DEF StoreOK

\* Whatever is at work when the server ends, the file is left as it was.
LEMMA CrashKeeps ==
    ASSUME AuthInv, Crash
    PROVE  AuthInv'
<1>1. AuthTypeOK /\ FileInv
  BY DEF AuthInv
<1>2. /\ up' = "down" /\ updating' = None /\ reqs' = [r \in Request |-> NoRequest]
      /\ sess' = [s \in Session |-> NoSession] /\ users' = {} /\ usersByName' = <<>>
      /\ permissions' = <<>> /\ userPerms' = <<>> /\ UNCHANGED <<user, file, writeFailed, tokens>>
  BY DEF Crash, disk
<1>3. StoreInv'
  BY <1>2, EmptyMaps DEF StoreInv
<1>4. FileInv'
  BY <1>1, <1>2 DEF FileInv, FileIsCurrent
<1>5. /\ users' \subseteq UserId
      /\ usersByName' \in [DOMAIN usersByName' -> UserId] /\ DOMAIN usersByName' \subseteq Name
      /\ permissions' \in [DOMAIN permissions' -> SUBSET Right] /\ DOMAIN permissions' \subseteq Key
      /\ userPerms' \in [DOMAIN userPerms' -> SUBSET Key] /\ DOMAIN userPerms' \subseteq UserId
  BY <1>3, StoreTyped DEF StoreInv
<1>6. reqs' \in [Request -> RequestState] /\ sess' \in [Session -> SessionState]
  BY <1>2, RequestFields, SessionFields
<1>7. AuthTypeOK'
  BY <1>1, <1>2, <1>5, <1>6 DEF AuthTypeOK
<1>8. WorkInv'
  BY <1>2, RequestFields DEF WorkInv
<1>9. \A s \in Session : SessionInv(s)'
  BY <1>2, SessionFields DEF SessionInv
<1> QED
  BY <1>3, <1>4, <1>7, <1>8, <1>9 DEF AuthInv

-----------------------------------------------------------------------------
(* The theorems.                                                           *)

LEMMA InitHolds ==
    ASSUME AuthInit
    PROVE  AuthInv
<1>1. /\ up = "down" /\ updating = None /\ tokens = {} /\ user = [u \in UserId |-> None] /\ users = {}
      /\ usersByName = <<>> /\ permissions = <<>> /\ userPerms = <<>>
      /\ file = [users |-> <<>>, permissions |-> <<>>] /\ writeFailed = FALSE
      /\ reqs = [r \in Request |-> NoRequest] /\ sess = [s \in Session |-> NoSession]
  BY DEF AuthInit, Empty
<1>2. StoreInv
  BY <1>1, EmptyMaps DEF StoreInv
<1>3. FileInv
  <2>1. DOMAIN <<>> = {} /\ \A T : <<>> \in [{} -> T]
    OBVIOUS
  <2>2. file.users = <<>> /\ file.permissions = <<>> /\ file = [users |-> file.users, permissions |-> file.permissions]
    BY <1>1
  <2>3. FileOK(file)
    BY <2>1, <2>2 DEF FileOK
  <2> QED
    BY <1>1, <2>3 DEF FileInv, FileIsCurrent
<1>4. /\ users \subseteq UserId
      /\ usersByName \in [DOMAIN usersByName -> UserId] /\ DOMAIN usersByName \subseteq Name
      /\ permissions \in [DOMAIN permissions -> SUBSET Right] /\ DOMAIN permissions \subseteq Key
      /\ userPerms \in [DOMAIN userPerms -> SUBSET Key] /\ DOMAIN userPerms \subseteq UserId
  BY <1>2, StoreTyped DEF StoreInv
<1>5. reqs \in [Request -> RequestState] /\ sess \in [Session -> SessionState]
  BY <1>1, RequestFields, SessionFields
<1>6. AuthTypeOK
  BY <1>1, <1>4, <1>5 DEF AuthTypeOK
<1>7. WorkInv
  BY <1>1, RequestFields DEF WorkInv
<1>8. \A s \in Session : SessionInv(s)
  BY <1>1, SessionFields DEF SessionInv
<1> QED
  BY <1>2, <1>3, <1>6, <1>7, <1>8 DEF AuthInv

LEMMA StutterKeeps ==
    ASSUME AuthInv, UNCHANGED authVars
    PROVE  AuthInv'
<1>1. UNCHANGED <<up, user, users, usersByName, permissions, userPerms, updating, file, writeFailed, tokens, reqs, sess>>
  BY DEF authVars, store, disk
<1>2. AuthTypeOK' /\ StoreInv'
  BY <1>1 DEF AuthInv, AuthTypeOK, StoreInv
<1>3. FileInv' /\ WorkInv'
  BY <1>1 DEF AuthInv, FileInv, FileIsCurrent, Image, WorkInv
<1>4. \A s \in Session : SessionInv(s)'
  BY <1>1 DEF AuthInv, SessionInv
<1> QED
  BY <1>2, <1>3, <1>4 DEF AuthInv

\* The invariant of users and permissions (internal/auth): the maps and the file
\* agree, one password change has the lock, and sessions know what they read.
THEOREM AuthInvariant == AuthSpec => []AuthInv
<1>1. AuthInit => AuthInv
  BY InitHolds
<1>2. AuthInv /\ [AuthNext]_authVars => AuthInv'
  <2> SUFFICES ASSUME AuthInv, [AuthNext]_authVars
               PROVE  AuthInv'
    OBVIOUS
  <2>1. CASE NewPersistentStore \/ EnsureAdmin \/ Crash
    BY <2>1, NewPersistentStoreKeeps, EnsureAdminKeeps, CrashKeeps
  <2>2. ASSUME NEW r \in Request,
               \/ authMiddleware(r) \/ Forbidden(r) \/ handleUsers(r) \/ handleUser(r)
               \/ CheckUser(r) \/ handleUserPermissions(r) \/ handleUserPermission(r)
               \/ UpdateUserPassword(r) \/ SetPassword(r)
        PROVE  AuthInv'
    BY <2>2, ChecksKeep, AdminKeeps, UpdateUserPasswordKeeps, SetPasswordKeeps
  <2>3. ASSUME NEW s \in Session,
               \/ GetUserByUsername(s) \/ Login(s) \/ NewSCRAMServer(s) \/ VerifyClientFinal(s)
               \/ Disconnect(s)
        PROVE  AuthInv'
    BY <2>3, SessionsKeep
  <2> QED
    BY <2>1, <2>2, <2>3, StutterKeeps DEF AuthNext
<1> QED
  BY <1>1, <1>2, PTL DEF AuthSpec

\* The four maps of the store (store.go) agree, whatever requests cross each
\* other and whatever file the server was started with.
THEOREM MapsAgreeHolds == AuthSpec => []MapsAgree
<1>1. AuthInv => MapsAgree
  <2> SUFFICES ASSUME AuthInv
               PROVE  MapsAgree
    OBVIOUS
  <2>1. AuthTypeOK /\ StoreOK(user, users, usersByName, permissions, userPerms)
    BY DEF AuthInv, StoreInv
  <2>2. /\ \A u \in users : user[u].name \in DOMAIN usersByName /\ usersByName[user[u].name] = u
        /\ \A n \in DOMAIN usersByName : usersByName[n] \in users /\ user[usersByName[n]].name = n
    BY <2>1 DEF StoreOK
  <2>3. /\ DOMAIN userPerms = users /\ DOMAIN permissions \subseteq users \X Db
        /\ \A u \in users : userPerms[u] = {k \in DOMAIN permissions : k[1] = u}
    BY <2>1 DEF StoreOK
  <2>4. \A k \in DOMAIN permissions : k[1] \in users /\ k \in userPerms[k[1]]
    BY <2>3
  <2>5. UNION Range(userPerms) = DOMAIN permissions
    <3>1. \A k \in UNION Range(userPerms) : k \in DOMAIN permissions
      BY <2>3 DEF Range
    <3>2. \A k \in DOMAIN permissions : k \in UNION Range(userPerms)
      BY <2>3, <2>4 DEF Range
    <3> QED
      BY <3>1, <3>2
  <2>6. \A u \in users : \A k \in userPerms[u] : k[1] = u
    BY <2>3
  <2> QED
    BY <2>1, <2>2, <2>3, <2>5, <2>6 DEF MapsAgree
<1> QED
  BY <1>1, AuthInvariant, PTL

\* Access follows the store at once: the connections of a deleted user are denied
\* every database, and the databases a user is shown are those the user may read.
THEOREM AccessIsCurrentHolds == AuthSpec => []AccessIsCurrent
<1>1. AuthInv => AccessIsCurrent
  <2> SUFFICES ASSUME AuthInv
               PROVE  AccessIsCurrent
    OBVIOUS
  <2>1. /\ DOMAIN permissions \subseteq users \X Db
        /\ \A u \in users : userPerms[u] = {k \in DOMAIN permissions : k[1] = u}
    BY DEF AuthInv, StoreInv, StoreOK
  <2>2. ASSUME NEW s \in Session, sess[s].id \notin users, NEW db \in Db
        PROVE  ~sessionContext(s, db, {})
    <3>1. <<sess[s].id, db>> \notin DOMAIN permissions
      BY <2>1, <2>2
    <3> QED
      BY <2>2, <3>1 DEF sessionContext, HasDatabaseAccess
  <2>3. ASSUME NEW u \in users
        PROVE  filterDatabasesByPermission(u, Db) = {db \in Db : HasDatabaseAccess(u, db, {"read"})}
    <3>1. CASE IsAdmin(u)
      BY <3>1 DEF filterDatabasesByPermission, HasDatabaseAccess
    <3>2. CASE ~IsAdmin(u)
      <4>1. \A db \in Db : HasDatabaseAccess(u, db, {"read"}) <=>
                             <<u, db>> \in DOMAIN permissions /\ "read" \in permissions[<<u, db>>]
        BY <3>2 DEF HasDatabaseAccess
      <4>2. \A db \in Db : <<u, db>> \in userPerms[u] <=> <<u, db>> \in DOMAIN permissions
        BY <2>1
      <4>3. \A k \in userPerms[u] : k \in DOMAIN permissions /\ k[2] \in Db /\ k = <<u, k[2]>>
        BY <2>1
      <4>4. \A db \in Db : db \in GetAccessibleDatabases(u) <=>
                             <<u, db>> \in DOMAIN permissions /\ "read" \in permissions[<<u, db>>]
        <5>1. \A db \in Db : db \in GetAccessibleDatabases(u) <=>
                               \E k \in userPerms[u] : k \in DOMAIN permissions /\ "read" \in permissions[k] /\ db = k[2]
          BY DEF GetAccessibleDatabases
        <5>2. \A db \in Db : <<u, db>>[2] = db
          OBVIOUS
        <5>3. ASSUME NEW db \in Db, <<u, db>> \in DOMAIN permissions, "read" \in permissions[<<u, db>>]
              PROVE  db \in GetAccessibleDatabases(u)
          BY <4>2, <5>1, <5>2, <5>3
        <5>4. ASSUME NEW db \in Db, db \in GetAccessibleDatabases(u)
              PROVE  <<u, db>> \in DOMAIN permissions /\ "read" \in permissions[<<u, db>>]
          BY <4>3, <5>1, <5>4
        <5> QED
          BY <5>3, <5>4
      <4> QED
        BY <3>2, <4>1, <4>4 DEF filterDatabasesByPermission
    <3> QED
      BY <3>1, <3>2
  <2> QED
    BY <2>2, <2>3 DEF AccessIsCurrent
<1> QED
  BY <1>1, AuthInvariant, PTL

\* auth.json holds the store as it is unless the last write failed, so that the end
\* of the process at any other moment loses nothing that was reported done.
THEOREM FileIsCurrentHolds == AuthSpec => []FileIsCurrent
<1>1. AuthInv => FileIsCurrent
  BY DEF AuthInv, FileInv
<1> QED
  BY <1>1, AuthInvariant, PTL

\* A connection of a driver is open for a password that its user had at some time
\* since the handshake began.
THEOREM OpenedByPasswordHolds == AuthSpec => []OpenedByPassword
<1>1. AuthInv => OpenedByPassword
  BY DEF AuthInv, SessionInv, OpenedByPassword
<1> QED
  BY <1>1, AuthInvariant, PTL
=============================================================================
