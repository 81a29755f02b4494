-------------------------------- MODULE Auth --------------------------------
(***************************************************************************)
(* Users and permissions: the store of internal/auth with its file, the    *)
(* login over HTTP and the SCRAM handshake of the driver port, and the     *)
(* requests of internal/api that administer the store.                     *)
(*                                                                         *)
(* The store's functions run under its lock, persist included, so each is  *)
(* one step.  The file is replaced by a rename: a crash in the middle of a *)
(* call is a crash before it or after it.  Setting a password is two       *)
(* steps, because the password of a user is read without the lock.         *)
(* A password stands for the bcrypt hash and the SCRAM keys derived from   *)
(* it, and a client proves that it has one.                                *)
(***************************************************************************)
EXTENDS Functions

CONSTANTS
    UserId,                     \* the ids that uuid.New hands out, each once
    Name, Password, Db, Right,
    AdminUser, AdminPassword,   \* from the environment
    Request, Session,           \* HTTP requests; logins and driver connections
    None

Role == {"admin", "user"}

User == [name : Name, role : Role, pw : Password]

Update == [of : UserId, pw : Password]

Torn == "torn"      \* a salt and a key that do not belong together

ASSUME AuthAssumption ==
    /\ AdminUser \in Name /\ AdminPassword \in Password
    /\ None \notin User \cup Update /\ Torn \notin Password

VARIABLES
    up,             \* "down", "loaded", or "serving"
    user,           \* the user objects; None for an id not handed out
    users,          \* ids of Store.users
    usersByName,    \* Store.usersByName
    permissions,    \* Store.permissions: rights by user and database
    userPerms,      \* Store.userPerms: the keys of a user, without order
    updating,       \* the password change that holds the lock, or None
    file,           \* auth.json
    writeFailed,    \* history: whether the last write of the file failed
    tokens,         \* users with a token; they outlive the server
    reqs, sess      \* requests and sessions at work

store == <<user, users, usersByName, permissions, userPerms>>

disk == <<file, writeFailed>>

authVars == <<up, store, updating, disk, tokens, reqs, sess>>

Key == UserId \X Db

With(f, k, v) == [x \in DOMAIN f \cup {k} |-> IF x = k THEN v ELSE f[x]]

Without(f, S) == Restrict(f, DOMAIN f \ S)

NoRequest == [phase |-> "idle"]

NoSession == [phase |-> "idle"]

\* Who a request is by, and of whom it has checked that the user exists.
RequestState ==
    {NoRequest} \cup [phase : {"admitted", "updating"}, by : UserId]
                \cup [phase : {"checked"}, by : UserId, of : UserId]

\* seen: history, the passwords that the user had since the session began.
SessionState ==
    {NoSession} \cup [phase : {"found"}, id : UserId, seen : SUBSET Password]
                \cup [phase : {"challenged"}, id : UserId, seen : SUBSET Password,
                      key : Password \cup {Torn}]
                \cup [phase : {"open"}, id : UserId, seen : SUBSET Password, pw : Password]

AuthTypeOK ==
    /\ up \in {"down", "loaded", "serving"} /\ writeFailed \in BOOLEAN
    /\ user \in [UserId -> User \cup {None}]
    /\ users \subseteq UserId /\ tokens \subseteq UserId
    /\ usersByName \in [DOMAIN usersByName -> UserId] /\ DOMAIN usersByName \subseteq Name
    /\ permissions \in [DOMAIN permissions -> SUBSET Right] /\ DOMAIN permissions \subseteq Key
    /\ userPerms \in [DOMAIN userPerms -> SUBSET Key] /\ DOMAIN userPerms \subseteq UserId
    /\ updating \in Update \cup {None}
    /\ reqs \in [Request -> RequestState]
    /\ sess \in [Session -> SessionState]
    /\ updating # None => \E r \in Request : reqs[r].phase = "updating"

-----------------------------------------------------------------------------
(* The file.                                                               *)

Empty == [users |-> <<>>, permissions |-> <<>>]

Image == [users |-> [u \in users |-> user[u]], permissions |-> permissions]

\* An error of the write is dropped: the caller reports success.
persist ==
    \/ file' = Image' /\ writeFailed' = FALSE
    \/ writeFailed' = TRUE /\ UNCHANGED file

load ==
    LET fu == file.users
    IN  /\ user' = [u \in UserId |-> IF u \in DOMAIN fu THEN fu[u] ELSE user[u]]
        /\ users' = DOMAIN fu
        /\ usersByName' = [n \in {fu[u].name : u \in DOMAIN fu} |-> CHOOSE u \in DOMAIN fu : fu[u].name = n]
        /\ permissions' = file.permissions
        /\ userPerms' = [u \in DOMAIN fu \cup {k[1] : k \in DOMAIN file.permissions} |->
                            {k \in DOMAIN file.permissions : k[1] = u}]

-----------------------------------------------------------------------------
(* The store.                                                              *)

Serving == up = "serving"

Unlocked == Serving /\ updating = None

IsAdmin(u) == user[u].role = "admin"

Fresh == {u \in UserId : user[u] = None}

\* NewUser and the three maps it is entered into.
CreateUser(n, pw, role) ==
    IF n \in DOMAIN usersByName THEN UNCHANGED <<store, disk>>
    ELSE \E u \in Fresh :
            /\ user' = [user EXCEPT ![u] = [name |-> n, role |-> role, pw |-> pw]]
            /\ users' = users \cup {u}
            /\ usersByName' = With(usersByName, n, u)
            /\ userPerms' = With(userPerms, u, {})
            /\ UNCHANGED permissions
            /\ persist

DeleteUser(u) ==
    IF u \notin users THEN UNCHANGED <<store, disk>>
    ELSE /\ permissions' = Without(permissions, userPerms[u])
         /\ userPerms' = Without(userPerms, {u})
         /\ users' = users \ {u}
         /\ usersByName' = Without(usersByName, {user[u].name})
         /\ UNCHANGED user
         /\ persist

Granted(u, db, rights) ==
    /\ permissions' = With(permissions, <<u, db>>, rights)
    /\ userPerms' = With(userPerms, u, (IF u \in DOMAIN userPerms THEN userPerms[u] ELSE {}) \cup {<<u, db>>})
    /\ UNCHANGED <<user, users, usersByName>>
    /\ persist

\* A mutant: that the user exists was checked by the handler.
GrantUnchecked(u, db, rights) == Granted(u, db, rights)

\* A new permission is entered into the user's list, an old one changed.
GrantPermission(u, db, rights) ==
    IF u \notin users THEN UNCHANGED <<store, disk>> ELSE Granted(u, db, rights)

\* A mutant: the key stays in the user's list.
RevokeUnlisted(u, db) ==
    IF <<u, db>> \notin DOMAIN permissions THEN UNCHANGED <<store, disk>>
    ELSE /\ permissions' = Without(permissions, {<<u, db>>})
         /\ UNCHANGED <<user, users, usersByName, userPerms>>
         /\ persist

RevokePermission(u, db) ==
    IF <<u, db>> \notin DOMAIN permissions THEN UNCHANGED <<store, disk>>
    ELSE /\ permissions' = Without(permissions, {<<u, db>>})
         /\ userPerms' = [userPerms EXCEPT ![u] = @ \ {<<u, db>>}]
         /\ UNCHANGED <<user, users, usersByName>>
         /\ persist

HasDatabaseAccess(u, db, rights) ==
    \/ u \in users /\ IsAdmin(u)
    \/ <<u, db>> \in DOMAIN permissions /\ rights \subseteq permissions[<<u, db>>]

\* For who is no administrator; others have all.
GetAccessibleDatabases(u) ==
    {k[2] : k \in {k \in userPerms[u] : k \in DOMAIN permissions /\ "read" \in permissions[k]}}

-----------------------------------------------------------------------------
(* The server starts and ends.                                             *)

AuthInit ==
    /\ up = "down" /\ updating = None /\ tokens = {}
    /\ user = [u \in UserId |-> None] /\ users = {}
    /\ usersByName = <<>> /\ permissions = <<>> /\ userPerms = <<>>
    /\ file = Empty /\ writeFailed = FALSE
    /\ reqs = [r \in Request |-> NoRequest] /\ sess = [s \in Session |-> NoSession]

NewPersistentStore ==
    /\ up = "down" /\ load
    /\ up' = "loaded"
    /\ UNCHANGED <<updating, disk, tokens, reqs, sess>>

\* Before anything is served; an administrator who is there is left alone.
EnsureAdmin ==
    /\ up = "loaded"
    /\ CreateUser(AdminUser, AdminPassword, "admin")
    /\ up' = "serving"
    /\ UNCHANGED <<updating, tokens, reqs, sess>>

Crash ==
    /\ up # "down" /\ up' = "down"
    /\ updating' = None
    /\ reqs' = [r \in Request |-> NoRequest] /\ sess' = [s \in Session |-> NoSession]
    /\ users' = {} /\ usersByName' = <<>> /\ permissions' = <<>> /\ userPerms' = <<>>
    /\ UNCHANGED <<user, disk, tokens>>

-----------------------------------------------------------------------------
(* Requests of administrators.                                             *)

\* The token names the user, who is looked up; the request keeps the object.
authMiddleware(r) ==
    /\ Unlocked /\ reqs[r] = NoRequest
    /\ \E u \in tokens \cap users : reqs' = [reqs EXCEPT ![r] = [phase |-> "admitted", by |-> u]]
    /\ UNCHANGED <<up, store, updating, disk, tokens, sess>>

Answer(r) == reqs' = [reqs EXCEPT ![r] = NoRequest]

RequireAdmin(r) == reqs[r].phase = "admitted" /\ IsAdmin(reqs[r].by)

Forbidden(r) ==
    /\ Serving /\ reqs[r].phase = "admitted" /\ ~IsAdmin(reqs[r].by)
    /\ Answer(r)
    /\ UNCHANGED <<up, store, updating, disk, tokens, sess>>

handleUsers(r) ==
    /\ Unlocked /\ RequireAdmin(r)
    /\ \E n \in Name, pw \in Password, role \in Role : CreateUser(n, pw, role)
    /\ Answer(r)
    /\ UNCHANGED <<up, updating, tokens, sess>>

handleUser(r) ==
    /\ Unlocked /\ RequireAdmin(r)
    /\ \E u \in UserId : DeleteUser(u)
    /\ Answer(r)
    /\ UNCHANGED <<up, updating, tokens, sess>>

\* The user is checked, and then granted the permission.
CheckUser(r) ==
    /\ Unlocked /\ RequireAdmin(r)
    /\ \E u \in users : reqs' = [reqs EXCEPT ![r] = [phase |-> "checked", by |-> @.by, of |-> u]]
    /\ UNCHANGED <<up, store, updating, disk, tokens, sess>>

handleUserPermissions(r) ==
    /\ Unlocked /\ reqs[r].phase = "checked"
    /\ \E db \in Db, rights \in SUBSET Right : GrantPermission(reqs[r].of, db, rights)
    /\ Answer(r)
    /\ UNCHANGED <<up, updating, tokens, sess>>

\* The handler takes the database from the fourth part of the path.  A path of
\* three parts, as the router's comment has it, is refused: nothing changes, as
\* for a permission that is not there.
handleUserPermission(r) ==
    /\ Unlocked /\ RequireAdmin(r)
    /\ \E u \in UserId, db \in Db : RevokePermission(u, db)
    /\ Answer(r)
    /\ UNCHANGED <<up, updating, tokens, sess>>

\* Those who are looking at the password may see the old one or the new one.
UpdateUserPassword(r) ==
    /\ Unlocked /\ RequireAdmin(r)
    /\ \E u \in users, pw \in Password :
        /\ updating' = [of |-> u, pw |-> pw]
        /\ sess' = [s \in Session |->
                        IF sess[s].phase \in {"found", "challenged"} /\ sess[s].id = u
                        THEN [sess[s] EXCEPT !.seen = @ \cup {pw}] ELSE sess[s]]
    /\ reqs' = [reqs EXCEPT ![r].phase = "updating"]
    /\ UNCHANGED <<up, store, disk, tokens>>

\* A mutant: the change stays in memory.
SetPasswordUnsaved(r) ==
    /\ reqs[r].phase = "updating"
    /\ user' = [user EXCEPT ![updating.of].pw = updating.pw]
    /\ updating' = None
    /\ Answer(r)
    /\ UNCHANGED <<up, users, usersByName, permissions, userPerms, disk, tokens, sess>>

SetPassword(r) ==
    /\ reqs[r].phase = "updating"
    /\ user' = [user EXCEPT ![updating.of].pw = updating.pw]
    /\ updating' = None
    /\ UNCHANGED <<up, users, usersByName, permissions, userPerms, tokens, sess>>
    /\ persist
    /\ Answer(r)

-----------------------------------------------------------------------------
(* Sessions: logins over HTTP and connections of drivers.                  *)

\* The password of a user as it is read without the lock.
Visible(u) ==
    IF updating # None /\ updating.of = u THEN {user[u].pw, updating.pw, Torn} ELSE {user[u].pw}

GetUserByUsername(s) ==
    /\ Unlocked /\ sess[s] = NoSession
    /\ \E n \in DOMAIN usersByName :
        LET u == usersByName[n]
        IN  sess' = [sess EXCEPT ![s] = [phase |-> "found", id |-> u, seen |-> {user[u].pw}]]
    /\ UNCHANGED <<up, store, updating, disk, tokens, reqs>>

\* CheckPassword compares a hash, which is the old one or the new one.
Login(s) ==
    /\ Serving /\ sess[s].phase = "found"
    /\ \E pw \in Password, hash \in Visible(sess[s].id) \ {Torn} :
        tokens' = IF pw = hash THEN tokens \cup {sess[s].id} ELSE tokens
    /\ sess' = [sess EXCEPT ![s] = NoSession]
    /\ UNCHANGED <<up, store, updating, disk, reqs>>

\* The exchange goes on with the key it read, and sends its salt.
NewSCRAMServer(s) ==
    /\ Serving /\ sess[s].phase = "found"
    /\ \E key \in Visible(sess[s].id) :
        sess' = [sess EXCEPT ![s] = [phase |-> "challenged", id |-> @.id, seen |-> @.seen, key |-> key]]
    /\ UNCHANGED <<up, store, updating, disk, tokens, reqs>>

\* A mutant: the recovered key is not compared, a proof of the right length is enough.
ProvedByLength(s, pw) == TRUE

\* The client's proof was made for the salt it was sent.
Proved(s, pw) == sess[s].key = pw

VerifyClientFinal(s) ==
    /\ Serving /\ sess[s].phase = "challenged"
    /\ \E pw \in Password :
        sess' = [sess EXCEPT ![s] = IF Proved(s, pw)
                                    THEN [phase |-> "open", id |-> @.id, seen |-> @.seen, pw |-> pw]
                                    ELSE NoSession]
    /\ UNCHANGED <<up, store, updating, disk, tokens, reqs>>

Disconnect(s) ==
    /\ Serving /\ sess[s].phase = "open"
    /\ sess' = [sess EXCEPT ![s] = NoSession]
    /\ UNCHANGED <<up, store, updating, disk, tokens, reqs>>

\* What a query of the connection is allowed to do, asked again every time.
sessionContext(s, db, rights) == HasDatabaseAccess(sess[s].id, db, rights)

filterDatabasesByPermission(u, dbs) ==
    IF IsAdmin(u) THEN dbs ELSE dbs \cap GetAccessibleDatabases(u)

AuthNext ==
    \/ NewPersistentStore \/ EnsureAdmin \/ Crash
    \/ \E r \in Request :
        \/ authMiddleware(r) \/ Forbidden(r) \/ handleUsers(r) \/ handleUser(r)
        \/ CheckUser(r) \/ handleUserPermissions(r) \/ handleUserPermission(r)
        \/ UpdateUserPassword(r) \/ SetPassword(r)
    \/ \E s \in Session :
        GetUserByUsername(s) \/ Login(s) \/ NewSCRAMServer(s) \/ VerifyClientFinal(s) \/ Disconnect(s)

AuthSpec == AuthInit /\ [][AuthNext]_authVars

-----------------------------------------------------------------------------
(* Properties.                                                             *)

\* The four maps of the store agree, whatever requests cross each other and
\* whatever file the server was started with: names and users are one to one,
\* and a user's list has exactly the keys of the user's permissions.
\* (And every variable has its type.)
MapsAgree ==
    /\ AuthTypeOK
    /\ Serving =>
        /\ \A u \in users : user[u].name \in DOMAIN usersByName /\ usersByName[user[u].name] = u
        /\ \A n \in DOMAIN usersByName : usersByName[n] \in users /\ user[usersByName[n]].name = n
        /\ DOMAIN userPerms = users
        /\ UNION Range(userPerms) = DOMAIN permissions
        /\ \A u \in users : \A k \in userPerms[u] : k[1] = u

\* Access follows the store at once.  A deleted user's connections, handshakes
\* that end late among them, are denied every database; and the databases a user
\* is shown are those the user may read, although the list goes through
\* userPerms and the check through permissions.
AccessIsCurrent ==
    Serving => /\ \A s \in Session :
                    sess[s].phase = "open" /\ sess[s].id \notin users =>
                        \A db \in Db : ~sessionContext(s, db, {})
               /\ \A u \in users :
                    filterDatabasesByPermission(u, Db) = {db \in Db : HasDatabaseAccess(u, db, {"read"})}

\* The file holds the store as it is now unless the last write failed, so that the
\* end of the process at any other moment loses nothing that was reported done.
\* (Nothing is synced: of a power failure it says nothing.)
FileIsCurrent == up # "down" /\ ~writeFailed => file = Image

\* A connection is open for a password that its user had at some time since the
\* handshake began, also when the password changes under the exchange.
OpenedByPassword == \A s \in Session : sess[s].phase = "open" => sess[s].pw \in sess[s].seen
=============================================================================
