-------------------------------- MODULE Accounts -------------------------------
(****************************************************************************)
(* Users, their one row of keys and refresh tokens, and their stores: the   *)
(* auth service (register, login, refresh, log-out), the e-mail validation  *)
(* of the third-party service, and the handlers of the manager that open,   *)
(* edit and ban stores or ban users.  All of them share three tables and    *)
(* interleave at every await; register runs through a circular RPC, auth to *)
(* mail to auth.                                                            *)
(*                                                                          *)
(* A signed token is the key it was signed with, the shape of the user      *)
(* object in its payload and the second of its iat: two tokens that agree   *)
(* in these are the same string, and access and refresh token of a pair are *)
(* equal.  Passwords are right; tokens outlive the model (365 days).        *)
(*                                                                          *)
(* The manager may die at any await, as often as it likes; the auth and     *)
(* mail services do not die here (deaths of services and what the broker    *)
(* delivers again are the subject of Rpc).                                  *)
(****************************************************************************)
EXTENDS Naturals, FiniteSets

CONSTANTS
    Users,        \* one e-mail address each
    Requests,     \* messages to the services, each handled once
    Asks,         \* Asks[r]: the Job records request r may carry
    MaxTime,      \* bound: the last second modelled
    MaxInFlight   \* bound: handlers running at once

Guarded == {"logout", "createStore"}     \* behind AuthGuard
Kinds   == {"register", "validate", "login", "refresh", "editStore",
            "banStore", "unBanStore", "banUser", "unBanUser"} \cup Guarded
InManager == {"createStore", "editStore", "banStore", "unBanStore", "banUser", "unBanUser"}
Job     == [kind : Kinds, user : Users]

ASSUME AccountsAssumption ==
    /\ Users # {} /\ Requests # {}
    /\ \A r \in Requests : \A j \in Asks[r] : j \in Job
    /\ MaxTime \in Nat /\ MaxInFlight \in Nat

Token   == [key : Requests, form : {"login", "refresh"}, at : Nat]
KeyRow  == [user : Users, key : Requests,        \* the key pair made by a request
            refreshToken : SUBSET Token,         \* none yet, or one
            refreshTokenUsed : SUBSET Token]
UserRow == [isActive : BOOLEAN, isEmailValidated : BOOLEAN, role : {"USER", "SELLER"}]
Shop    == {"none", "active", "close"}
Columns == {"refreshToken", "refreshTokenUsed",
            "isActive", "isEmailValidated", "role", "storeStatus"}

Memory == [row   : KeyRow,            \* the row of keys it read first
           again : KeyRow,            \* the row createTokenPair read
           key   : Requests,          \* the key it signs with
           pair  : SUBSET Token,      \* the token it made
           usr   : UserRow,           \* the user object it saves
           shop  : Shop,              \* the store status it saves
           found : BOOLEAN,           \* what the SELECT of a save found
           dirty : SUBSET Columns]    \* what the UPDATE will write

NewUser == [isActive |-> TRUE, isEmailValidated |-> FALSE, role |-> "USER"]
NewRow(u, r) == [user |-> u, key |-> r, refreshToken |-> {}, refreshTokenUsed |-> {}]
Blank(r) == LET x == NewRow(CHOOSE u \in Users : TRUE, r)
            IN  [row |-> x, again |-> x, key |-> r, pair |-> {}, usr |-> NewUser,
                 shop |-> "none", found |-> FALSE, dirty |-> {}]

VARIABLES
    registered, user,    \* table user
    rows,                \* table token, unique in key and in user
    store,               \* table store, unique in user
    held,                \* tokens given to clients, in an answer or a mail
    mailed,              \* users whose confirmation mail was sent
    now,                 \* seconds
    pc, job, mem, reply, \* the handler of each request
    signed,              \* history: which request signed which token
    removed,             \* history: keys of the rows removed
    alone                \* history: no two handlers ever ran at once

db   == <<registered, user, rows, store>>
past == <<signed, removed, alone>>
vars == <<registered, user, rows, store, held, mailed, now, pc, job, mem, reply,
          signed, removed, alone>>

Init ==
    /\ registered = {} /\ user = [u \in Users |-> NewUser]
    /\ rows = {}
    /\ store = [u \in Users |-> "none"]
    /\ held = {} /\ mailed = {} /\ now = 0
    /\ pc = [r \in Requests |-> "new"]
    /\ job \in {f \in [Requests -> UNION {Asks[r] : r \in Requests}] :
                    \A r \in Requests : f[r] \in Asks[r]}
    /\ mem = [r \in Requests |-> Blank(r)]
    /\ reply = [r \in Requests |-> "none"]
    /\ signed = {} /\ removed = {} /\ alone = TRUE

Busy == {r \in Requests : pc[r] \notin {"new", "done"}}

(* Definitions named ...Slip are mistakes one could make in the code they   *)
(* precede; each is caught by a property of this module.                    *)

Arrives(r, k) == /\ pc[r] = "new" /\ job[r].kind = k
                 /\ Cardinality(Busy) < MaxInFlight
                 /\ alone' = (alone /\ Busy = {})

Goto(r, l) == pc' = [pc EXCEPT ![r] = l]

Answer(r, m) == /\ Goto(r, "done")
                /\ reply' = [reply EXCEPT ![r] = m]
                /\ mem' = [mem EXCEPT ![r] = Blank(r)]

RowsOf(u) == {x \in rows : x.user = u}
Mine(u)   == {t \in held : job[t.key].user = u}

(* keyTokenRepository.remove: a DELETE by id *)
Remove(x) == /\ rows' = {y \in rows : y.key # x.key}
             /\ removed' = removed \cup {x.key}

--------------------------------------------------------------------------------
(* repository.save of a user, a store status or a row of keys: the SELECT by *)
(* id, later the UPDATE of the columns that differed from what it returned.  *)

UserSelect(r, e) ==
    mem' = [mem EXCEPT ![r].usr = e,
                       ![r].dirty = {c \in {"isActive", "isEmailValidated", "role"} :
                                        e[c] # user[job[r].user][c]}]

UserUpdate(r) ==
    LET m == mem[r]
    IN  user' = [user EXCEPT ![job[r].user] =
                    [c \in {"isActive", "isEmailValidated", "role"} |->
                        IF c \in m.dirty THEN m.usr[c] ELSE @[c]]]

(* An array column may be written although its elements are equal. *)
RowSelect(r, e) ==
    \E extra \in SUBSET {"refreshTokenUsed"} :
        mem' = [mem EXCEPT
            ![r].found = \E x \in rows : x.key = e.key,
            ![r].dirty = extra \cup
                {c \in {"refreshToken", "refreshTokenUsed"} :
                    \E x \in rows : x.key = e.key /\ x[c] # e[c]}]

(* What the UPDATE or, if the SELECT found nothing, the INSERT leaves. *)
Merged(r, e) ==
    {IF x.key # e.key THEN x
     ELSE [x EXCEPT !.refreshToken =
                        IF "refreshToken" \in mem[r].dirty THEN e.refreshToken ELSE @,
                    !.refreshTokenUsed =
                        IF "refreshTokenUsed" \in mem[r].dirty THEN e.refreshTokenUsed
                        ELSE @] : x \in rows}

RowRefusedNeverSlip(r, e) == FALSE

RowRefused(r, e) == ~mem[r].found /\ RowsOf(e.user) # {}     \* unique userId

RowUpdate(r, e) == rows' = IF mem[r].found THEN Merged(r, e) ELSE rows \cup {e}

--------------------------------------------------------------------------------
(* register and the mail with the link *)

RegisterFind(r) ==
    /\ Arrives(r, "register")
    /\ \/ /\ job[r].user \in registered
          /\ Answer(r, "An account with that email already exists!")
       \/ /\ job[r].user \notin registered
          /\ Goto(r, "insert")
          /\ UNCHANGED <<mem, reply>>
    /\ UNCHANGED <<db, held, mailed, now, job, signed, removed>>

RegisterInsert(r) ==
    /\ pc[r] = "insert"
    /\ \/ /\ job[r].user \in registered                       \* unique e-mail
          /\ Answer(r, "error")
          /\ UNCHANGED registered
       \/ /\ job[r].user \notin registered
          /\ registered' = registered \cup {job[r].user}
          /\ Goto(r, "mail")
          /\ UNCHANGED <<mem, reply>>
    /\ UNCHANGED <<user, rows, store, held, mailed, now, job, past>>

(* The mail service finds the user and sends 'sign-token' to the auth       *)
(* service, which is still in register.                                     *)
MailAsksToken(r) ==
    /\ pc[r] = "mail"
    /\ Goto(r, "sign")
    /\ UNCHANGED <<db, held, mailed, now, job, mem, reply, past>>

Send(r) ==
    /\ pc[r] = "send"
    /\ \/ /\ mailed' = mailed \cup {job[r].user}
          /\ held' = held \cup mem[r].pair
          /\ Answer(r, "oke")
       \/ /\ Answer(r, "mail refused")
          /\ UNCHANGED <<held, mailed>>
    /\ UNCHANGED <<db, now, job, past>>

(* The link of the mail: decoded, not verified. *)
ValidateFind(r) ==
    /\ job[r].user \in mailed
    /\ Arrives(r, "validate")
    /\ LET x == user[job[r].user] IN
       \/ /\ x.isEmailValidated
          /\ Answer(r, "error")
       \/ /\ ~x.isEmailValidated
          /\ mem' = [mem EXCEPT ![r].usr = x]
          /\ Goto(r, "saveUser")
          /\ UNCHANGED reply
    /\ UNCHANGED <<db, held, mailed, now, job, signed, removed>>

--------------------------------------------------------------------------------
(* login, and signTokenUsingPrivateKeyAndPublishKey with createTokenPair *)

LoginAnyoneSlip(r) ==
    /\ Arrives(r, "login")
    /\ LET known == job[r].user \in registered
       IN  \/ ~known /\ Answer(r, "error")
           \/ known /\ Goto(r, "sign") /\ UNCHANGED <<mem, reply>>
    /\ UNCHANGED <<db, held, mailed, now, job, signed, removed>>

LoginFind(r) ==
    /\ Arrives(r, "login")
    /\ LET welcome == /\ job[r].user \in registered
                      /\ user[job[r].user].isEmailValidated
                      /\ user[job[r].user].isActive
       IN  \/ ~welcome /\ Answer(r, "error")
           \/ welcome /\ Goto(r, "sign") /\ UNCHANGED <<mem, reply>>
    /\ UNCHANGED <<db, held, mailed, now, job, signed, removed>>

SignOwnKeySlip(r) ==
    /\ pc[r] = "sign"
    /\ Goto(r, IF RowsOf(job[r].user) = {} THEN "create" ELSE "pair")
    /\ UNCHANGED <<db, held, mailed, now, job, mem, reply, past>>

(* A new key pair is made; the one stored for the user is used if there is. *)
Sign(r) ==
    /\ pc[r] = "sign"
    /\ \/ /\ RowsOf(job[r].user) = {}
          /\ Goto(r, "create")
          /\ UNCHANGED mem
       \/ \E x \in RowsOf(job[r].user) :
             /\ mem' = [mem EXCEPT ![r].key = x.key]
             /\ Goto(r, "pair")
    /\ UNCHANGED <<db, held, mailed, now, job, reply, past>>

CreateOverwritesSlip(r) ==
    /\ pc[r] = "create"
    /\ rows' = (rows \ RowsOf(job[r].user)) \cup {NewRow(job[r].user, r)}
    /\ Goto(r, "pair")
    /\ UNCHANGED <<registered, user, store, held, mailed, now, job, mem, reply, past>>

Create(r) ==
    /\ pc[r] = "create"
    /\ \/ /\ RowsOf(job[r].user) # {}                         \* unique userId
          /\ Answer(r, "error")
          /\ UNCHANGED rows
       \/ /\ RowsOf(job[r].user) = {}
          /\ rows' = rows \cup {NewRow(job[r].user, r)}
          /\ Goto(r, "pair")
          /\ UNCHANGED <<mem, reply>>
    /\ UNCHANGED <<registered, user, store, held, mailed, now, job, past>>

(* The row is read again; if it is gone, the save without a user id fails   *)
(* and createTokenPair returns nothing.                                     *)
PairFind(r) ==
    /\ pc[r] = "pair"
    /\ \/ /\ RowsOf(job[r].user) = {}
          /\ Goto(r, "signed")
          /\ UNCHANGED <<mem, signed>>
       \/ \E x \in RowsOf(job[r].user) :
             LET t == [key |-> mem[r].key, at |-> now,
                       form |-> IF job[r].kind = "refresh" THEN "refresh" ELSE "login"]
             IN  /\ mem' = [mem EXCEPT ![r].pair = {t}, ![r].again = x]
                 /\ signed' = signed \cup {<<t, r>>}
                 /\ Goto(r, "pairSelect")
    /\ UNCHANGED <<db, held, mailed, now, job, reply, removed, alone>>

Paired(r) == [mem[r].again EXCEPT !.refreshToken = mem[r].pair]

PairSelect(r) ==
    /\ pc[r] = "pairSelect"
    /\ RowSelect(r, Paired(r))
    /\ Goto(r, "pairUpdate")
    /\ UNCHANGED <<db, held, mailed, now, job, reply, past>>

PairUpdate(r) ==
    /\ pc[r] = "pairUpdate"
    /\ Goto(r, "signed")
    /\ \/ /\ RowRefused(r, Paired(r))                          \* swallowed
          /\ mem' = [mem EXCEPT ![r].pair = {}]
          /\ UNCHANGED rows
       \/ /\ ~RowRefused(r, Paired(r))
          /\ RowUpdate(r, Paired(r))
          /\ UNCHANGED mem
    /\ UNCHANGED <<registered, user, store, held, mailed, now, job, reply, past>>

(* login answers 'oke' whatever createTokenPair returned; the mail service  *)
(* gives up without a token, and register answers 'oke' all the same; a     *)
(* refresh without a token fails on token.refresh.                          *)
Signed(r) ==
    /\ pc[r] = "signed"
    /\ LET none == mem[r].pair = {} IN
       \/ /\ job[r].kind = "login"
          /\ held' = held \cup mem[r].pair
          /\ Answer(r, "oke")
       \/ /\ job[r].kind = "register" /\ none
          /\ Answer(r, "oke")
          /\ UNCHANGED held
       \/ /\ job[r].kind = "register" /\ ~none
          /\ Goto(r, "send")
          /\ UNCHANGED <<held, mem, reply>>
       \/ /\ job[r].kind = "refresh" /\ none
          /\ Answer(r, "error")
          /\ UNCHANGED held
       \/ /\ job[r].kind = "refresh" /\ ~none
          /\ Goto(r, "rotate")
          /\ UNCHANGED <<held, mem, reply>>
    /\ UNCHANGED <<db, mailed, now, job, past>>

--------------------------------------------------------------------------------
(* handleRefreshToken *)

RefreshFind(r) ==
    /\ Arrives(r, "refresh")
    /\ \E t \in Mine(job[r].user) :
       \/ /\ RowsOf(job[r].user) = {}
          /\ Answer(r, "error")
       \/ \E x \in RowsOf(job[r].user) :
          \/ /\ t \in x.refreshTokenUsed
             /\ mem' = [mem EXCEPT ![r].row = x]
             /\ Goto(r, "reuse")
             /\ UNCHANGED reply
          \/ /\ t \notin x.refreshTokenUsed /\ x.refreshToken # {t}
             /\ Answer(r, "the Account already login exists")
          \/ /\ t \notin x.refreshTokenUsed /\ x.refreshToken = {t}
             /\ mem' = [mem EXCEPT ![r].row = x, ![r].key = x.key]
             /\ Goto(r, "pair")
             /\ UNCHANGED reply
    /\ UNCHANGED <<db, held, mailed, now, job, signed, removed>>

(* The exception after the removal is forgotten and the rotation goes on. *)
ReuseGoesOnSlip(r) ==
    /\ pc[r] = "reuse"
    /\ Remove(mem[r].row)
    /\ Goto(r, "rotate")
    /\ UNCHANGED <<registered, user, store, held, mailed, now, job, mem, reply,
                   signed, alone>>

Reuse(r) ==
    /\ pc[r] = "reuse"
    /\ Remove(mem[r].row)
    /\ Answer(r, "login Again")
    /\ UNCHANGED <<registered, user, store, held, mailed, now, job, signed, alone>>

RotatedKeepsSlip(r) ==
    [mem[r].row EXCEPT !.refreshTokenUsed = @ \cup mem[r].row.refreshToken]

Rotated(r) ==
    [mem[r].row EXCEPT !.refreshTokenUsed = @ \cup mem[r].row.refreshToken,
                       !.refreshToken = mem[r].pair]

RotateSelect(r) ==
    /\ pc[r] = "rotate"
    /\ RowSelect(r, Rotated(r))
    /\ Goto(r, "rotateUpdate")
    /\ UNCHANGED <<db, held, mailed, now, job, reply, past>>

RotateUpdate(r) ==
    /\ pc[r] = "rotateUpdate"
    /\ \/ /\ RowRefused(r, Rotated(r))
          /\ Answer(r, "error")
          /\ UNCHANGED <<rows, held>>
       \/ /\ ~RowRefused(r, Rotated(r))
          /\ RowUpdate(r, Rotated(r))
          /\ held' = held \cup mem[r].pair
          /\ Answer(r, "oke")
    /\ UNCHANGED <<registered, user, store, mailed, now, job, past>>

--------------------------------------------------------------------------------
(* AuthGuard: the presented token is verified with the stored public key,   *)
(* then the message goes to its handler.                                    *)
Admit(r) ==
    /\ \E k \in Guarded : Arrives(r, k)
    /\ \E t \in Mine(job[r].user) :
       \/ /\ \A x \in RowsOf(job[r].user) : x.key # t.key
          /\ Answer(r, "Unauthorized")
       \/ /\ \E x \in RowsOf(job[r].user) : x.key = t.key
          /\ Goto(r, IF job[r].kind = "logout" THEN "logout" ELSE "findUser")
          /\ UNCHANGED <<mem, reply>>
    /\ UNCHANGED <<db, held, mailed, now, job, signed, removed>>

(* The row of keys is looked up before it is removed: logOut fails without  *)
(* one, createStore throws in remove(null), banStore goes on.               *)
RowFind(r) ==
    /\ pc[r] \in {"logout", "dropKey", "banKey"}
    /\ \/ /\ RowsOf(job[r].user) = {} /\ pc[r] # "banKey"
          /\ Answer(r, "error")
       \/ /\ RowsOf(job[r].user) = {} /\ pc[r] = "banKey"
          /\ Goto(r, "saveStore")
          /\ UNCHANGED <<mem, reply>>
       \/ \E x \in RowsOf(job[r].user) :
             /\ mem' = [mem EXCEPT ![r].row = x]
             /\ Goto(r, "remove")
             /\ UNCHANGED reply
    /\ UNCHANGED <<db, held, mailed, now, job, past>>

RowRemove(r) ==
    /\ pc[r] = "remove"
    /\ Remove(mem[r].row)
    /\ \/ /\ job[r].kind = "logout"
          /\ Answer(r, "oke")
       \/ /\ job[r].kind # "logout"
          /\ Goto(r, IF job[r].kind = "createStore" THEN "openStore" ELSE "saveStore")
          /\ UNCHANGED <<mem, reply>>
    /\ UNCHANGED <<registered, user, store, held, mailed, now, job, signed, alone>>

--------------------------------------------------------------------------------
(* createStore: the user object is read before the list of owners. *)

CreateStoreFindUser(r) ==
    /\ pc[r] = "findUser"
    /\ mem' = [mem EXCEPT ![r].usr = user[job[r].user]]
    /\ Goto(r, "owners")
    /\ UNCHANGED <<db, held, mailed, now, job, reply, past>>

CreateStoreOwners(r) ==
    /\ pc[r] = "owners"
    /\ \/ /\ store[job[r].user] # "none"
          /\ Answer(r, "You have store")
       \/ /\ store[job[r].user] = "none"
          /\ Goto(r, "saveUser")
          /\ UNCHANGED <<mem, reply>>
    /\ UNCHANGED <<db, held, mailed, now, job, past>>

(* The seller is told 'oke' whatever became of the store. *)
CreateStoreOpenOkeSlip(r) ==
    /\ pc[r] = "openStore"
    /\ Answer(r, "oke")
    /\ store' \in {store, [store EXCEPT ![job[r].user] =
                               IF @ = "none" THEN "active" ELSE @]}
    /\ UNCHANGED <<registered, user, rows, held, mailed, now, job, past>>

(* The insert of the store fails on the unique userId, or the row is refused *)
(* (a value the database does not take, a lost connection); the role and    *)
(* the removal of the keys stay, and the catch answers with the error.      *)
CreateStoreOpen(r) ==
    /\ pc[r] = "openStore"
    /\ \/ /\ Answer(r, "error")
          /\ UNCHANGED store
       \/ /\ store[job[r].user] = "none"
          /\ store' = [store EXCEPT ![job[r].user] = "active"]
          /\ Answer(r, "oke")
    /\ UNCHANGED <<registered, user, rows, held, mailed, now, job, past>>

(* banUser and unBanUser *)
BanFind(r) ==
    /\ \E k \in {"banUser", "unBanUser"} : Arrives(r, k)
    /\ \/ /\ job[r].user \notin registered
          /\ Answer(r, "error")
       \/ /\ job[r].user \in registered
          /\ mem' = [mem EXCEPT ![r].usr = user[job[r].user]]
          /\ Goto(r, "saveUser")
          /\ UNCHANGED reply
    /\ UNCHANGED <<db, held, mailed, now, job, signed, removed>>

ChangedAndActiveSlip(r) ==
    [mem[r].usr EXCEPT
        !.isEmailValidated = @ \/ job[r].kind = "validate",
        !.isActive = job[r].kind # "banUser",
        !.role = IF job[r].kind = "createStore" THEN "SELLER" ELSE @]

(* The user object that validate-email, createStore, banUser, unBanUser save. *)
Changed(r) ==
    [mem[r].usr EXCEPT
        !.isEmailValidated = @ \/ job[r].kind = "validate",
        !.isActive = (@ \/ job[r].kind = "unBanUser") /\ job[r].kind # "banUser",
        !.role = IF job[r].kind = "createStore" THEN "SELLER" ELSE @]

SaveUserSelect(r) ==
    /\ pc[r] = "saveUser"
    /\ UserSelect(r, Changed(r))
    /\ Goto(r, "updateUser")
    /\ UNCHANGED <<db, held, mailed, now, job, reply, past>>

SaveUserUpdate(r) ==
    /\ pc[r] = "updateUser"
    /\ UserUpdate(r)
    /\ \/ /\ job[r].kind = "createStore"
          /\ Goto(r, "dropKey")
          /\ UNCHANGED <<mem, reply>>
       \/ /\ job[r].kind # "createStore"
          /\ Answer(r, "oke")
    /\ UNCHANGED <<registered, rows, store, held, mailed, now, job, past>>

(* banStore, unBanStore and editProfile: an edit writes the status it read. *)
StoreFind(r) ==
    /\ \E k \in {"banStore", "unBanStore", "editStore"} : Arrives(r, k)
    /\ LET s == store[job[r].user] IN
       \/ s = "none" /\ Answer(r, "error")
       \/ /\ s # "none"
          /\ mem' = [mem EXCEPT ![r].shop =
                IF job[r].kind = "banStore" THEN "close"
                ELSE IF job[r].kind = "unBanStore" THEN "active" ELSE s]
          /\ Goto(r, IF job[r].kind = "banStore" THEN "banKey" ELSE "saveStore")
          /\ UNCHANGED reply
    /\ UNCHANGED <<db, held, mailed, now, job, signed, removed>>

SaveStoreSelect(r) ==
    /\ pc[r] = "saveStore"
    /\ mem' = [mem EXCEPT ![r].dirty =
                   {c \in {"storeStatus"} : mem[r].shop # store[job[r].user]}]
    /\ Goto(r, "updateStore")
    /\ UNCHANGED <<db, held, mailed, now, job, reply, past>>

SaveStoreUpdate(r) ==
    /\ pc[r] = "updateStore"
    /\ store' = IF mem[r].dirty = {} THEN store
                ELSE [store EXCEPT ![job[r].user] = mem[r].shop]
    /\ Answer(r, "oke")
    /\ UNCHANGED <<registered, user, rows, held, mailed, now, job, past>>

--------------------------------------------------------------------------------
Tick == /\ now < MaxTime
        /\ now' = now + 1
        /\ UNCHANGED <<db, held, mailed, pc, job, mem, reply, past>>

(* The manager dies: what its handlers held is gone and nobody is answered.  *)
(* Their messages were acknowledged before the work began, so none is       *)
(* delivered again; a createStore that AuthGuard admitted may still be in   *)
(* the queue, and is handled after the restart.                             *)
ManagerDies ==
    /\ \E queued \in SUBSET {r \in Requests : pc[r] = "findUser"} :
       LET dead == {r \in Busy \ queued : job[r].kind \in InManager}
       IN  /\ pc' = [r \in Requests |-> IF r \in dead THEN "done" ELSE pc[r]]
           /\ reply' = [r \in Requests |-> IF r \in dead THEN "lost" ELSE reply[r]]
           /\ mem' = [r \in Requests |-> IF r \in dead THEN Blank(r) ELSE mem[r]]
    /\ UNCHANGED <<db, held, mailed, now, job, past>>

Arrival(r) == RegisterFind(r) \/ ValidateFind(r) \/ LoginFind(r) \/ RefreshFind(r)
              \/ Admit(r) \/ BanFind(r) \/ StoreFind(r)

Work(r) ==
    \/ RegisterInsert(r) \/ MailAsksToken(r)
    \/ Sign(r) \/ Create(r) \/ PairFind(r) \/ PairSelect(r) \/ PairUpdate(r) \/ Signed(r)
    \/ Reuse(r) \/ RotateSelect(r) \/ RotateUpdate(r)
    \/ RowFind(r) \/ RowRemove(r)
    \/ CreateStoreFindUser(r) \/ CreateStoreOwners(r) \/ CreateStoreOpen(r)
    \/ SaveUserSelect(r) \/ SaveUserUpdate(r)
    \/ SaveStoreSelect(r) \/ SaveStoreUpdate(r)

Next == \/ \E r \in Requests : Arrival(r) \/ Work(r) \/ Send(r)
        \/ ManagerDies
        \/ Tick

Spec == Init /\ [][Next]_vars

--------------------------------------------------------------------------------
(* Properties *)

Pcs == {"new", "insert", "mail", "send", "sign", "create", "pair", "pairSelect",
        "pairUpdate", "signed", "reuse", "rotate", "rotateUpdate", "logout", "findUser",
        "dropKey", "banKey", "remove", "owners", "openStore", "saveUser", "updateUser",
        "saveStore", "updateStore", "done"}

(* The tables, what handlers hold and the program counters have their types, *)
(* and no user ever has two rows of keys.                                   *)
TypeOK ==
    /\ registered \subseteq Users /\ user \in [Users -> UserRow]
    /\ rows \subseteq KeyRow
    /\ \A x, y \in rows : x.user = y.user \/ x.key = y.key => x = y
    /\ store \in [Users -> Shop]
    /\ held \subseteq Token /\ mailed \subseteq Users /\ now \in Nat
    /\ pc \in [Requests -> Pcs] /\ job \in [Requests -> Job]
    /\ mem \in [Requests -> Memory]
    /\ signed \subseteq Token \X Requests /\ removed \subseteq Requests /\ alone \in BOOLEAN

(* Every token a client was given is accepted by AuthGuard until its row of *)
(* keys is removed, however logins, mails and refreshes overlap: two logins  *)
(* that both find no row must not leave one client with a key nobody stored. *)
HandedVerify ==
    \A t \in held : t.key \in removed \/ \E x \in rows : x.key = t.key

(* A row whose refresh token was signed with another key than its own is    *)
(* left only by a login that overlapped the removal of its row.             *)
RowsCarryTheirKey ==
    \A x \in rows : \A t \in x.refreshToken : t.key = x.key \/ t.key \in removed

(* The refresh token in force is among the spent ones only if two handlers  *)
(* signed the same token within one second; otherwise no overlap of         *)
(* refreshes, logins and removals makes handleRefreshToken tear down a      *)
(* session for presenting the token in force.                               *)
SpentNotCurrent ==
    \A x \in rows : \A t \in x.refreshToken \cap x.refreshTokenUsed :
        Cardinality({p \in signed : p[1] = t}) > 1

(* While handlers run one at a time, a key whose row was removed by log-out, *)
(* a ban, a reused token or the opening of a store never comes back.        *)
RevokedStaysRevoked == alone => \A x \in rows : x.key \notin removed

(* While handlers run one at a time, every store belongs to a SELLER, and a *)
(* SELLER without a store is left only by a createStore that saved the role *)
(* and has not stored the store: it is at work, its store row was refused,  *)
(* or the manager died under it.  What a seller asks for is read from that  *)
(* store, and a repeated createStore is what gives such a user one.         *)
StoreOwnersSell ==
    alone => \A u \in Users :
        /\ store[u] # "none" => user[u].role = "SELLER"
        /\ user[u].role = "SELLER" /\ store[u] = "none" =>
              \E r \in Requests :
                  /\ job[r] = [kind |-> "createStore", user |-> u]
                  /\ \/ pc[r] \in {"dropKey", "remove", "openStore"}
                     \/ reply[r] \in {"error", "lost"}

(* While handlers run one at a time, a confirmed e-mail address and the     *)
(* SELLER role are kept, and isActive changes only when an administrator    *)
(* bans or unbans the user, although every handler saves the whole user.    *)
FlagsKept ==
    [][alone' => \A u \in Users :
         /\ user[u].isEmailValidated => user'[u].isEmailValidated
         /\ user[u].role = "SELLER" => user'[u].role = "SELLER"
         /\ user[u].isActive # user'[u].isActive =>
               \E r \in Requests : /\ pc[r] = "updateUser"
                                   /\ job[r].kind = IF user'[u].isActive THEN "unBanUser"
                                                    ELSE "banUser"]_vars

(* Nobody is registered without a link to confirm the address with, unless  *)
(* the mail server refuses the mail: no other handler can have made or      *)
(* removed the row of keys that sign-token needs before the address is      *)
(* confirmed, and a second register of the address stores nothing.          *)
RegisteredAreMailed ==
    \A u \in registered : u \in mailed \/ \E r \in Requests :
        /\ job[r] = [kind |-> "register", user |-> u]
        /\ \/ r \in Busy /\ pc[r] # "insert"
           \/ reply[r] = "mail refused"
================================================================================
