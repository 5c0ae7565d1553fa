----------------------------- MODULE Accounts_proofs ---------------------------
(****************************************************************************)
(* Proofs about Accounts, for any users, requests and number of handlers    *)
(* that overlap.  The inductive invariant has three parts.  Core and Tables  *)
(* are about keys and tokens: whose every row and token is (Owned), which    *)
(* keys are made and still accepted (OwnKey, Accepted, Carried), and what    *)
(* the tokens in force and the spent ones can be (Signs, Spends).  Unmailed  *)
(* is about how far a registration gets before its mail, Replied about who   *)
(* has ended.  Shops and Alone are about users and stores, Alone while       *)
(* handlers run one at a time.                                              *)
(****************************************************************************)
EXTENDS Accounts, FiniteSetTheorems, TLAPS

Flags    == {"isActive", "isEmailValidated", "role"}
Pairing  == {"pair", "pairSelect", "pairUpdate", "signed"}
Unsigned == {"new", "insert", "mail", "sign", "create"}

(* Which job is at which step. *)
Stage(r) ==
    /\ pc[r] \in {"insert", "mail", "send"} => job[r].kind = "register"
    /\ pc[r] \in {"sign", "create"} => job[r].kind \in {"register", "login"}
    /\ pc[r] \in Pairing => job[r].kind \in {"register", "login", "refresh"}
    /\ pc[r] \in {"reuse", "rotate", "rotateUpdate"} => job[r].kind = "refresh"
    /\ pc[r] = "logout" => job[r].kind = "logout"
    /\ pc[r] \in {"findUser", "owners", "dropKey", "openStore"} => job[r].kind = "createStore"
    /\ pc[r] = "banKey" => job[r].kind = "banStore"
    /\ pc[r] = "remove" => job[r].kind \in {"logout", "createStore", "banStore"}
    /\ pc[r] \in {"saveUser", "updateUser"} =>
          job[r].kind \in {"validate", "createStore", "banUser", "unBanUser"}
    /\ pc[r] \in {"saveStore", "updateStore"} =>
          job[r].kind \in {"banStore", "unBanStore", "editStore"}

(* A rotation that has not ended yet. *)
Rotating(r) == job[r].kind = "refresh" /\ pc[r] \in Pairing \cup {"rotate", "rotateUpdate"}

(* The handler holds the row it read first, or the one createTokenPair read. *)
HasRow(r)   == pc[r] \in {"reuse", "remove"} \/ Rotating(r)
HasAgain(r) == pc[r] \in {"pairSelect", "pairUpdate"}

Stored(k) == \E x \in rows : x.key = k
Live(k)   == k \in removed \/ Stored(k)
Minted(k) == pc[k] \notin Unsigned

(* Each row and each token of a handler is of the user the handler serves. *)
OwnedRow(x) == /\ job[x.key].user = x.user
               /\ \A t \in x.refreshToken : job[t.key].user = x.user
Owned(r) ==
    /\ job[mem[r].key].user = job[r].user
    /\ \A t \in mem[r].pair : job[t.key].user = job[r].user
    /\ HasRow(r) => mem[r].row.user = job[r].user /\ job[mem[r].row.key].user = job[r].user
    /\ HasAgain(r) => mem[r].again.user = job[r].user /\ job[mem[r].again.key].user = job[r].user

(* A handler before its signature still has its own key, which nobody has. *)
OwnKey(r) ==
    /\ ~Minted(r) => mem[r].key = r
    /\ HasRow(r) => Minted(mem[r].row.key)
    /\ HasAgain(r) => Minted(mem[r].again.key)

(* Tokens, given or about to be given, are of keys that are or were stored. *)
Accepted(r) == /\ \A t \in mem[r].pair : Live(t.key)
               /\ pc[r] = "pair" => Live(mem[r].key)

Carried(r) ==
    /\ HasAgain(r) => \A t \in mem[r].pair : t.key = mem[r].again.key \/ t.key \in removed
    /\ Rotating(r) => /\ mem[r].key = mem[r].row.key
                      /\ \A t \in mem[r].pair : t.key = mem[r].row.key

(* A token already given is written by nobody who has not given it yet,      *)
(* unless it was signed twice.                                              *)
Twice(t) == \E p, q \in Requests : p # q /\ <<t, p>> \in signed /\ <<t, q>> \in signed
Signs(r) ==
    /\ \A t \in mem[r].pair : <<t, r>> \in signed /\ (t \in held => Twice(t))
    /\ pc[r] \in Unsigned \cup {"pair"} => \A p \in signed : p[2] # r

(* A spent token is in force nowhere.  Rotation spends the token in force of *)
(* the row it read, and that token is in force no more once createTokenPair  *)
(* has written its own.                                                     *)
InForce(t) == {y \in rows : t \in y.refreshToken}
Gone(t)    == t \in held /\ (InForce(t) # {} => Twice(t))
Leaving(r, y) ==
    \/ pc[r] = "pair" /\ y.key = mem[r].row.key
    \/ pc[r] = "pairSelect" /\ y.key = mem[r].again.key
    \/ /\ pc[r] = "pairUpdate" /\ y.key = mem[r].again.key
       /\ mem[r].found /\ "refreshToken" \in mem[r].dirty
    \/ pc[r] = "signed" /\ mem[r].pair = {}
Spends(r) ==
    /\ HasAgain(r) => \A t \in mem[r].again.refreshTokenUsed : Gone(t)
    /\ Rotating(r) =>
          /\ \A t \in mem[r].row.refreshTokenUsed : Gone(t)
          /\ \A t \in mem[r].row.refreshToken :
                t \in held /\ \A y \in InForce(t) : Twice(t) \/ Leaving(r, y)

Core(r) == Stage(r) /\ Owned(r) /\ OwnKey(r) /\ Accepted(r) /\ Carried(r) /\ Signs(r) /\ Spends(r)

RowOK(x) == /\ OwnedRow(x) /\ Minted(x.key)
            /\ \A t \in x.refreshToken : t.key = x.key \/ t.key \in removed
            /\ \A t \in x.refreshTokenUsed : Gone(t)

Tables == /\ \A x \in rows : RowOK(x)
          /\ \A k \in removed : Minted(k)
          /\ \A t \in held : Live(t.key) /\ \E r \in Requests : <<t, r>> \in signed
          /\ IsFiniteSet(signed)

CoreInv == TypeOK /\ Tables /\ \A r \in Requests : Core(r)

(* Handlers of a store have read that it exists. *)
ForStore(r) == \/ pc[r] \in {"banKey", "saveStore", "updateStore"}
               \/ pc[r] = "remove" /\ job[r].kind = "banStore"
Shops == \A r \in Requests :
            ForStore(r) => store[job[r].user] # "none" /\ mem[r].shop # "none"

(* How far the registration of a user can be. *)
Entered(r) == pc[r] \notin {"new", "insert", "done"} /\ job[r].kind = "register"
Progress(r) ==
    /\ job[r].user \in registered
    /\ \A q \in Requests : Entered(q) /\ job[q].user = job[r].user => q = r
    /\ pc[r] \in {"mail", "sign", "create"} => RowsOf(job[r].user) = {}
    /\ pc[r] \in Pairing \cup {"send"} => RowsOf(job[r].user) # {}
    /\ HasAgain(r) => Stored(mem[r].again.key)
    /\ pc[r] = "pairUpdate" => mem[r].found
    /\ pc[r] \in {"pairSelect", "pairUpdate", "signed", "send"} => mem[r].pair # {}

(* Before the mail, only register and the bans get anywhere with a user. *)
Onward(r) ==
    \/ pc[r] \in {"new", "insert", "done"}
    \/ /\ pc[r] \in {"saveUser", "updateUser"} /\ job[r].kind \in {"banUser", "unBanUser"}
       /\ ~mem[r].usr.isEmailValidated
    \/ Entered(r) /\ Progress(r)

Fresh(u) ==
    /\ ~user[u].isEmailValidated /\ store[u] = "none"
    /\ \A t \in held : job[t.key].user # u
    /\ u \notin registered => RowsOf(u) = {}
    /\ \A r \in Requests : job[r].user = u => Onward(r)

Unmailed == \A u \in Users \ mailed : Fresh(u)

(* Who has an answer, or was lost with the manager, has ended. *)
Replied == /\ DOMAIN reply = Requests
           /\ \A r \in Requests : reply[r] # "none" => pc[r] = "done"

(* What a handler that runs alone still has right: the rows it read, the    *)
(* user object it saves, and how far it is with the user's store.           *)
KeepsKeys(r) ==
    /\ HasAgain(r) => Stored(mem[r].again.key)
    /\ Rotating(r) => Stored(mem[r].row.key)
    /\ pc[r] \in {"pairUpdate", "rotateUpdate"} => mem[r].found

Saves(r) ==
    LET x == user[job[r].user]
        y == mem[r].usr
    IN  /\ \A c \in Flags \ mem[r].dirty : y[c] = x[c]
        /\ x.isEmailValidated => y.isEmailValidated
        /\ (y.role = "SELLER") = (x.role = "SELLER" \/ job[r].kind = "createStore")
        /\ x.isActive # y.isActive => job[r].kind = IF y.isActive THEN "unBanUser" ELSE "banUser"
KeepsUser(r) ==
    /\ pc[r] \in {"owners", "saveUser"} => mem[r].usr = user[job[r].user]
    /\ pc[r] = "updateUser" => Saves(r)

(* createStore has changed the role and not stored the store yet; or it has *)
(* ended without a store, refused or killed.                                *)
Failed(r)  == job[r].kind = "createStore" /\ reply[r] \in {"error", "lost"}
Opening(r) == pc[r] \in {"dropKey", "remove", "openStore"} /\ job[r].kind = "createStore"
KeepsShop(r) ==
    /\ pc[r] \in {"saveUser", "updateUser"} /\ job[r].kind = "createStore" =>
          store[job[r].user] = "none"
    /\ pc[r] \in {"findUser", "owners", "saveUser", "updateUser", "dropKey"}
       /\ job[r].kind = "createStore" => RowsOf(job[r].user) # {}
    /\ Opening(r) => store[job[r].user] = "none" /\ user[job[r].user].role = "SELLER"
Sells(u) ==
    /\ store[u] # "none" => user[u].role = "SELLER"
    /\ user[u].role = "SELLER" =>
          \/ store[u] # "none"
          \/ \E r \in Requests : (Opening(r) \/ Failed(r)) /\ job[r].user = u

Alone ==
    alone =>
    /\ \A r, q \in Busy : r = q
    /\ \A r \in Requests : KeepsKeys(r) /\ KeepsUser(r) /\ KeepsShop(r)
    /\ \A x \in rows : x.key \notin removed
    /\ \A u \in Users : Sells(u)

--------------------------------------------------------------------------------
(* Types *)

LEMMA BlankType ==
    ASSUME NEW r \in Requests
    PROVE  Blank(r) \in Memory /\ Blank(r).key = r /\ Blank(r).pair = {}
<1>1. (CHOOSE u \in Users : TRUE) \in Users
    BY AccountsAssumption
<1>2. QED  BY <1>1 DEF Blank, NewRow, Memory, KeyRow, NewUser, UserRow, Shop

LEMMA MemoryFields ==
    ASSUME TypeOK, NEW r \in Requests
    PROVE  /\ mem[r] \in Memory /\ mem[r].row \in KeyRow /\ mem[r].again \in KeyRow
           /\ mem[r].key \in Requests /\ mem[r].pair \subseteq Token
           /\ mem[r].usr \in UserRow /\ mem[r].shop \in Shop
           /\ mem[r].found \in BOOLEAN /\ mem[r].dirty \subseteq Columns
           /\ mem[r].row.key \in Requests /\ mem[r].again.key \in Requests
           /\ mem[r].row.user \in Users /\ mem[r].again.user \in Users
           /\ mem[r].row.refreshToken \subseteq Token /\ mem[r].again.refreshToken \subseteq Token
           /\ mem[r].row.refreshTokenUsed \subseteq Token
           /\ mem[r].again.refreshTokenUsed \subseteq Token
           /\ job[r] \in Job /\ job[r].user \in Users /\ job[r].kind \in Kinds
           /\ pc[r] \in Pcs
<1>1. mem[r] \in Memory /\ job[r] \in Job /\ pc[r] \in Pcs
    BY DEF TypeOK
<1>2. QED  BY <1>1 DEF Memory, KeyRow, Job

(* The new value of a handler's memory is typed when its own entry is. *)
LEMMA MemoryType ==
    ASSUME TypeOK, NEW r \in Requests, NEW m \in Memory, mem' = [mem EXCEPT ![r] = m]
    PROVE  mem' \in [Requests -> Memory]
    BY DEF TypeOK

LEMMA AnswerType ==
    ASSUME TypeOK, NEW r \in Requests, NEW m, Answer(r, m)
    PROVE  pc' \in [Requests -> Pcs] /\ mem' \in [Requests -> Memory]
    BY BlankType DEF TypeOK, Answer, Goto, Pcs

LEMMA GotoType ==
    ASSUME TypeOK, NEW r \in Requests, NEW l \in Pcs, Goto(r, l)
    PROVE  pc' \in [Requests -> Pcs]
    BY DEF TypeOK, Goto

(* The user table after the UPDATE of a save. *)
LEMMA UserUpdateType ==
    ASSUME TypeOK, NEW r \in Requests, UserUpdate(r)
    PROVE  /\ user' \in [Users -> UserRow]
           /\ \A u \in Users : u # job[r].user => user'[u] = user[u]
           /\ \A c \in Flags : user'[job[r].user][c] =
                 IF c \in mem[r].dirty THEN mem[r].usr[c] ELSE user[job[r].user][c]
<1> DEFINE u == job[r].user
           f(c) == IF c \in mem[r].dirty THEN mem[r].usr[c] ELSE user[u][c]
           n == [isActive |-> f("isActive"), isEmailValidated |-> f("isEmailValidated"),
                 role |-> f("role")]
<1>1. u \in Users /\ mem[r].usr \in UserRow /\ user[u] \in UserRow
    BY MemoryFields DEF TypeOK
<1>2. n \in UserRow
    BY <1>1 DEF UserRow
<1>3. n = [c \in Flags |-> f(c)]
    BY DEF Flags
<1>4. user' = [user EXCEPT ![u] = n]
    BY <1>3 DEF UserUpdate, Flags
<1>5. user'[u] = n
    BY <1>1, <1>4 DEF TypeOK
<1>6. \A c \in Flags : n[c] = f(c)
    BY <1>3
<1>7. QED  BY <1>1, <1>2, <1>4, <1>5, <1>6 DEF TypeOK

--------------------------------------------------------------------------------
(* Steps that write no row of keys *)

LEMMA ArrivesType ==
    ASSUME NEW r \in Requests, NEW k, Arrives(r, k)
    PROVE  alone' \in BOOLEAN /\ pc[r] = "new" /\ job[r].kind = k
    BY DEF Arrives

(* Only the handler of r moves. *)
Frame(r) == /\ job' = job
            /\ \A q \in Requests : q # r => pc'[q] = pc[q] /\ mem'[q] = mem[q]

(* r ends, or goes on where it holds no row of keys. *)
Settles(r) ==
    /\ pc'[r] \notin {"pair", "pairSelect", "pairUpdate", "reuse", "rotate", "rotateUpdate",
                      "remove"}
    /\ ~Rotating(r)'
    /\ Minted(r) => Minted(r)'
    /\ \/ mem'[r].key = mem[r].key /\ mem'[r].pair = mem[r].pair /\ held' = held
       \/ /\ mem'[r] = Blank(r)
          /\ held' = held \/ held' = held \cup mem[r].pair

(* ... and writes no table of keys. *)
Plain(r) == Frame(r) /\ Settles(r) /\ UNCHANGED <<rows, signed, removed>>

LEMMA AnswerPlain ==
    ASSUME TypeOK, NEW r \in Requests, NEW m, Answer(r, m),
           UNCHANGED <<rows, signed, removed, job>>,
           held' = held \/ held' = held \cup mem[r].pair
    PROVE  Plain(r) /\ Stage(r)'
<1>1. pc'[r] = "done" /\ mem'[r] = Blank(r)
    BY DEF Answer, Goto, TypeOK
<1>2. \A q \in Requests : q # r => pc'[q] = pc[q] /\ mem'[q] = mem[q]
    BY DEF Answer, Goto, TypeOK
<1>3. Stage(r)' /\ ~Rotating(r)' /\ Minted(r)'
    BY <1>1 DEF Stage, Rotating, Minted, Pairing, Unsigned
<1>4. QED  BY <1>1, <1>2, <1>3 DEF Plain, Settles, Frame

LEMMA RegisterFindPlain ==
    ASSUME TypeOK, NEW r \in Requests, RegisterFind(r)
    PROVE  TypeOK' /\ Plain(r) /\ Stage(r)'
<1>1. job[r].kind = "register" /\ pc[r] = "new" /\ alone' \in BOOLEAN
    BY ArrivesType DEF RegisterFind
<1>2. CASE \E m : Answer(r, m)
    BY <1>1, <1>2, AnswerType, AnswerPlain DEF RegisterFind, TypeOK, db
<1>3. CASE Goto(r, "insert") /\ UNCHANGED <<mem, reply>>
    BY <1>1, <1>3, GotoType
       DEF RegisterFind, TypeOK, db, Goto, Plain, Settles, Frame, Stage, Minted, Rotating, Unsigned,
           Pairing, Pcs
<1>4. QED  BY <1>2, <1>3 DEF RegisterFind

LEMMA RegisterInsertPlain ==
    ASSUME TypeOK, NEW r \in Requests, Stage(r), RegisterInsert(r)
    PROVE  TypeOK' /\ Plain(r) /\ Stage(r)'
<1>1. CASE \E m : Answer(r, m) /\ UNCHANGED registered
    BY <1>1, AnswerType, AnswerPlain DEF RegisterInsert, TypeOK, past
<1>2. CASE /\ registered' = registered \cup {job[r].user}
           /\ Goto(r, "mail") /\ UNCHANGED <<mem, reply>>
  <2>1. job[r].user \in Users
      BY MemoryFields
  <2>2. /\ UNCHANGED <<user, rows, store, held, mailed, now, job, signed, removed, alone>>
        /\ pc[r] = "insert"
      BY DEF RegisterInsert, past
  <2>3. Plain(r) /\ Stage(r)' /\ pc' \in [Requests -> Pcs]
      BY <1>2, <2>2, GotoType
         DEF TypeOK, Goto, Plain, Settles, Frame, Stage, Minted, Rotating, Unsigned, Pairing, Pcs
  <2>4. QED  BY <1>2, <2>1, <2>2, <2>3 DEF TypeOK
<1>3. QED  BY <1>1, <1>2 DEF RegisterInsert

LEMMA MailAsksTokenPlain ==
    ASSUME TypeOK, NEW r \in Requests, Stage(r), MailAsksToken(r)
    PROVE  TypeOK' /\ Plain(r) /\ Stage(r)'
    BY GotoType DEF MailAsksToken, TypeOK, db, past, Goto, Plain, Settles, Frame, Stage, Minted,
                    Rotating, Unsigned, Pairing, Pcs

LEMMA SendPlain ==
    ASSUME TypeOK, NEW r \in Requests, Send(r)
    PROVE  TypeOK' /\ Plain(r) /\ Stage(r)'
<1>1. \E m : Answer(r, m)
    BY DEF Send
<1>2. Plain(r) /\ Stage(r)'
    BY <1>1, AnswerPlain DEF Send, db, past
<1>3. held' \subseteq Token /\ mailed' \subseteq Users
    BY MemoryFields DEF Send, TypeOK
<1>4. QED  BY <1>1, <1>2, <1>3, AnswerType DEF Send, TypeOK, db, past

(* The handler reads a user object. *)
LEMMA ReadsUser ==
    ASSUME TypeOK, NEW r \in Requests, NEW x \in UserRow, mem' = [mem EXCEPT ![r].usr = x]
    PROVE  /\ mem' \in [Requests -> Memory]
           /\ mem'[r].key = mem[r].key /\ mem'[r].pair = mem[r].pair /\ mem'[r].usr = x
           /\ \A q \in Requests : q # r => mem'[q] = mem[q]
<1>1. [mem[r] EXCEPT !.usr = x] \in Memory /\ mem[r] \in Memory
    BY MemoryFields DEF Memory
<1>2. QED  BY <1>1 DEF TypeOK, Memory

LEMMA ValidateFindPlain ==
    ASSUME TypeOK, NEW r \in Requests, ValidateFind(r)
    PROVE  TypeOK' /\ Plain(r) /\ Stage(r)'
<1>1. job[r].kind = "validate" /\ pc[r] = "new" /\ alone' \in BOOLEAN
    BY ArrivesType DEF ValidateFind
<1>2. CASE \E m : Answer(r, m)
    BY <1>1, <1>2, AnswerType, AnswerPlain DEF ValidateFind, TypeOK, db
<1>3. CASE /\ mem' = [mem EXCEPT ![r].usr = user[job[r].user]]
           /\ Goto(r, "saveUser") /\ UNCHANGED reply
  <2>1. user[job[r].user] \in UserRow
      BY MemoryFields DEF TypeOK
  <2>2. QED
      BY <1>1, <1>3, <2>1, GotoType, ReadsUser
         DEF ValidateFind, TypeOK, db, Goto, Plain, Settles, Frame, Stage, Minted, Rotating,
             Unsigned, Pairing, Pcs
<1>4. QED  BY <1>2, <1>3 DEF ValidateFind

LEMMA LoginFindPlain ==
    ASSUME TypeOK, NEW r \in Requests, LoginFind(r)
    PROVE  TypeOK' /\ Plain(r) /\ Stage(r)'
<1>1. job[r].kind = "login" /\ pc[r] = "new" /\ alone' \in BOOLEAN
    BY ArrivesType DEF LoginFind
<1>2. CASE \E m : Answer(r, m)
    BY <1>1, <1>2, AnswerType, AnswerPlain DEF LoginFind, TypeOK, db
<1>3. CASE Goto(r, "sign") /\ UNCHANGED <<mem, reply>>
    BY <1>1, <1>3, GotoType
       DEF LoginFind, TypeOK, db, Goto, Plain, Settles, Frame, Stage, Minted, Rotating, Unsigned,
           Pairing, Pcs
<1>4. QED  BY <1>2, <1>3 DEF LoginFind

LEMMA SignPlain ==
    ASSUME TypeOK, NEW r \in Requests, Stage(r), Sign(r), RowsOf(job[r].user) = {}
    PROVE  TypeOK' /\ Plain(r) /\ Stage(r)' /\ Goto(r, "create") /\ mem' = mem
<1>1. Goto(r, "create") /\ mem' = mem /\ pc[r] = "sign"
    BY DEF Sign
<1>2. QED
    BY <1>1, GotoType
       DEF Sign, TypeOK, db, past, Goto, Plain, Settles, Frame, Stage, Minted, Rotating,
                          Unsigned, Pairing, Pcs

LEMMA CreatePlain ==
    ASSUME TypeOK, NEW r \in Requests, Create(r), RowsOf(job[r].user) # {}
    PROVE  TypeOK' /\ Plain(r) /\ Stage(r)' /\ Answer(r, "error")
    BY AnswerType, AnswerPlain DEF Create, TypeOK, past

LEMMA SignedPlain ==
    ASSUME TypeOK, NEW r \in Requests, Stage(r), Signed(r),
           job[r].kind # "refresh" \/ mem[r].pair = {}
    PROVE  TypeOK' /\ Plain(r) /\ Stage(r)'
<1>1. CASE \E m : Answer(r, m) /\ (held' = held \/ held' = held \cup mem[r].pair)
  <2>1. held' \subseteq Token
      BY <1>1, MemoryFields DEF TypeOK
  <2>2. QED  BY <1>1, <2>1, AnswerType, AnswerPlain DEF Signed, TypeOK, db, past
<1>2. CASE job[r].kind = "register" /\ Goto(r, "send") /\ UNCHANGED <<held, mem, reply>>
    BY <1>2, GotoType
       DEF Signed, TypeOK, db, past, Goto, Plain, Settles, Frame, Stage, Minted, Rotating,
           Unsigned, Pairing, Pcs
<1>3. QED  BY <1>1, <1>2 DEF Signed

LEMMA RefreshFindPlain ==
    ASSUME TypeOK, NEW r \in Requests, RefreshFind(r), \E m : Answer(r, m)
    PROVE  TypeOK' /\ Plain(r) /\ Stage(r)'
<1>1. alone' \in BOOLEAN
    BY ArrivesType DEF RefreshFind
<1>2. QED  BY <1>1, AnswerType, AnswerPlain DEF RefreshFind, TypeOK, db

LEMMA AdmitPlain ==
    ASSUME TypeOK, NEW r \in Requests, Admit(r)
    PROVE  TypeOK' /\ Plain(r) /\ Stage(r)'
<1>1. job[r].kind \in {"logout", "createStore"} /\ pc[r] = "new" /\ alone' \in BOOLEAN
    BY ArrivesType DEF Admit, Guarded
<1>2. CASE \E m : Answer(r, m)
    BY <1>1, <1>2, AnswerType, AnswerPlain DEF Admit, TypeOK, db
<1>3. CASE /\ Goto(r, IF job[r].kind = "logout" THEN "logout" ELSE "findUser")
           /\ UNCHANGED <<mem, reply>>
    BY <1>1, <1>3, GotoType
       DEF Admit, TypeOK, db, Goto, Plain, Settles, Frame, Stage, Minted, Rotating, Unsigned,
           Pairing, Pcs
<1>4. QED  BY <1>2, <1>3 DEF Admit

LEMMA RowFindPlain ==
    ASSUME TypeOK, NEW r \in Requests, Stage(r), RowFind(r), RowsOf(job[r].user) = {}
    PROVE  TypeOK' /\ Plain(r) /\ Stage(r)'
<1>1. CASE \E m : Answer(r, m)
    BY <1>1, AnswerType, AnswerPlain DEF RowFind, TypeOK, db, past
<1>2. CASE pc[r] = "banKey" /\ Goto(r, "saveStore") /\ UNCHANGED <<mem, reply>>
    BY <1>2, GotoType
       DEF RowFind, TypeOK, db, past, Goto, Plain, Settles, Frame, Stage, Minted, Rotating,
                          Unsigned, Pairing, Pcs
<1>3. QED  BY <1>1, <1>2 DEF RowFind

LEMMA CreateStorePlain ==
    ASSUME TypeOK, NEW r \in Requests, Stage(r),
           CreateStoreFindUser(r) \/ CreateStoreOwners(r) \/ CreateStoreOpen(r)
    PROVE  TypeOK' /\ Plain(r) /\ Stage(r)'
<1>0. job[r].kind = "createStore" /\ job[r].user \in Users
    BY MemoryFields DEF CreateStoreFindUser, CreateStoreOwners, CreateStoreOpen, Stage
<1>1. CASE CreateStoreFindUser(r)
  <2>1. user[job[r].user] \in UserRow
      BY MemoryFields DEF TypeOK
  <2>2. /\ mem' = [mem EXCEPT ![r].usr = user[job[r].user]] /\ Goto(r, "owners")
        /\ UNCHANGED <<registered, user, rows, store, held, mailed, now, job, reply, signed,
                       removed, alone>>
      BY <1>1 DEF CreateStoreFindUser, db, past
  <2>3. /\ mem' \in [Requests -> Memory] /\ mem'[r].key = mem[r].key /\ mem'[r].pair = mem[r].pair
        /\ \A q \in Requests : q # r => mem'[q] = mem[q]
      BY <2>1, <2>2, ReadsUser
  <2>4. QED
      BY <1>0, <2>2, <2>3, GotoType
         DEF TypeOK, Goto, Plain, Settles, Frame, Stage, Minted, Rotating, Unsigned, Pairing, Pcs
<1>2. CASE CreateStoreOwners(r)
  <2>1. CASE \E m : Answer(r, m)
      BY <1>2, <2>1, AnswerType, AnswerPlain DEF CreateStoreOwners, TypeOK, db, past
  <2>2. CASE Goto(r, "saveUser") /\ UNCHANGED <<mem, reply>>
      BY <1>0, <1>2, <2>2, GotoType
         DEF CreateStoreOwners, TypeOK, db, past, Goto, Plain, Settles, Frame, Stage, Minted,
             Rotating, Unsigned, Pairing, Pcs
  <2>3. QED  BY <1>2, <2>1, <2>2 DEF CreateStoreOwners
<1>3. CASE CreateStoreOpen(r)
  <2>1. store' \in [Users -> Shop]
      BY <1>3 DEF CreateStoreOpen, TypeOK, Shop
  <2>2. QED
      BY <1>3, <2>1, AnswerType, AnswerPlain DEF CreateStoreOpen, TypeOK, past
<1>4. QED  BY <1>1, <1>2, <1>3

LEMMA BanFindPlain ==
    ASSUME TypeOK, NEW r \in Requests, BanFind(r)
    PROVE  TypeOK' /\ Plain(r) /\ Stage(r)'
<1>1. job[r].kind \in {"banUser", "unBanUser"} /\ pc[r] = "new" /\ alone' \in BOOLEAN
    BY ArrivesType DEF BanFind
<1>2. CASE \E m : Answer(r, m)
    BY <1>1, <1>2, AnswerType, AnswerPlain DEF BanFind, TypeOK, db
<1>3. CASE /\ mem' = [mem EXCEPT ![r].usr = user[job[r].user]]
           /\ Goto(r, "saveUser") /\ UNCHANGED reply
  <2>1. user[job[r].user] \in UserRow
      BY MemoryFields DEF TypeOK
  <2>2. QED
      BY <1>1, <1>3, <2>1, GotoType, ReadsUser
         DEF BanFind, TypeOK, db, Goto, Plain, Settles, Frame, Stage, Minted, Rotating,
             Unsigned, Pairing, Pcs
<1>4. QED  BY <1>2, <1>3 DEF BanFind

LEMMA SaveUserSelectPlain ==
    ASSUME TypeOK, NEW r \in Requests, Stage(r), SaveUserSelect(r)
    PROVE  /\ TypeOK' /\ Plain(r) /\ Stage(r)'
           /\ mem'[r].usr = Changed(r)
           /\ mem'[r].dirty = {c \in Flags : Changed(r)[c] # user[job[r].user][c]}
<1> DEFINE d == {c \in Flags : Changed(r)[c] # user[job[r].user][c]}
<1>1. mem[r] \in Memory /\ mem[r].usr \in UserRow
    BY MemoryFields
<1>2. Changed(r) \in UserRow
    BY <1>1 DEF Changed, UserRow
<1>3. d \subseteq Columns
    BY DEF Flags, Columns
<1> HIDE DEF d
<1>4. mem' = [mem EXCEPT ![r] = [mem[r] EXCEPT !.usr = Changed(r), !.dirty = d]]
    BY DEF SaveUserSelect, UserSelect, Flags, d
<1>5. [mem[r] EXCEPT !.usr = Changed(r), !.dirty = d] \in Memory
    BY <1>1, <1>2, <1>3 DEF Memory
<1>6. /\ mem' \in [Requests -> Memory]
      /\ mem'[r].usr = Changed(r) /\ mem'[r].dirty = d
      /\ mem'[r].key = mem[r].key /\ mem'[r].pair = mem[r].pair
      /\ \A q \in Requests : q # r => mem'[q] = mem[q]
    BY <1>1, <1>4, <1>5 DEF TypeOK, Memory
<1>7. TypeOK' /\ Plain(r) /\ Stage(r)'
    BY <1>6, GotoType
       DEF SaveUserSelect, TypeOK, db, past, Goto, Plain, Settles, Frame, Stage, Minted, Rotating,
           Unsigned, Pairing, Pcs
<1>8. QED  BY <1>6, <1>7 DEF d

LEMMA SaveUserUpdatePlain ==
    ASSUME TypeOK, NEW r \in Requests, Stage(r), SaveUserUpdate(r)
    PROVE  TypeOK' /\ Plain(r) /\ Stage(r)'
<1>1. user' \in [Users -> UserRow]
    BY UserUpdateType DEF SaveUserUpdate
<1>2. CASE \E m : Answer(r, m)
    BY <1>1, <1>2, AnswerType, AnswerPlain DEF SaveUserUpdate, TypeOK, past
<1>3. CASE job[r].kind = "createStore" /\ Goto(r, "dropKey") /\ UNCHANGED <<mem, reply>>
    BY <1>1, <1>3, GotoType
       DEF SaveUserUpdate, TypeOK, past, Goto, Plain, Settles, Frame, Stage, Minted, Rotating,
           Unsigned, Pairing, Pcs
<1>4. QED  BY <1>2, <1>3 DEF SaveUserUpdate

LEMMA StoreFindPlain ==
    ASSUME TypeOK, NEW r \in Requests, StoreFind(r)
    PROVE  /\ TypeOK' /\ Plain(r) /\ Stage(r)'
           /\ pc'[r] # "done" =>
                 /\ store[job[r].user] # "none" /\ mem'[r].shop # "none"
                 /\ pc'[r] \in {"banKey", "saveStore"} /\ reply' = reply
<1>1. job[r].kind \in {"banStore", "unBanStore", "editStore"} /\ pc[r] = "new" /\ alone' \in BOOLEAN
    BY ArrivesType DEF StoreFind
<1>2. CASE \E m : Answer(r, m)
  <2>1. pc'[r] = "done"
      BY <1>2 DEF Answer, Goto, TypeOK
  <2>2. QED  BY <1>1, <1>2, <2>1, AnswerType, AnswerPlain DEF StoreFind, TypeOK, db
<1>3. CASE ~\E m : Answer(r, m)
  <2>0. job[r].user \in Users /\ mem[r] \in Memory
      BY MemoryFields
  <2>1. PICK s \in Shop \ {"none"} : mem' = [mem EXCEPT ![r].shop = s]
      BY <1>3, <2>0 DEF StoreFind, TypeOK, Shop
  <2>2. [mem[r] EXCEPT !.shop = s] \in Memory
      BY <2>0 DEF Memory
  <2>3. /\ mem' \in [Requests -> Memory] /\ mem'[r].shop = s
        /\ mem'[r].key = mem[r].key /\ mem'[r].pair = mem[r].pair
        /\ \A q \in Requests : q # r => mem'[q] = mem[q]
      BY <2>0, <2>1, <2>2 DEF TypeOK, Memory
  <2>4. /\ Goto(r, IF job[r].kind = "banStore" THEN "banKey" ELSE "saveStore")
        /\ store[job[r].user] # "none" /\ reply' = reply
      BY <1>3 DEF StoreFind
  <2>5. QED
      BY <1>1, <2>3, <2>4, GotoType
         DEF StoreFind, TypeOK, db, Goto, Plain, Settles, Frame, Stage, Minted, Rotating,
             Unsigned, Pairing, Pcs
<1>4. QED  BY <1>2, <1>3

LEMMA SaveStorePlain ==
    ASSUME TypeOK, NEW r \in Requests, Stage(r), SaveStoreSelect(r) \/ SaveStoreUpdate(r)
    PROVE  TypeOK' /\ Plain(r) /\ Stage(r)'
<1>0. job[r].user \in Users /\ mem[r] \in Memory /\ mem[r].shop \in Shop
    BY MemoryFields
<1>1. CASE SaveStoreSelect(r)
  <2>1. PICK d \in SUBSET Columns : mem' = [mem EXCEPT ![r].dirty = d]
      BY <1>1 DEF SaveStoreSelect, Columns
  <2>2. [mem[r] EXCEPT !.dirty = d] \in Memory
      BY <1>0 DEF Memory
  <2>3. /\ mem' \in [Requests -> Memory]
        /\ mem'[r].key = mem[r].key /\ mem'[r].pair = mem[r].pair
        /\ \A q \in Requests : q # r => mem'[q] = mem[q]
      BY <1>0, <2>1, <2>2 DEF TypeOK, Memory
  <2>4. QED
      BY <1>1, <2>3, GotoType
         DEF SaveStoreSelect, TypeOK, db, past, Goto, Plain, Settles, Frame, Stage, Minted,
             Rotating, Unsigned, Pairing, Pcs
<1>2. CASE SaveStoreUpdate(r)
  <2>1. store' \in [Users -> Shop]
      BY <1>0, <1>2 DEF SaveStoreUpdate, TypeOK
  <2>2. QED
      BY <1>2, <2>1, AnswerType, AnswerPlain DEF SaveStoreUpdate, TypeOK, past
<1>3. QED  BY <1>1, <1>2

--------------------------------------------------------------------------------
(* What a step of one handler leaves the others *)

Grows(r) ==
    /\ held \subseteq held' /\ held' \subseteq held \cup mem[r].pair
    /\ removed \subseteq removed' /\ signed \subseteq signed'
    /\ \A p \in signed' \ signed : p[2] = r
    /\ \A k : Live(k) => Live(k)'
    /\ \A y \in rows' : \A t \in y.refreshToken :
          t \in mem[r].pair \/ \E x \in rows : x.key = y.key /\ t \in x.refreshToken
    /\ Minted(r) => Minted(r)'

LEMMA TwiceStays ==
    ASSUME NEW r \in Requests, Grows(r), NEW t, Twice(t)
    PROVE  Twice(t)'
    BY DEF Grows, Twice

(* A token in force later was in force, or is the one r writes. *)
LEMMA InForceBefore ==
    ASSUME NEW r \in Requests, Grows(r), NEW t, NEW y \in InForce(t)'
    PROVE  t \in mem[r].pair \/ \E x \in InForce(t) : x.key = y.key
    BY DEF Grows, InForce

LEMMA GoneStays ==
    ASSUME NEW r \in Requests, Core(r), Grows(r), NEW t, Gone(t)
    PROVE  Gone(t)'
<1>1. t \in held /\ t \in held'
    BY DEF Gone, Grows
<1>2. t \in mem[r].pair => Twice(t)
    BY <1>1 DEF Core, Signs
<1>3. (InForce(t) # {})' => Twice(t)
    BY <1>2, InForceBefore DEF Gone
<1>4. QED  BY <1>1, <1>3, TwiceStays DEF Gone

LEMMA MintedStays ==
    ASSUME NEW r \in Requests, Frame(r), Grows(r), NEW k \in Requests, Minted(k)
    PROVE  Minted(k)'
    BY DEF Frame, Grows, Minted

LEMMA RowStays ==
    ASSUME NEW r \in Requests, Core(r), Frame(r), Grows(r), NEW x, x.key \in Requests, RowOK(x)
    PROVE  RowOK(x)'
<1>1. OwnedRow(x)' /\ Minted(x.key)'
    BY MintedStays DEF RowOK, OwnedRow, Frame
<1>2. \A t \in x.refreshToken : t.key = x.key \/ t.key \in removed'
    BY DEF RowOK, Grows
<1>3. \A t \in x.refreshTokenUsed : Gone(t)'
    BY GoneStays DEF RowOK
<1>4. QED  BY <1>1, <1>2, <1>3 DEF RowOK

LEMMA OthersCore ==
    ASSUME CoreInv, NEW r \in Requests, Frame(r), Grows(r), NEW q \in Requests, q # r
    PROVE  Core(q)'
<1>0. /\ job' = job /\ pc'[q] = pc[q] /\ mem'[q] = mem[q] /\ Core(r) /\ Core(q) /\ TypeOK
      /\ mem[q].row.key \in Requests /\ mem[q].again.key \in Requests
    BY MemoryFields DEF Frame, CoreInv
<1>1. Stage(q)' /\ Owned(q)'
    BY <1>0 DEF Core, Stage, Owned, HasRow, HasAgain, Rotating
<1>2. OwnKey(q)'
  <2>1. Minted(q)' = Minted(q) /\ HasRow(q)' = HasRow(q) /\ HasAgain(q)' = HasAgain(q)
      BY <1>0 DEF Minted, HasRow, HasAgain, Rotating
  <2>2. QED  BY <1>0, <2>1, MintedStays DEF Core, OwnKey
<1>3. Accepted(q)'
    BY <1>0 DEF Core, Accepted, Grows
<1>4. Carried(q)'
    BY <1>0 DEF Core, Carried, HasAgain, Rotating, Grows
<1>5. Signs(q)'
  <2>1. ASSUME NEW t \in mem[q].pair
        PROVE  <<t, q>> \in signed' /\ (t \in held' => Twice(t)')
    <3>1. <<t, q>> \in signed /\ (t \in held => Twice(t))
        BY <1>0 DEF Core, Signs
    <3>2. t \in held' \ held => Twice(t)
        BY <1>0, <3>1 DEF Grows, Core, Signs, Twice
    <3>3. QED  BY <3>1, <3>2, TwiceStays DEF Grows
  <2>2. pc[q] \in Unsigned \cup {"pair"} => \A p \in signed' : p[2] # q
      BY <1>0 DEF Core, Signs, Grows
  <2>3. QED  BY <1>0, <2>1, <2>2 DEF Signs
<1>6. Spends(q)'
  <2>1. HasAgain(q) => \A t \in mem[q].again.refreshTokenUsed : Gone(t)'
      BY <1>0, GoneStays DEF Core, Spends
  <2>2. Rotating(q) => \A t \in mem[q].row.refreshTokenUsed : Gone(t)'
      BY <1>0, GoneStays DEF Core, Spends
  <2>3. ASSUME Rotating(q), NEW t \in mem[q].row.refreshToken
        PROVE  t \in held' /\ \A y \in InForce(t)' : Twice(t)' \/ Leaving(q, y)'
    <3>1. t \in held /\ \A y \in InForce(t) : Twice(t) \/ Leaving(q, y)
        BY <1>0, <2>3 DEF Core, Spends
    <3>2. t \in mem[r].pair => Twice(t)
        BY <1>0, <3>1 DEF Core, Signs
    <3>3. ASSUME NEW y \in InForce(t)'
          PROVE  Twice(t) \/ Leaving(q, y)
        BY <3>1, <3>2, <3>3, InForceBefore DEF Leaving
    <3>4. ASSUME NEW y
          PROVE  Leaving(q, y)' = Leaving(q, y)
        BY <1>0 DEF Leaving
    <3>5. QED  BY <3>1, <3>3, <3>4, TwiceStays DEF Grows
  <2>4. HasAgain(q)' = HasAgain(q) /\ Rotating(q)' = Rotating(q)
      BY <1>0 DEF HasAgain, Rotating
  <2>5. QED  BY <1>0, <2>1, <2>2, <2>3, <2>4 DEF Spends
<1>7. QED  BY <1>1, <1>2, <1>3, <1>4, <1>5, <1>6 DEF Core

(* The tables stay right if the rows written and the keys removed are. *)
LEMMA TablesStay ==
    ASSUME CoreInv, NEW r \in Requests, Frame(r), Grows(r),
           \A y \in rows' \ rows : RowOK(y)',
           \A k \in removed' \ removed : k \in Requests /\ Minted(k),
           IsFiniteSet(signed')
    PROVE  Tables'
<1>0. Core(r) /\ Tables /\ TypeOK
    BY DEF CoreInv
<1>1. \A x \in rows' : RowOK(x)'
  <2>1. \A x \in rows : x.key \in Requests /\ RowOK(x)
      BY <1>0 DEF TypeOK, Tables, KeyRow
  <2>2. QED  BY <1>0, <2>1, RowStays
<1>2. \A k \in removed' : Minted(k)'
    BY <1>0, MintedStays DEF TypeOK, Tables
<1>3. ASSUME NEW t \in held'
      PROVE  Live(t.key)' /\ \E q \in Requests : <<t, q>> \in signed'
  <2>1. CASE t \in held
      BY <1>0, <2>1 DEF Tables, Grows
  <2>2. CASE t \in mem[r].pair
      BY <1>0, <2>2 DEF Core, Accepted, Signs, Grows
  <2>3. QED  BY <2>1, <2>2 DEF Grows
<1>4. QED  BY <1>1, <1>2, <1>3 DEF Tables

LEMMA CoreStep ==
    ASSUME CoreInv, NEW r \in Requests, Frame(r), Grows(r), TypeOK', Tables', Core(r)'
    PROVE  CoreInv'
    BY OthersCore DEF CoreInv

(* A handler that holds no row afterwards. *)
LEMMA SettledCore ==
    ASSUME CoreInv, NEW r \in Requests, Frame(r), Grows(r), Settles(r), signed' = signed, Stage(r)'
    PROVE  Core(r)'
<1>0. Core(r) /\ Blank(r).key = r /\ Blank(r).pair = {}
    BY BlankType DEF CoreInv
<1>1. /\ job' = job
      /\ mem'[r].key = mem[r].key \/ mem'[r].key = r
      /\ (mem'[r].pair = mem[r].pair /\ held' = held) \/ mem'[r].pair = {}
    BY <1>0 DEF Settles, Frame
<1>2. /\ ~HasAgain(r)' /\ ~Rotating(r)' /\ pc'[r] # "pair" /\ ~HasRow(r)'
      /\ ~Minted(r)' => ~Minted(r)
    BY DEF Settles, HasAgain, HasRow, Minted
<1>3. Owned(r)' /\ OwnKey(r)' /\ Carried(r)' /\ Spends(r)'
  <2>1. mem'[r].key = mem[r].key \/ (mem'[r].key = r /\ mem'[r].pair = {})
      BY <1>0 DEF Settles
  <2>2. QED  BY <1>0, <1>1, <1>2, <2>1 DEF Core, Owned, OwnKey, Carried, Spends
<1>4. Accepted(r)'
    BY <1>0, <1>1, <1>2 DEF Core, Accepted, Grows
<1>5. Signs(r)'
  <2>1. pc'[r] \in Unsigned \cup {"pair"} => pc[r] \in Unsigned
      BY <1>2 DEF Minted
  <2>2. \A t : Twice(t)' = Twice(t)
      BY DEF Twice
  <2>3. QED  BY <1>0, <1>1, <2>1, <2>2 DEF Core, Signs
<1>6. QED  BY <1>0, <1>3, <1>4, <1>5 DEF Core

LEMMA PlainCore ==
    ASSUME CoreInv, NEW r \in Requests, Plain(r), TypeOK', Stage(r)'
    PROVE  CoreInv'
<1>1. Frame(r) /\ Settles(r) /\ UNCHANGED <<rows, signed, removed>> /\ Tables
    BY DEF Plain, CoreInv
<1>2. held \subseteq held' /\ held' \subseteq held \cup mem[r].pair
    BY <1>1 DEF Settles
<1>3. Grows(r)
  <2>1. \A k : Live(k)' = Live(k)
      BY <1>1 DEF Live, Stored
  <2>2. QED  BY <1>1, <1>2, <2>1 DEF Settles, Grows
<1>4. Tables'
    BY <1>1, <1>3, TablesStay DEF Tables
<1>5. QED  BY <1>1, <1>3, <1>4, SettledCore, CoreStep

--------------------------------------------------------------------------------
(* Steps of signTokenUsingPrivateKeyAndPublishKey and createTokenPair *)

LEMMA RowFields ==
    ASSUME TypeOK, NEW x \in rows
    PROVE  /\ x \in KeyRow /\ x.user \in Users /\ x.key \in Requests
           /\ x.refreshToken \subseteq Token /\ x.refreshTokenUsed \subseteq Token
    BY DEF TypeOK, KeyRow

(* A handler that has not signed has no token. *)
LEMMA NoPairYet ==
    ASSUME NEW r \in Requests, Signs(r), pc[r] \in Unsigned \cup {"pair"}
    PROVE  mem[r].pair = {}
<1>1. \A t \in mem[r].pair : <<t, r>> \in signed
    BY DEF Signs
<1>2. \A p \in signed : p[2] # r
    BY DEF Signs
<1>3. QED  BY <1>1, <1>2

(* Steps that write neither the row of keys nor give a token away. *)
LEMMA UnwrittenTables ==
    ASSUME CoreInv, NEW r \in Requests, Frame(r), UNCHANGED <<rows, removed, held>>,
           signed \subseteq signed', \A p \in signed' \ signed : p[2] = r, IsFiniteSet(signed'),
           Minted(r) => Minted(r)'
    PROVE  Grows(r) /\ Tables'
<1>1. \A k : Live(k)' = Live(k)
    BY DEF Live, Stored
<1>2. Grows(r)
    BY <1>1 DEF Grows
<1>3. QED  BY <1>2, TablesStay

LEMMA SignCore ==
    ASSUME CoreInv, NEW r \in Requests, Sign(r)
    PROVE  CoreInv'
<1>0. TypeOK /\ Tables /\ Core(r) /\ Stage(r) /\ pc[r] = "sign"
      /\ job[r].kind \in {"register", "login"}
    BY DEF CoreInv, Core, Stage, Sign
<1>1. CASE RowsOf(job[r].user) = {}
    BY <1>0, <1>1, SignPlain, PlainCore
<1>2. CASE RowsOf(job[r].user) # {}
  <2>1. PICK x \in RowsOf(job[r].user) : /\ mem' = [mem EXCEPT ![r].key = x.key]
                                         /\ Goto(r, "pair")
      BY <1>2 DEF Sign
  <2>2. /\ UNCHANGED <<registered, user, rows, store, held, mailed, now, job, reply,
                       signed, removed, alone>>
        /\ x \in rows /\ x.user = job[r].user /\ x.key \in Requests
        /\ pc' = [pc EXCEPT ![r] = "pair"] /\ mem[r] \in Memory
      BY <1>0, <2>1, RowFields, MemoryFields DEF Sign, db, past, RowsOf, Goto
  <2>3. [mem[r] EXCEPT !.key = x.key] \in Memory
      BY <2>2 DEF Memory
  <2>4. /\ mem' \in [Requests -> Memory] /\ pc' \in [Requests -> Pcs] /\ pc'[r] = "pair"
        /\ mem'[r].key = x.key /\ mem'[r].pair = mem[r].pair
        /\ Frame(r)
      BY <1>0, <2>1, <2>2, <2>3 DEF TypeOK, Frame, Memory, Pcs
  <2>5. TypeOK'
      BY <1>0, <2>2, <2>4 DEF TypeOK
  <2>6. Grows(r) /\ Tables'
      BY <1>0, <2>2, <2>4, UnwrittenTables DEF Tables, Minted, Unsigned
  <2>7. ~HasRow(r)' /\ ~HasAgain(r)' /\ ~Rotating(r)' /\ Minted(r)' /\ mem[r].pair = {}
      BY <1>0, <2>2, <2>4, NoPairYet
         DEF HasRow, HasAgain, Rotating, Minted, Unsigned, Core
  <2>8. Stage(r)' /\ Owned(r)' /\ OwnKey(r)' /\ Carried(r)' /\ Spends(r)'
      BY <1>0, <2>2, <2>4, <2>7
         DEF Stage, Owned, OwnKey, Carried, Spends, Pairing, Tables, RowOK, OwnedRow
  <2>9. Accepted(r)' /\ Signs(r)'
      BY <1>0, <2>2, <2>4, <2>7 DEF Accepted, Live, Stored, Signs, Core, Unsigned
  <2>10. QED  BY <2>4, <2>5, <2>6, <2>8, <2>9, CoreStep DEF Core
<1>3. QED  BY <1>1, <1>2

LEMMA CreateCore ==
    ASSUME CoreInv, NEW r \in Requests, Create(r)
    PROVE  CoreInv'
<1>0. TypeOK /\ Tables /\ Core(r) /\ Stage(r) /\ pc[r] = "create"
      /\ job[r].kind \in {"register", "login"} /\ job[r].user \in Users
    BY MemoryFields DEF CoreInv, Core, Stage, Create
<1>1. CASE RowsOf(job[r].user) # {}
    BY <1>0, <1>1, CreatePlain, PlainCore
<1>2. CASE RowsOf(job[r].user) = {}
  <2>1. /\ UNCHANGED <<registered, user, store, held, mailed, now, job, mem, reply,
                       signed, removed, alone>>
        /\ pc' = [pc EXCEPT ![r] = "pair"]
      BY <1>2 DEF Create, past, Goto
  <2>2. PICK n \in KeyRow : /\ rows' = rows \cup {n}
                            /\ n.user = job[r].user /\ n.key = r
                            /\ n.refreshToken = {} /\ n.refreshTokenUsed = {}
    <3>1. rows' = rows \cup {NewRow(job[r].user, r)}
        BY <1>2 DEF Create
    <3>2. /\ NewRow(job[r].user, r) \in KeyRow
          /\ NewRow(job[r].user, r).user = job[r].user /\ NewRow(job[r].user, r).key = r
          /\ NewRow(job[r].user, r).refreshToken = {}
          /\ NewRow(job[r].user, r).refreshTokenUsed = {}
        BY <1>0 DEF NewRow, KeyRow
    <3>3. QED  BY <3>1, <3>2
  <2>3. pc'[r] = "pair" /\ pc' \in [Requests -> Pcs] /\ Frame(r)
      BY <1>0, <2>1 DEF TypeOK, Frame, Pcs
  <2>4. \A x \in rows : x.user # job[r].user /\ x.key # r
      BY <1>0, <1>2 DEF RowsOf, Tables, RowOK, Minted, Unsigned
  <2>5. TypeOK'
    <3>1. \A x, y \in rows' : x.user = y.user \/ x.key = y.key => x = y
        BY <1>0, <2>1, <2>2, <2>4 DEF TypeOK
    <3>2. QED  BY <1>0, <2>1, <2>2, <2>3, <3>1 DEF TypeOK
  <2>6. ~HasRow(r)' /\ ~HasAgain(r)' /\ ~Rotating(r)' /\ Minted(r)' /\ mem[r].pair = {}
        /\ ~Minted(r)
      BY <1>0, <2>1, <2>3, NoPairYet
         DEF HasRow, HasAgain, Rotating, Minted, Unsigned, Core
  <2>7. \A k : Live(k) => Live(k)'
      BY <2>1, <2>2 DEF Live, Stored
  <2>8. Grows(r)
      BY <2>1, <2>2, <2>6, <2>7 DEF Grows
  <2>9. RowOK(n)'
      BY <2>1, <2>2, <2>6 DEF RowOK, OwnedRow
  <2>10. Tables'
      BY <1>0, <2>1, <2>2, <2>3, <2>8, <2>9, TablesStay DEF Tables
  <2>11. Stage(r)' /\ Owned(r)' /\ OwnKey(r)' /\ Carried(r)' /\ Spends(r)'
      BY <1>0, <2>1, <2>3, <2>6
         DEF Stage, Owned, OwnKey, Carried, Spends, Pairing, Core
  <2>12. Accepted(r)' /\ Signs(r)'
    <3>1. mem[r].key = r
        BY <1>0, <2>6 DEF Core, OwnKey
    <3>2. Live(r)'
        BY <2>1, <2>2 DEF Live, Stored
    <3>3. QED
        BY <1>0, <2>1, <2>3, <2>6, <3>1, <3>2 DEF Accepted, Signs, Core, Unsigned
  <2>13. QED  BY <2>3, <2>5, <2>8, <2>10, <2>11, <2>12, CoreStep DEF Core
<1>3. QED  BY <1>1, <1>2

LEMMA PairFindCore ==
    ASSUME CoreInv, NEW r \in Requests, PairFind(r)
    PROVE  CoreInv'
<1>0. /\ TypeOK /\ Tables /\ Core(r) /\ Stage(r) /\ pc[r] = "pair" /\ mem[r].pair = {}
      /\ UNCHANGED <<registered, user, rows, store, held, mailed, now, job, reply, removed, alone>>
      /\ mem[r] \in Memory
    BY NoPairYet, MemoryFields DEF CoreInv, Core, Stage, PairFind, db
<1>1. CASE RowsOf(job[r].user) = {}
  <2>1. mem' = mem /\ signed' = signed /\ pc' = [pc EXCEPT ![r] = "signed"]
      BY <1>1 DEF PairFind, Goto
  <2>2. pc'[r] = "signed" /\ pc' \in [Requests -> Pcs] /\ Frame(r)
      BY <1>0, <2>1 DEF TypeOK, Frame, Pcs
  <2>3. TypeOK'
      BY <1>0, <2>1, <2>2 DEF TypeOK
  <2>4. Minted(r)' /\ ~HasAgain(r)' /\ Rotating(r)' = Rotating(r) /\ HasRow(r)' = HasRow(r)
        /\ ~HasAgain(r)
      BY <1>0, <2>2 DEF Minted, Unsigned, HasAgain, Rotating, HasRow, Pairing
  <2>5. Grows(r) /\ Tables'
      BY <1>0, <2>1, <2>2, <2>4, UnwrittenTables DEF Tables
  <2>6. Stage(r)' /\ Owned(r)' /\ Carried(r)' /\ Accepted(r)' /\ Signs(r)'
      BY <1>0, <2>1, <2>2, <2>4
         DEF Core, Stage, Owned, Carried, Accepted, Signs, Pairing, Unsigned
  <2>7. OwnKey(r)'
      BY <1>0, <2>1, <2>2, <2>4, <2>5, MintedStays, MemoryFields DEF Core, OwnKey
  <2>8. Spends(r)'
    <3>1. ASSUME Rotating(r)
          PROVE  /\ \A t \in mem[r].row.refreshTokenUsed : Gone(t)'
                 /\ \A t \in mem[r].row.refreshToken : t \in held'
        BY <1>0, <2>5, <3>1, GoneStays DEF Core, Spends
    <3>2. \A y : Leaving(r, y)'
        BY <1>0, <2>1, <2>2 DEF Leaving
    <3>3. QED  BY <2>1, <2>4, <3>1, <3>2 DEF Spends
  <2>9. QED  BY <2>2, <2>3, <2>5, <2>6, <2>7, <2>8, CoreStep DEF Core
<1>2. CASE RowsOf(job[r].user) # {}
  <2>1. PICK x \in RowsOf(job[r].user), t \in Token :
             /\ t.key = mem[r].key
             /\ mem' = [mem EXCEPT ![r].pair = {t}, ![r].again = x]
             /\ signed' = signed \cup {<<t, r>>}
             /\ pc' = [pc EXCEPT ![r] = "pairSelect"]
    <3>1. \A f \in {"login", "refresh"} : [key |-> mem[r].key, at |-> now, form |-> f] \in Token
        BY <1>0, MemoryFields DEF TypeOK, Token
    <3>2. QED  BY <1>2, <3>1 DEF PairFind, Goto
  <2>2. x \in rows /\ x \in KeyRow /\ x.user = job[r].user /\ x.key \in Requests
        /\ x.refreshTokenUsed \subseteq Token
      BY <1>0, <2>1, RowFields DEF RowsOf
  <2>3. [mem[r] EXCEPT !.pair = {t}, !.again = x] \in Memory
      BY <1>0, <2>2 DEF Memory
  <2>4. /\ mem' \in [Requests -> Memory] /\ pc' \in [Requests -> Pcs] /\ pc'[r] = "pairSelect"
        /\ mem'[r].key = mem[r].key /\ mem'[r].pair = {t} /\ mem'[r].again = x
        /\ mem'[r].row = mem[r].row /\ Frame(r)
      BY <1>0, <2>1, <2>3 DEF TypeOK, Frame, Memory, Pcs
  <2>5. TypeOK'
      BY <1>0, <2>1, <2>4 DEF TypeOK
  <2>6. Minted(r)' /\ HasAgain(r)' /\ Rotating(r)' = Rotating(r) /\ HasRow(r)' = HasRow(r)
      BY <1>0, <2>4 DEF Minted, Unsigned, HasAgain, Rotating, HasRow, Pairing
  <2>7. Grows(r) /\ Tables'
    <3>1. IsFiniteSet(signed')
        BY <1>0, <2>1, FS_AddElement DEF Tables
    <3>2. signed \subseteq signed' /\ \A p \in signed' \ signed : p[2] = r
        BY <2>1
    <3>3. QED  BY <1>0, <2>4, <2>6, <3>1, <3>2, UnwrittenTables
  <2>8. Stage(r)' /\ Owned(r)'
      BY <1>0, <2>1, <2>2, <2>4, <2>6
         DEF Core, Stage, Owned, Pairing, Tables, RowOK, OwnedRow
  <2>9. OwnKey(r)' /\ Accepted(r)'
    <3>1. Minted(x.key)' /\ (HasRow(r) => Minted(mem[r].row.key)')
        BY <1>0, <2>2, <2>4, <2>7, MintedStays, MemoryFields DEF Tables, RowOK, Core, OwnKey
    <3>2. Live(t.key)'
        BY <1>0, <2>1, <2>7 DEF Core, Accepted, Grows
    <3>3. QED  BY <2>4, <2>6, <3>1, <3>2 DEF OwnKey, Accepted
  <2>10. Carried(r)'
    <3>1. mem[r].key \in removed \/ mem[r].key = x.key
      <4>1. SUFFICES ASSUME NEW z \in rows, z.key = mem[r].key
                     PROVE  z = x
          BY <1>0 DEF Core, Accepted, Live, Stored
      <4>2. z.user = x.user
          BY <1>0, <2>2, <4>1 DEF Core, Owned, Tables, RowOK, OwnedRow
      <4>3. QED  BY <1>0, <2>2, <4>2 DEF TypeOK
    <3>2. Rotating(r) => mem[r].key = mem[r].row.key
        BY <1>0 DEF Core, Carried
    <3>3. QED  BY <1>0, <2>1, <2>4, <2>6, <3>1, <3>2 DEF Carried
  <2>11. Signs(r)'
    <3>1. <<t, r>> \in signed'
        BY <2>1
    <3>2. ASSUME t \in held PROVE Twice(t)'
      <4>1. PICK q \in Requests : <<t, q>> \in signed
          BY <1>0, <3>2 DEF Tables
      <4>2. q # r
          BY <1>0, <4>1 DEF Core, Signs
      <4>3. QED  BY <2>1, <4>1, <4>2 DEF Twice
    <3>3. QED  BY <1>0, <2>4, <3>1, <3>2 DEF Signs, Unsigned
  <2>12. Spends(r)'
    <3>1. \A s \in x.refreshTokenUsed : Gone(s)'
        BY <1>0, <2>2, <2>7, GoneStays DEF Tables, RowOK
    <3>2. Rotating(r) => \A s \in mem[r].row.refreshTokenUsed : Gone(s)'
        BY <1>0, <2>7, GoneStays DEF Core, Spends
    <3>3. ASSUME Rotating(r), NEW s \in mem[r].row.refreshToken
          PROVE  s \in held' /\ \A y \in InForce(s)' : Twice(s)' \/ Leaving(r, y)'
      <4>1. s \in held /\ \A y \in InForce(s) : Twice(s) \/ y.key = mem[r].row.key
          BY <1>0, <3>3 DEF Core, Spends, Leaving
      <4>2. ASSUME NEW y \in rows, y.key = mem[r].row.key PROVE y.key = x.key
        <5>1. y.user = x.user
            BY <1>0, <2>2, <3>3, <4>2
               DEF Core, Owned, HasRow, Tables, RowOK, OwnedRow
        <5>2. QED  BY <1>0, <2>2, <5>1 DEF TypeOK
      <4>3. InForce(s)' = InForce(s) /\ InForce(s) \subseteq rows
          BY <1>0 DEF InForce
      <4>4. \A y : y.key = x.key => Leaving(r, y)'
          BY <2>4 DEF Leaving
      <4>5. QED  BY <1>0, <2>7, <4>1, <4>2, <4>3, <4>4, TwiceStays
    <3>4. QED  BY <2>4, <2>6, <3>1, <3>2, <3>3 DEF Spends
  <2>13. QED  BY <2>4, <2>5, <2>7, <2>8, <2>9, <2>10, <2>11, <2>12, CoreStep DEF Core
<1>3. QED  BY <1>1, <1>2

--------------------------------------------------------------------------------
(* repository.save of a row of keys *)

LEMMA RowSelected ==
    ASSUME TypeOK, NEW r \in Requests, NEW e \in KeyRow, RowSelect(r, e)
    PROVE  /\ mem' \in [Requests -> Memory]
           /\ \A q \in Requests : q # r => mem'[q] = mem[q]
           /\ mem'[r].row = mem[r].row /\ mem'[r].again = mem[r].again
           /\ mem'[r].key = mem[r].key /\ mem'[r].pair = mem[r].pair
           /\ mem'[r].found = \E x \in rows : x.key = e.key
           /\ \A x \in rows : x.key = e.key /\ x.refreshToken # e.refreshToken =>
                 "refreshToken" \in mem'[r].dirty
<1> DEFINE f == \E x \in rows : x.key = e.key
           d == {c \in {"refreshToken", "refreshTokenUsed"} :
                    \E x \in rows : x.key = e.key /\ x[c] # e[c]}
<1>1. PICK extra \in SUBSET {"refreshTokenUsed"} :
         mem' = [mem EXCEPT ![r].found = f, ![r].dirty = extra \cup d]
    BY DEF RowSelect
<1>2. extra \cup d \subseteq Columns /\ f \in BOOLEAN
    BY DEF Columns
<1>3. \A x \in rows : x.key = e.key /\ x.refreshToken # e.refreshToken => "refreshToken" \in d
    BY DEF d
<1> HIDE DEF f, d
<1>4. mem[r] \in Memory
    BY MemoryFields
<1>5. [mem[r] EXCEPT !.found = f, !.dirty = extra \cup d] \in Memory
    BY <1>2, <1>4 DEF Memory
<1>6. /\ mem' \in [Requests -> Memory]
      /\ \A q \in Requests : q # r => mem'[q] = mem[q]
      /\ mem'[r].row = mem[r].row /\ mem'[r].again = mem[r].again
      /\ mem'[r].key = mem[r].key /\ mem'[r].pair = mem[r].pair
      /\ mem'[r].found = f /\ mem'[r].dirty = extra \cup d
    BY <1>1, <1>4, <1>5 DEF TypeOK, Memory
<1>7. QED  BY <1>3, <1>6 DEF f

(* What the UPDATE leaves in one row. *)
LEMMA MergedRows ==
    ASSUME TypeOK, NEW r \in Requests, NEW e \in KeyRow
    PROVE  /\ \A x \in rows : \E y \in Merged(r, e) : y.key = x.key
           /\ \A y, z \in Merged(r, e) : y.key = z.key => y = z
           /\ \A y \in Merged(r, e) : \E x \in rows :
                 /\ y \in KeyRow /\ y.key = x.key /\ y.user = x.user
                 /\ x.key # e.key => y = x
                 /\ x.key = e.key =>
                       /\ y.refreshToken = IF "refreshToken" \in mem[r].dirty
                                           THEN e.refreshToken ELSE x.refreshToken
                       /\ y.refreshTokenUsed = e.refreshTokenUsed
                          \/ y.refreshTokenUsed = x.refreshTokenUsed
<1> DEFINE w(x) == IF x.key # e.key THEN x
                   ELSE [x EXCEPT !.refreshToken =
                            IF "refreshToken" \in mem[r].dirty THEN e.refreshToken ELSE @,
                        !.refreshTokenUsed =
                            IF "refreshTokenUsed" \in mem[r].dirty THEN e.refreshTokenUsed
                            ELSE @]
<1>1. Merged(r, e) = {w(x) : x \in rows}
    BY DEF Merged
<1>2. ASSUME NEW x \in rows
      PROVE  /\ w(x) \in KeyRow /\ w(x).key = x.key /\ w(x).user = x.user
             /\ x.key # e.key => w(x) = x
             /\ x.key = e.key =>
                   /\ w(x).refreshToken = IF "refreshToken" \in mem[r].dirty
                                          THEN e.refreshToken ELSE x.refreshToken
                   /\ w(x).refreshTokenUsed = e.refreshTokenUsed
                      \/ w(x).refreshTokenUsed = x.refreshTokenUsed
    BY RowFields DEF KeyRow
<1> HIDE DEF w
<1>3. \A x, v \in rows : x.key = v.key => x = v
    BY DEF TypeOK
<1>4. \A y, z \in Merged(r, e) : y.key = z.key => y = z
    BY <1>1, <1>2, <1>3
<1>5. QED  BY <1>1, <1>2, <1>4

LEMMA RowWritten ==
    ASSUME TypeOK, NEW r \in Requests, NEW e \in KeyRow, RowUpdate(r, e), ~RowRefused(r, e),
           \A x \in rows : x.key = e.key => x.user = e.user
    PROVE  /\ rows' \subseteq KeyRow
           /\ \A x, y \in rows' : x.user = y.user \/ x.key = y.key => x = y
           /\ \A x \in rows : \E y \in rows' : y.key = x.key
           /\ \A y \in rows' : y.key = e.key /\ mem[r].found /\ "refreshToken" \in mem[r].dirty
                  => y.refreshToken = e.refreshToken
           /\ \A y \in rows' :
                 \/ y \in rows
                 \/ /\ y.key = e.key /\ y.user = e.user
                    /\ \/ y.refreshToken = e.refreshToken
                       \/ \E x \in rows : x.key = y.key /\ x.refreshToken = y.refreshToken
                    /\ \/ y.refreshTokenUsed = e.refreshTokenUsed
                       \/ \E x \in rows : x.key = y.key /\ x.refreshTokenUsed = y.refreshTokenUsed
<1>1. CASE mem[r].found
  <2>1. rows' = Merged(r, e)
      BY <1>1 DEF RowUpdate
  <2>2. \A x, y \in rows : x.user = y.user \/ x.key = y.key => x = y
      BY DEF TypeOK
  <2>3. rows' \subseteq KeyRow /\ \A x \in rows : \E y \in rows' : y.key = x.key
      BY <2>1, MergedRows
  <2>4. ASSUME NEW y \in rows', NEW z \in rows', y.user = z.user \/ y.key = z.key
        PROVE  y = z
    <3>1. PICK x \in rows : y.key = x.key /\ y.user = x.user
        BY <2>1, MergedRows
    <3>2. PICK v \in rows : z.key = v.key /\ z.user = v.user
        BY <2>1, MergedRows
    <3>3. x = v
        BY <2>2, <2>4, <3>1, <3>2
    <3>4. QED  BY <2>1, <3>1, <3>2, <3>3, MergedRows
  <2>5. ASSUME NEW y \in rows'
        PROVE  /\ y.key = e.key /\ mem[r].found /\ "refreshToken" \in mem[r].dirty
                     => y.refreshToken = e.refreshToken
               /\ \/ y \in rows
                  \/ /\ y.key = e.key /\ y.user = e.user
                     /\ \/ y.refreshToken = e.refreshToken
                        \/ \E x \in rows : x.key = y.key /\ x.refreshToken = y.refreshToken
                     /\ \/ y.refreshTokenUsed = e.refreshTokenUsed
                        \/ \E x \in rows : x.key = y.key /\ x.refreshTokenUsed = y.refreshTokenUsed
    <3>1. PICK x \in rows :
             /\ y.key = x.key /\ y.user = x.user
             /\ x.key # e.key => y = x
             /\ x.key = e.key =>
                   /\ y.refreshToken = IF "refreshToken" \in mem[r].dirty
                                       THEN e.refreshToken ELSE x.refreshToken
                   /\ y.refreshTokenUsed = e.refreshTokenUsed
                      \/ y.refreshTokenUsed = x.refreshTokenUsed
        BY <2>1, MergedRows
    <3>2. QED  BY <3>1
  <2>6. QED  BY <2>3, <2>4, <2>5
<1>2. CASE ~mem[r].found
  <2>1. rows' = rows \cup {e} /\ \A x \in rows : x.user # e.user
      BY <1>2 DEF RowUpdate, RowRefused, RowsOf
  <2>2. \A x \in rows : x.key # e.key
      BY <2>1
  <2>3. \A x, y \in rows' : x.user = y.user \/ x.key = y.key => x = y
      BY <2>1, <2>2 DEF TypeOK
  <2>4. QED  BY <1>2, <2>1, <2>3 DEF TypeOK
<1>3. QED  BY <1>1, <1>2

LEMMA PairedRow ==
    ASSUME TypeOK, NEW r \in Requests
    PROVE  /\ Paired(r) \in KeyRow /\ Paired(r).key = mem[r].again.key
           /\ Paired(r).user = mem[r].again.user /\ Paired(r).refreshToken = mem[r].pair
           /\ Paired(r).refreshTokenUsed = mem[r].again.refreshTokenUsed
    BY MemoryFields DEF Paired, KeyRow

LEMMA RotatedRow ==
    ASSUME TypeOK, NEW r \in Requests
    PROVE  /\ Rotated(r) \in KeyRow /\ Rotated(r).key = mem[r].row.key
           /\ Rotated(r).user = mem[r].row.user /\ Rotated(r).refreshToken = mem[r].pair
           /\ Rotated(r).refreshTokenUsed =
                 mem[r].row.refreshTokenUsed \cup mem[r].row.refreshToken
<1> DEFINE used == mem[r].row.refreshTokenUsed \cup mem[r].row.refreshToken
<1>1. /\ mem[r].row \in KeyRow /\ mem[r].pair \in SUBSET Token /\ used \in SUBSET Token
    BY MemoryFields
<1>2. Rotated(r) = [mem[r].row EXCEPT !.refreshTokenUsed = used, !.refreshToken = mem[r].pair]
    BY DEF Rotated
<1> HIDE DEF used
<1>3. /\ Rotated(r) \in KeyRow /\ Rotated(r).key = mem[r].row.key
      /\ Rotated(r).user = mem[r].row.user /\ Rotated(r).refreshToken = mem[r].pair
      /\ Rotated(r).refreshTokenUsed = used
    BY <1>1, <1>2 DEF KeyRow
<1>4. QED  BY <1>3 DEF used

(* What a save of the row e leaves in the tables, if e is right. *)
LEMMA WrittenTables ==
    ASSUME CoreInv, NEW r \in Requests, NEW e \in KeyRow, RowUpdate(r, e), ~RowRefused(r, e),
           Frame(r), UNCHANGED <<removed, signed>>, Minted(r) => Minted(r)',
           held \subseteq held', held' \subseteq held \cup mem[r].pair,
           job[e.key].user = e.user, job[r].user = e.user, Minted(e.key),
           e.refreshToken = mem[r].pair,
           \A t \in mem[r].pair : t.key = e.key \/ t.key \in removed,
           \A t \in e.refreshTokenUsed : Gone(t)
    PROVE  /\ Grows(r) /\ Tables' /\ rows' \subseteq KeyRow
           /\ \A x, y \in rows' : x.user = y.user \/ x.key = y.key => x = y
<1>0. TypeOK /\ Tables /\ Core(r) /\ job' = job /\ e.key \in Requests
    BY DEF CoreInv, Frame, KeyRow
<1>1. \A x \in rows : x.key = e.key => x.user = e.user
    BY <1>0 DEF Tables, RowOK, OwnedRow
<1>2. /\ rows' \subseteq KeyRow
      /\ \A x, y \in rows' : x.user = y.user \/ x.key = y.key => x = y
      /\ \A x \in rows : \E y \in rows' : y.key = x.key
      /\ \A y \in rows' :
            \/ y \in rows
            \/ /\ y.key = e.key /\ y.user = e.user
               /\ \/ y.refreshToken = e.refreshToken
                  \/ \E x \in rows : x.key = y.key /\ x.refreshToken = y.refreshToken
               /\ \/ y.refreshTokenUsed = e.refreshTokenUsed
                  \/ \E x \in rows : x.key = y.key /\ x.refreshTokenUsed = y.refreshTokenUsed
    BY <1>0, <1>1, RowWritten
<1>3. Grows(r)
  <2>1. \A k : Live(k) => Live(k)'
      BY <1>2 DEF Live, Stored
  <2>2. \A y \in rows' : \A t \in y.refreshToken :
            t \in mem[r].pair \/ \E x \in rows : x.key = y.key /\ t \in x.refreshToken
      BY <1>2
  <2>3. QED  BY <2>1, <2>2 DEF Grows
<1>4. ASSUME NEW y \in rows', y \notin rows
      PROVE  RowOK(y)'
  <2>1. /\ y.key = e.key /\ y.user = e.user
        /\ \/ y.refreshToken = e.refreshToken
           \/ \E x \in rows : x.key = y.key /\ x.refreshToken = y.refreshToken
        /\ \/ y.refreshTokenUsed = e.refreshTokenUsed
           \/ \E x \in rows : x.key = y.key /\ x.refreshTokenUsed = y.refreshTokenUsed
      BY <1>2, <1>4
  <2>2. ASSUME NEW t \in y.refreshToken
        PROVE  job[t.key].user = e.user /\ (t.key = e.key \/ t.key \in removed)
    <3>1. CASE t \in mem[r].pair
        BY <1>0, <3>1 DEF Core, Owned
    <3>2. CASE t \notin mem[r].pair
      <4>1. PICK x \in rows : x.key = y.key /\ x.refreshToken = y.refreshToken
          BY <2>1, <2>2, <3>2
      <4>2. QED  BY <1>0, <1>1, <2>1, <2>2, <4>1 DEF Tables, RowOK, OwnedRow
    <3>3. QED  BY <3>1, <3>2
  <2>3. ASSUME NEW t \in y.refreshTokenUsed
        PROVE  Gone(t)'
    <3>1. Gone(t)
        BY <1>0, <2>1, <2>3 DEF Tables, RowOK
    <3>2. QED  BY <1>0, <1>3, <3>1, GoneStays
  <2>4. Minted(e.key)'
      BY <1>0, <1>3, MintedStays
  <2>5. QED  BY <1>0, <2>1, <2>2, <2>3, <2>4 DEF RowOK, OwnedRow
<1>5. Tables'
    BY <1>0, <1>3, <1>4, TablesStay DEF Tables
<1>6. QED  BY <1>2, <1>3, <1>5

LEMMA PairSelectCore ==
    ASSUME CoreInv, NEW r \in Requests, PairSelect(r)
    PROVE  CoreInv'
<1>0. /\ TypeOK /\ Tables /\ Core(r) /\ pc[r] = "pairSelect" /\ RowSelect(r, Paired(r))
      /\ UNCHANGED <<registered, user, rows, store, held, mailed, now, job, reply, signed,
                     removed, alone>>
      /\ pc' = [pc EXCEPT ![r] = "pairUpdate"]
    BY DEF CoreInv, Core, PairSelect, db, past, Goto
<1>1. /\ mem' \in [Requests -> Memory]
      /\ \A q \in Requests : q # r => mem'[q] = mem[q]
      /\ mem'[r].row = mem[r].row /\ mem'[r].again = mem[r].again
      /\ mem'[r].key = mem[r].key /\ mem'[r].pair = mem[r].pair
      /\ mem'[r].found = \E x \in rows : x.key = mem[r].again.key
      /\ \A x \in rows : x.key = mem[r].again.key /\ x.refreshToken # mem[r].pair =>
            "refreshToken" \in mem'[r].dirty
  <2> DEFINE e == Paired(r)
  <2>1. /\ e \in KeyRow /\ e.key = mem[r].again.key /\ e.refreshToken = mem[r].pair
        /\ RowSelect(r, e)
      BY <1>0, PairedRow
  <2> HIDE DEF e
  <2>2. /\ mem' \in [Requests -> Memory]
        /\ \A q \in Requests : q # r => mem'[q] = mem[q]
        /\ mem'[r].row = mem[r].row /\ mem'[r].again = mem[r].again
        /\ mem'[r].key = mem[r].key /\ mem'[r].pair = mem[r].pair
        /\ mem'[r].found = \E x \in rows : x.key = e.key
        /\ \A x \in rows : x.key = e.key /\ x.refreshToken # e.refreshToken =>
              "refreshToken" \in mem'[r].dirty
      BY <1>0, <2>1, RowSelected
  <2>3. QED  BY <2>1, <2>2
<1>2. pc'[r] = "pairUpdate" /\ pc' \in [Requests -> Pcs] /\ Frame(r)
    BY <1>0, <1>1 DEF TypeOK, Frame, Pcs
<1>3. TypeOK'
    BY <1>0, <1>1, <1>2 DEF TypeOK
<1>4. /\ Minted(r)' /\ HasAgain(r)' /\ HasAgain(r) /\ Rotating(r)' = Rotating(r)
      /\ HasRow(r)' = HasRow(r)
    BY <1>0, <1>2 DEF Minted, Unsigned, HasAgain, Rotating, HasRow, Pairing
<1>5. Grows(r) /\ Tables'
    BY <1>0, <1>2, <1>4, UnwrittenTables DEF Tables
<1>6. Stage(r)' /\ Owned(r)' /\ Carried(r)' /\ Signs(r)' /\ Accepted(r)'
  <2>1. \A t : Twice(t)' = Twice(t) /\ Live(t)' = Live(t)
      BY <1>0 DEF Twice, Live, Stored
  <2>2. QED
      BY <1>0, <1>1, <1>2, <1>4, <2>1
         DEF Core, Stage, Owned, Carried, Signs, Accepted, Pairing, Unsigned
<1>7. OwnKey(r)'
    BY <1>0, <1>1, <1>2, <1>4, <1>5, MintedStays, MemoryFields DEF Core, OwnKey
<1>8. Spends(r)'
  <2>1. \A t \in mem[r].again.refreshTokenUsed : Gone(t)'
      BY <1>0, <1>4, <1>5, GoneStays DEF Core, Spends
  <2>2. Rotating(r) => \A t \in mem[r].row.refreshTokenUsed : Gone(t)'
      BY <1>0, <1>5, GoneStays DEF Core, Spends
  <2>3. ASSUME Rotating(r), NEW t \in mem[r].row.refreshToken
        PROVE  t \in held' /\ \A y \in InForce(t)' : Twice(t)' \/ Leaving(r, y)'
    <3>1. t \in held /\ \A y \in InForce(t) : Twice(t) \/ y.key = mem[r].again.key
        BY <1>0, <2>3 DEF Core, Spends, Leaving
    <3>2. t \in mem[r].pair => Twice(t)
        BY <1>0, <3>1 DEF Core, Signs
    <3>3. ASSUME NEW y \in rows, t \in y.refreshToken, ~Twice(t)
          PROVE  Leaving(r, y)'
      <4>1. y.key = mem[r].again.key /\ y.refreshToken # mem[r].pair
          BY <3>1, <3>2, <3>3 DEF InForce
      <4>2. mem'[r].found /\ "refreshToken" \in mem'[r].dirty
          BY <1>1, <4>1
      <4>3. QED  BY <1>1, <1>2, <4>1, <4>2 DEF Leaving
    <3>4. Twice(t)' = Twice(t) /\ InForce(t)' = {y \in rows : t \in y.refreshToken}
        BY <1>0 DEF Twice, InForce
    <3>5. QED  BY <1>0, <3>1, <3>3, <3>4
  <2>4. QED  BY <1>1, <1>4, <2>1, <2>2, <2>3 DEF Spends
<1>9. QED  BY <1>2, <1>3, <1>5, <1>6, <1>7, <1>8, CoreStep DEF Core

LEMMA PairUpdateCore ==
    ASSUME CoreInv, NEW r \in Requests, PairUpdate(r)
    PROVE  CoreInv'
<1> DEFINE e == Paired(r)
<1>0. /\ TypeOK /\ Tables /\ Core(r) /\ pc[r] = "pairUpdate"
      /\ UNCHANGED <<registered, user, store, held, mailed, now, job, reply, signed,
                     removed, alone>>
      /\ pc' = [pc EXCEPT ![r] = "signed"] /\ mem[r] \in Memory
    BY MemoryFields DEF CoreInv, Core, PairUpdate, past, Goto
<1>1. HasAgain(r) /\ pc'[r] = "signed" /\ pc' \in [Requests -> Pcs]
    BY <1>0 DEF HasAgain, TypeOK, Pcs
<1>2. /\ mem' \in [Requests -> Memory] /\ Frame(r)
      /\ mem'[r].row = mem[r].row /\ mem'[r].key = mem[r].key
      /\ \/ mem'[r].pair = {} /\ rows' = rows
         \/ mem' = mem /\ ~RowRefused(r, e) /\ RowUpdate(r, e)
  <2>1. CASE mem' = [mem EXCEPT ![r].pair = {}] /\ UNCHANGED rows
    <3>1. [mem[r] EXCEPT !.pair = {}] \in Memory
        BY <1>0 DEF Memory
    <3>2. QED  BY <1>0, <2>1, <3>1 DEF TypeOK, Frame, Memory
  <2>2. CASE ~RowRefused(r, e) /\ RowUpdate(r, e) /\ mem' = mem
      BY <1>0, <2>2 DEF TypeOK, Frame
  <2>3. QED  BY <2>1, <2>2 DEF PairUpdate
<1>3. /\ Minted(r)' /\ ~HasAgain(r)' /\ Rotating(r)' = Rotating(r) /\ HasRow(r)' = HasRow(r)
    BY <1>0, <1>1 DEF Minted, Unsigned, HasAgain, Rotating, HasRow, Pairing
<1>4. e \in KeyRow /\ e.key = mem[r].again.key /\ e.user = mem[r].again.user
      /\ e.refreshToken = mem[r].pair /\ e.refreshTokenUsed = mem[r].again.refreshTokenUsed
    BY <1>0, PairedRow
<1> HIDE DEF e
<1>5. /\ Grows(r) /\ Tables' /\ rows' \subseteq KeyRow
      /\ \A x, y \in rows' : x.user = y.user \/ x.key = y.key => x = y
  <2>1. CASE rows' = rows
    <3>1. Grows(r) /\ Tables'
        BY <1>0, <1>2, <1>3, <2>1, UnwrittenTables DEF Tables
    <3>2. QED  BY <1>0, <2>1, <3>1 DEF TypeOK
  <2>2. CASE RowUpdate(r, e) /\ ~RowRefused(r, e)
    <3>1. /\ job[e.key].user = e.user /\ job[r].user = e.user /\ Minted(e.key)
          /\ \A t \in mem[r].pair : t.key = e.key \/ t.key \in removed
          /\ \A t \in e.refreshTokenUsed : Gone(t)
        BY <1>0, <1>1, <1>4 DEF Core, Owned, OwnKey, Carried, Spends
    <3>2. QED  BY <1>0, <1>2, <1>3, <1>4, <2>2, <3>1, WrittenTables
  <2>3. QED  BY <1>2, <2>1, <2>2
<1>6. TypeOK'
    BY <1>0, <1>1, <1>2, <1>5 DEF TypeOK
<1>7. mem'[r].pair \subseteq mem[r].pair
    BY <1>2
<1>8. Stage(r)' /\ Owned(r)' /\ Carried(r)'
    BY <1>0, <1>1, <1>2, <1>3, <1>7 DEF Core, Stage, Owned, Carried, Pairing
<1>9. OwnKey(r)' /\ Accepted(r)' /\ Signs(r)'
  <2>1. \A t : Twice(t)' = Twice(t)
      BY <1>0 DEF Twice
  <2>2. OwnKey(r)'
      BY <1>0, <1>2, <1>3, <1>5, MintedStays, MemoryFields DEF Core, OwnKey
  <2>3. Accepted(r)'
      BY <1>0, <1>1, <1>5, <1>7 DEF Core, Accepted, Grows
  <2>4. Signs(r)'
      BY <1>0, <1>1, <1>7, <2>1 DEF Core, Signs, Unsigned
  <2>5. QED  BY <2>2, <2>3, <2>4
<1>10. Spends(r)'
  <2>1. Rotating(r) => \A t \in mem[r].row.refreshTokenUsed : Gone(t)'
      BY <1>0, <1>5, GoneStays DEF Core, Spends
  <2>2. ASSUME Rotating(r), NEW t \in mem[r].row.refreshToken
        PROVE  t \in held' /\ \A y \in InForce(t)' : Twice(t)' \/ Leaving(r, y)'
    <3>1. /\ t \in held
          /\ \A y \in InForce(t) :
                \/ Twice(t)
                \/ /\ y.key = mem[r].again.key
                   /\ mem[r].found /\ "refreshToken" \in mem[r].dirty
        BY <1>0, <2>2 DEF Core, Spends, Leaving
    <3>2. t \in mem[r].pair => Twice(t)
        BY <1>0, <3>1 DEF Core, Signs
    <3>3. CASE mem'[r].pair = {}
        BY <1>0, <1>1, <3>1, <3>3 DEF Leaving
    <3>4. CASE ~RowRefused(r, e) /\ RowUpdate(r, e)
      <4>1. ASSUME NEW y \in InForce(t)', ~Twice(t)
            PROVE  FALSE
        <5>1. PICK x \in InForce(t) : x.key = y.key
            BY <1>5, <3>2, <4>1, InForceBefore
        <5>2. y.key = e.key /\ mem[r].found /\ "refreshToken" \in mem[r].dirty
            BY <1>4, <3>1, <4>1, <5>1
        <5>3. \A x2 \in rows : x2.key = e.key => x2.user = e.user
            BY <1>0, <1>1, <1>4 DEF Tables, RowOK, OwnedRow, Core, Owned
        <5>4. y \in rows' /\ t \in y.refreshToken
            BY <4>1 DEF InForce
        <5>5. y.refreshToken = e.refreshToken
            BY <1>0, <1>4, <3>4, <5>2, <5>3, <5>4, RowWritten
        <5>6. QED  BY <1>4, <3>2, <4>1, <5>4, <5>5
      <4>2. QED  BY <1>0, <1>5, <3>1, <4>1, TwiceStays
    <3>5. QED  BY <1>2, <3>3, <3>4
  <2>3. QED  BY <1>2, <1>3, <2>1, <2>2 DEF Spends
<1>11. QED  BY <1>2, <1>5, <1>6, <1>8, <1>9, <1>10, CoreStep DEF Core

LEMMA SignedCore ==
    ASSUME CoreInv, NEW r \in Requests, Signed(r)
    PROVE  CoreInv'
<1>0. TypeOK /\ Tables /\ Core(r) /\ Stage(r) /\ pc[r] = "signed"
    BY DEF CoreInv, Core, Signed
<1>1. CASE job[r].kind # "refresh" \/ mem[r].pair = {}
    BY <1>0, <1>1, SignedPlain, PlainCore
<1>2. CASE job[r].kind = "refresh" /\ mem[r].pair # {}
  <2>1. /\ UNCHANGED <<registered, user, rows, store, held, mailed, now, job, mem, reply, signed,
                       removed, alone>>
        /\ pc' = [pc EXCEPT ![r] = "rotate"]
      BY <1>2 DEF Signed, db, past, Goto
  <2>2. pc'[r] = "rotate" /\ pc' \in [Requests -> Pcs] /\ Frame(r)
      BY <1>0, <2>1 DEF TypeOK, Frame, Pcs
  <2>3. TypeOK'
      BY <1>0, <2>1, <2>2 DEF TypeOK
  <2>4. /\ Minted(r)' /\ ~HasAgain(r)' /\ Rotating(r)' /\ Rotating(r) /\ HasRow(r)' /\ HasRow(r)
      BY <1>0, <1>2, <2>1, <2>2 DEF Minted, Unsigned, HasAgain, Rotating, HasRow, Pairing
  <2>5. Grows(r) /\ Tables'
      BY <1>0, <2>1, <2>2, <2>4, UnwrittenTables DEF Tables
  <2>6. \A t : /\ Twice(t)' = Twice(t) /\ Live(t)' = Live(t) /\ Gone(t)' = Gone(t)
               /\ InForce(t)' = InForce(t)
      BY <2>1 DEF Twice, Live, Stored, Gone, InForce
  <2>7. Stage(r)' /\ Owned(r)' /\ Carried(r)' /\ Accepted(r)' /\ Signs(r)'
      BY <1>0, <1>2, <2>1, <2>2, <2>4, <2>6
         DEF Core, Stage, Owned, Carried, Accepted, Signs, Pairing, Unsigned
  <2>8. OwnKey(r)'
      BY <1>0, <2>1, <2>2, <2>4, <2>5, MintedStays, MemoryFields DEF Core, OwnKey
  <2>9. Spends(r)'
    <3>1. \A y : ~Leaving(r, y)
        BY <1>0, <1>2 DEF Leaving
    <3>2. QED  BY <1>0, <2>1, <2>4, <2>6, <3>1 DEF Core, Spends
  <2>10. QED  BY <2>2, <2>3, <2>5, <2>7, <2>8, <2>9, CoreStep DEF Core
<1>3. QED  BY <1>1, <1>2

--------------------------------------------------------------------------------
(* handleRefreshToken, and the rows read and removed elsewhere *)

LEMMA RowReadType ==
    ASSUME TypeOK, NEW r \in Requests, NEW x \in KeyRow, mem' = [mem EXCEPT ![r].row = x]
    PROVE  /\ mem' \in [Requests -> Memory] /\ mem'[r].row = x
           /\ mem'[r].key = mem[r].key /\ mem'[r].pair = mem[r].pair
           /\ mem'[r].shop = mem[r].shop /\ mem'[r].usr = mem[r].usr
           /\ \A q \in Requests : q # r => mem'[q] = mem[q]
<1>1. mem[r] \in Memory
    BY MemoryFields
<1>2. [mem[r] EXCEPT !.row = x] \in Memory
    BY <1>1 DEF Memory
<1>3. QED  BY <1>1, <1>2 DEF TypeOK, Memory

(* A row read only to be removed. *)
LEMMA RowRead ==
    ASSUME CoreInv, NEW r \in Requests, NEW x \in RowsOf(job[r].user),
           mem' = [mem EXCEPT ![r].row = x], NEW l \in {"reuse", "remove"}, Goto(r, l),
           UNCHANGED <<registered, user, rows, store, held, mailed, now, job, reply,
                       signed, removed>>,
           alone' \in BOOLEAN, Stage(r)', mem[r].pair = {} \/ Minted(r)
    PROVE  CoreInv'
<1>0. /\ TypeOK /\ Tables /\ Core(r) /\ x \in rows /\ x \in KeyRow /\ x.user = job[r].user
      /\ x.key \in Requests
    BY RowFields DEF CoreInv, RowsOf
<1>1. /\ mem' \in [Requests -> Memory] /\ mem'[r].row = x
      /\ mem'[r].key = mem[r].key /\ mem'[r].pair = mem[r].pair
      /\ \A q \in Requests : q # r => mem'[q] = mem[q]
    BY <1>0, RowReadType
<1>2. /\ pc' = [pc EXCEPT ![r] = l] /\ pc'[r] = l /\ pc' \in [Requests -> Pcs] /\ Frame(r)
    BY <1>0, <1>1 DEF TypeOK, Frame, Goto, Pcs
<1>3. TypeOK'
    BY <1>0, <1>1, <1>2 DEF TypeOK
<1>4. /\ Minted(r)' /\ ~HasAgain(r)' /\ ~Rotating(r)' /\ HasRow(r)'
    BY <1>2 DEF Minted, Unsigned, HasAgain, Rotating, HasRow, Pairing
<1>5. Grows(r) /\ Tables'
    BY <1>0, <1>2, <1>4, UnwrittenTables DEF Tables
<1>6. Owned(r)' /\ Carried(r)' /\ Spends(r)'
    BY <1>0, <1>1, <1>2, <1>4 DEF Core, Owned, Carried, Spends, Tables, RowOK, OwnedRow
<1>7. OwnKey(r)'
    BY <1>0, <1>1, <1>2, <1>4, <1>5, MintedStays DEF Tables, RowOK, OwnKey
<1>8. Accepted(r)' /\ Signs(r)'
  <2>1. \A t : Twice(t)' = Twice(t) /\ Live(t)' = Live(t)
      BY DEF Twice, Live, Stored
  <2>2. QED  BY <1>0, <1>1, <1>2, <2>1 DEF Core, Accepted, Signs, Unsigned
<1>9. QED  BY <1>2, <1>3, <1>5, <1>6, <1>7, <1>8, CoreStep DEF Core

LEMMA RefreshFindCore ==
    ASSUME CoreInv, NEW r \in Requests, RefreshFind(r)
    PROVE  CoreInv'
<1>0. /\ TypeOK /\ Tables /\ Core(r) /\ pc[r] = "new" /\ job[r].kind = "refresh"
      /\ alone' \in BOOLEAN /\ mem[r].pair = {} /\ mem[r] \in Memory
    BY ArrivesType, NoPairYet, MemoryFields DEF CoreInv, Core, RefreshFind, Unsigned
<1>1. CASE \E m : Answer(r, m)
    BY <1>0, <1>1, RefreshFindPlain, PlainCore
<1>2. CASE ~\E m : Answer(r, m)
  <2>1. /\ UNCHANGED <<registered, user, rows, store, held, mailed, now, job, reply,
                       signed, removed>>
        /\ \E t \in Mine(job[r].user) : \E x \in RowsOf(job[r].user) :
              \/ mem' = [mem EXCEPT ![r].row = x] /\ Goto(r, "reuse")
              \/ /\ x.refreshToken = {t} /\ Goto(r, "pair")
                 /\ mem' = [mem EXCEPT ![r].row = x, ![r].key = x.key]
      BY <1>2 DEF RefreshFind, db
  <2>2. PICK t \in Mine(job[r].user), x \in RowsOf(job[r].user) :
              \/ mem' = [mem EXCEPT ![r].row = x] /\ Goto(r, "reuse")
              \/ /\ x.refreshToken = {t} /\ Goto(r, "pair")
                 /\ mem' = [mem EXCEPT ![r].row = x, ![r].key = x.key]
      BY <2>1
  <2>3. CASE mem' = [mem EXCEPT ![r].row = x] /\ Goto(r, "reuse")
    <3>1. Stage(r)'
        BY <1>0, <2>1, <2>3 DEF TypeOK, Goto, Stage, Pairing
    <3>2. QED  BY <1>0, <2>1, <2>3, <3>1, RowRead
  <2>4. CASE /\ x.refreshToken = {t} /\ Goto(r, "pair")
             /\ mem' = [mem EXCEPT ![r].row = x, ![r].key = x.key]
    <3>0. /\ x \in rows /\ x \in KeyRow /\ x.user = job[r].user /\ x.key \in Requests
          /\ t \in held
        BY <1>0, RowFields DEF RowsOf, Mine
    <3>1. [mem[r] EXCEPT !.row = x, !.key = x.key] \in Memory
        BY <1>0, <3>0 DEF Memory
    <3>2. /\ mem' \in [Requests -> Memory] /\ mem'[r].row = x
          /\ mem'[r].key = x.key /\ mem'[r].pair = {}
          /\ \A q \in Requests : q # r => mem'[q] = mem[q]
        BY <1>0, <2>4, <3>1 DEF TypeOK, Memory
    <3>3. /\ pc' = [pc EXCEPT ![r] = "pair"] /\ pc'[r] = "pair" /\ pc' \in [Requests -> Pcs]
          /\ Frame(r)
        BY <1>0, <2>1, <2>4, <3>2 DEF TypeOK, Frame, Goto, Pcs
    <3>4. TypeOK'
        BY <1>0, <2>1, <3>2, <3>3 DEF TypeOK
    <3>5. /\ Minted(r)' /\ ~HasAgain(r)' /\ Rotating(r)' /\ HasRow(r)'
        BY <1>0, <2>1, <3>3 DEF Minted, Unsigned, HasAgain, Rotating, HasRow, Pairing
    <3>6. Grows(r) /\ Tables'
        BY <1>0, <2>1, <3>3, <3>5, UnwrittenTables DEF Tables
    <3>7. Stage(r)' /\ Owned(r)' /\ Carried(r)'
        BY <1>0, <2>1, <3>0, <3>2, <3>3, <3>5
           DEF Stage, Owned, Carried, Pairing, Tables, RowOK, OwnedRow
    <3>8. OwnKey(r)'
        BY <1>0, <2>1, <3>0, <3>2, <3>3, <3>5, <3>6, MintedStays DEF Tables, RowOK, OwnKey
    <3>9. Accepted(r)' /\ Signs(r)'
        BY <1>0, <2>1, <3>0, <3>2, <3>3
           DEF Core, Accepted, Signs, Live, Stored, Unsigned
    <3>10. Spends(r)'
      <4>1. \A s \in x.refreshTokenUsed : Gone(s)'
          BY <1>0, <3>0, <3>6, GoneStays DEF Tables, RowOK
      <4>2. ASSUME NEW y \in InForce(t)'
            PROVE  y.key = x.key
        <5>1. y \in rows /\ t \in y.refreshToken
            BY <2>1, <4>2 DEF InForce
        <5>2. y.user = x.user
            BY <1>0, <2>4, <3>0, <5>1 DEF Tables, RowOK, OwnedRow
        <5>3. QED  BY <1>0, <3>0, <5>1, <5>2 DEF TypeOK
      <4>3. \A y : y.key = x.key => Leaving(r, y)'
          BY <3>2, <3>3 DEF Leaving
      <4>4. QED  BY <2>1, <2>4, <3>0, <3>2, <3>5, <4>1, <4>2, <4>3 DEF Spends
    <3>11. QED  BY <3>3, <3>4, <3>6, <3>7, <3>8, <3>9, <3>10, CoreStep DEF Core
  <2>5. QED  BY <2>2, <2>3, <2>4
<1>3. QED  BY <1>1, <1>2

LEMMA RowFindCore ==
    ASSUME CoreInv, NEW r \in Requests, RowFind(r)
    PROVE  CoreInv'
<1>0. TypeOK /\ Stage(r) /\ pc[r] \in {"logout", "dropKey", "banKey"}
    BY DEF CoreInv, Core, RowFind
<1>1. CASE RowsOf(job[r].user) = {}
    BY <1>0, <1>1, RowFindPlain, PlainCore
<1>2. CASE RowsOf(job[r].user) # {}
  <2>1. PICK x \in RowsOf(job[r].user) :
            mem' = [mem EXCEPT ![r].row = x] /\ Goto(r, "remove") /\ UNCHANGED reply
      BY <1>2 DEF RowFind
  <2>2. UNCHANGED <<registered, user, rows, store, held, mailed, now, job, reply, signed,
                    removed, alone>>
      BY <2>1 DEF RowFind, db, past
  <2>3. Stage(r)' /\ Minted(r) /\ alone' \in BOOLEAN
      BY <1>0, <2>1, <2>2 DEF TypeOK, Goto, Stage, Minted, Unsigned, Pairing
  <2>4. QED  BY <2>1, <2>2, <2>3, RowRead
<1>3. QED  BY <1>1, <1>2

LEMMA RemoveCore ==
    ASSUME CoreInv, NEW r \in Requests, Reuse(r) \/ RowRemove(r)
    PROVE  CoreInv'
<1>0. /\ TypeOK /\ Tables /\ Core(r) /\ pc[r] \in {"reuse", "remove"} /\ HasRow(r)
      /\ mem[r].row.key \in Requests
      /\ UNCHANGED <<registered, user, store, held, mailed, now, job, signed, alone>>
      /\ rows' = {y \in rows : y.key # mem[r].row.key}
      /\ removed' = removed \cup {mem[r].row.key}
    BY MemoryFields DEF CoreInv, Core, Reuse, RowRemove, HasRow, Remove
<1>1. /\ pc' \in [Requests -> Pcs] /\ mem' \in [Requests -> Memory] /\ Settles(r) /\ Frame(r)
      /\ Stage(r)'
  <2>1. CASE \E m : Answer(r, m)
    <3>1. pc' \in [Requests -> Pcs] /\ mem' \in [Requests -> Memory]
        BY <1>0, <2>1, AnswerType
    <3>2. pc'[r] = "done" /\ mem'[r] = Blank(r)
        BY <1>0, <2>1 DEF Answer, Goto, TypeOK
    <3>3. \A q \in Requests : q # r => pc'[q] = pc[q] /\ mem'[q] = mem[q]
        BY <1>0, <2>1 DEF Answer, Goto, TypeOK
    <3>4. Stage(r)' /\ ~Rotating(r)' /\ Minted(r)'
        BY <3>2 DEF Stage, Rotating, Minted, Pairing, Unsigned
    <3>5. QED  BY <1>0, <3>1, <3>2, <3>3, <3>4 DEF Settles, Frame
  <2>2. CASE /\ job[r].kind # "logout" /\ pc[r] = "remove" /\ UNCHANGED <<mem, reply>>
             /\ Goto(r, IF job[r].kind = "createStore" THEN "openStore" ELSE "saveStore")
    <3>1. pc'[r] = IF job[r].kind = "createStore" THEN "openStore" ELSE "saveStore"
        BY <1>0, <2>2 DEF Goto, TypeOK
    <3>2. pc' \in [Requests -> Pcs] /\ Frame(r) /\ Stage(r)'
        BY <1>0, <2>2, <3>1, GotoType DEF Frame, Stage, Core, Goto, TypeOK, Pcs, Pairing
    <3>3. Settles(r) /\ mem' \in [Requests -> Memory]
        BY <1>0, <2>2, <3>1
           DEF Settles, Rotating, Minted, Unsigned, Pairing, TypeOK
    <3>4. QED  BY <3>2, <3>3
  <2>3. QED  BY <2>1, <2>2 DEF Reuse, RowRemove
<1>2. TypeOK'
    BY <1>0, <1>1 DEF TypeOK
<1>3. Grows(r)
  <2>1. \A k : Live(k) => Live(k)'
      BY <1>0 DEF Live, Stored
  <2>2. QED  BY <1>0, <1>1, <2>1 DEF Grows, Settles
<1>4. Tables'
    BY <1>0, <1>1, <1>3, TablesStay DEF Tables, Core, OwnKey
<1>5. QED  BY <1>0, <1>1, <1>2, <1>3, <1>4, SettledCore, CoreStep

LEMMA RotateSelectCore ==
    ASSUME CoreInv, NEW r \in Requests, RotateSelect(r)
    PROVE  CoreInv'
<1> DEFINE e == Rotated(r)
<1>0. /\ TypeOK /\ Tables /\ Core(r) /\ pc[r] = "rotate" /\ RowSelect(r, e) /\ e \in KeyRow
      /\ UNCHANGED <<registered, user, rows, store, held, mailed, now, job, reply, signed,
                     removed, alone>>
      /\ pc' = [pc EXCEPT ![r] = "rotateUpdate"]
    BY RotatedRow DEF CoreInv, Core, RotateSelect, db, past, Goto
<1> HIDE DEF e
<1>1. /\ mem' \in [Requests -> Memory]
      /\ \A q \in Requests : q # r => mem'[q] = mem[q]
      /\ mem'[r].row = mem[r].row /\ mem'[r].again = mem[r].again
      /\ mem'[r].key = mem[r].key /\ mem'[r].pair = mem[r].pair
    BY <1>0, RowSelected
<1>2. pc'[r] = "rotateUpdate" /\ pc' \in [Requests -> Pcs] /\ Frame(r)
    BY <1>0, <1>1 DEF TypeOK, Frame, Pcs
<1>3. TypeOK'
    BY <1>0, <1>1, <1>2 DEF TypeOK
<1>4. /\ Minted(r)' /\ ~HasAgain(r)' /\ Rotating(r)' /\ Rotating(r) /\ HasRow(r)' /\ HasRow(r)
    BY <1>0, <1>2 DEF Minted, Unsigned, HasAgain, Rotating, HasRow, Pairing, Core, Stage
<1>5. Grows(r) /\ Tables'
    BY <1>0, <1>2, <1>4, UnwrittenTables DEF Tables
<1>6. \A t : /\ Twice(t)' = Twice(t) /\ Live(t)' = Live(t) /\ Gone(t)' = Gone(t)
             /\ InForce(t)' = InForce(t)
    BY <1>0 DEF Twice, Live, Stored, Gone, InForce
<1>7. Stage(r)' /\ Owned(r)' /\ Carried(r)' /\ Accepted(r)' /\ Signs(r)'
    BY <1>0, <1>1, <1>2, <1>4, <1>6
       DEF Core, Stage, Owned, Carried, Accepted, Signs, Pairing, Unsigned
<1>8. OwnKey(r)'
    BY <1>0, <1>1, <1>2, <1>4, <1>5, MintedStays, MemoryFields DEF Core, OwnKey
<1>9. Spends(r)'
  <2>1. \A y : ~Leaving(r, y)
      BY <1>0 DEF Leaving
  <2>2. QED  BY <1>0, <1>1, <1>4, <1>6, <2>1 DEF Core, Spends
<1>10. QED  BY <1>2, <1>3, <1>5, <1>7, <1>8, <1>9, CoreStep DEF Core

LEMMA RotateUpdateCore ==
    ASSUME CoreInv, NEW r \in Requests, RotateUpdate(r)
    PROVE  CoreInv'
<1> DEFINE e == Rotated(r)
<1>0. /\ TypeOK /\ Tables /\ Core(r) /\ pc[r] = "rotateUpdate" /\ Rotating(r) /\ HasRow(r)
      /\ UNCHANGED <<registered, user, store, mailed, now, job, signed, removed, alone>>
    BY DEF CoreInv, Core, Stage, Rotating, HasRow, RotateUpdate, past
<1>1. \E m : Answer(r, m)
    BY DEF RotateUpdate
<1>2. pc' \in [Requests -> Pcs] /\ mem' \in [Requests -> Memory]
    BY <1>0, <1>1, AnswerType
<1>3. CASE RowRefused(r, e)
  <2>1. UNCHANGED <<rows, held>>
      BY <1>3 DEF RotateUpdate
  <2>2. Plain(r) /\ Stage(r)'
      BY <1>0, <1>1, <2>1, AnswerPlain
  <2>3. TypeOK'
      BY <1>0, <1>2, <2>1 DEF TypeOK
  <2>4. QED  BY <2>2, <2>3, PlainCore
<1>4. CASE ~RowRefused(r, e)
  <2>1. RowUpdate(r, e) /\ held' = held \cup mem[r].pair
      BY <1>4 DEF RotateUpdate
  <2>2. /\ e \in KeyRow /\ e.key = mem[r].row.key /\ e.user = mem[r].row.user
        /\ e.refreshToken = mem[r].pair
        /\ e.refreshTokenUsed = mem[r].row.refreshTokenUsed \cup mem[r].row.refreshToken
      BY <1>0, RotatedRow
  <2> HIDE DEF e
  <2>3. /\ pc'[r] = "done" /\ mem'[r] = Blank(r) /\ Frame(r)
      BY <1>0, <1>1 DEF Answer, Goto, TypeOK, Frame
  <2>4. Stage(r)' /\ Settles(r) /\ Minted(r)'
      BY <2>1, <2>3 DEF Stage, Settles, Minted, Unsigned, Rotating, Pairing
  <2>5. \A t \in e.refreshTokenUsed : Gone(t)
    <3>1. \A y : ~Leaving(r, y)
        BY <1>0 DEF Leaving
    <3>2. QED  BY <1>0, <2>2, <3>1 DEF Core, Spends, Gone
  <2>6. /\ job[e.key].user = e.user /\ job[r].user = e.user /\ Minted(e.key)
        /\ \A t \in mem[r].pair : t.key = e.key
      BY <1>0, <2>2 DEF Core, Owned, OwnKey, Carried
  <2>7. /\ Grows(r) /\ Tables' /\ rows' \subseteq KeyRow
        /\ \A x, y \in rows' : x.user = y.user \/ x.key = y.key => x = y
      BY <1>0, <1>4, <2>1, <2>2, <2>3, <2>4, <2>5, <2>6, WrittenTables
  <2>8. TypeOK'
    <3>1. held' \subseteq Token
        BY <1>0, <2>1, MemoryFields DEF TypeOK
    <3>2. QED  BY <1>0, <1>2, <2>7, <3>1 DEF TypeOK
  <2>9. QED  BY <1>0, <2>3, <2>4, <2>7, <2>8, SettledCore, CoreStep
<1>5. QED  BY <1>3, <1>4

--------------------------------------------------------------------------------
(* The death of the manager *)

(* A handler is where it was, or was at work in the manager and is gone.    *)
Spared(r) == pc'[r] = pc[r] /\ mem'[r] = mem[r] /\ reply'[r] = reply[r]
Killed(r) == /\ pc[r] \notin {"new", "done"} /\ job[r].kind \in InManager
             /\ pc'[r] = "done" /\ mem'[r] = Blank(r) /\ reply'[r] = "lost"

LEMMA DeathParts ==
    ASSUME TypeOK, ManagerDies
    PROVE  /\ UNCHANGED <<registered, user, rows, store, held, mailed, now, job, signed, removed,
                          alone>>
           /\ \A r \in Requests : Spared(r) \/ Killed(r)
           /\ DOMAIN reply' = Requests /\ TypeOK'
<1>1. UNCHANGED <<registered, user, rows, store, held, mailed, now, job, signed, removed, alone>>
    BY DEF ManagerDies, db, past
<1>2. PICK queued \in SUBSET {r \in Requests : pc[r] = "findUser"} :
         LET dead == {r \in Busy \ queued : job[r].kind \in InManager}
         IN  /\ pc' = [r \in Requests |-> IF r \in dead THEN "done" ELSE pc[r]]
             /\ reply' = [r \in Requests |-> IF r \in dead THEN "lost" ELSE reply[r]]
             /\ mem' = [r \in Requests |-> IF r \in dead THEN Blank(r) ELSE mem[r]]
    BY DEF ManagerDies
<1> DEFINE dead == {r \in Busy \ queued : job[r].kind \in InManager}
<1>3. /\ pc' = [r \in Requests |-> IF r \in dead THEN "done" ELSE pc[r]]
      /\ reply' = [r \in Requests |-> IF r \in dead THEN "lost" ELSE reply[r]]
      /\ mem' = [r \in Requests |-> IF r \in dead THEN Blank(r) ELSE mem[r]]
    BY <1>2
<1>4. \A r \in dead : pc[r] \notin {"new", "done"} /\ job[r].kind \in InManager
    BY DEF Busy
<1> HIDE DEF dead
<1>5. \A r \in Requests : Spared(r) \/ Killed(r)
    BY <1>3, <1>4 DEF Spared, Killed
<1>6. pc' \in [Requests -> Pcs] /\ mem' \in [Requests -> Memory]
  <2>1. \A r \in Requests : Blank(r) \in Memory
      BY BlankType
  <2>2. pc \in [Requests -> Pcs] /\ mem \in [Requests -> Memory] /\ "done" \in Pcs
      BY DEF TypeOK, Pcs
  <2>3. QED  BY <1>3, <2>1, <2>2
<1>7. TypeOK'
    BY <1>1, <1>6 DEF TypeOK
<1>8. QED  BY <1>1, <1>3, <1>5, <1>7

(* Who dies held no row of createTokenPair or of a rotation, and whoever    *)
(* goes on finds the tables as they were.                                   *)
LEMMA DeathCore == ASSUME CoreInv, ManagerDies PROVE CoreInv'
<1>0. /\ UNCHANGED <<rows, held, job, signed, removed>> /\ TypeOK /\ TypeOK'
      /\ \A r \in Requests : Spared(r) \/ Killed(r)
    BY DeathParts DEF CoreInv
<1>1. \A t : /\ Twice(t)' = Twice(t) /\ Live(t)' = Live(t) /\ Gone(t)' = Gone(t)
             /\ InForce(t)' = InForce(t)
    BY <1>0 DEF Twice, Live, Stored, Gone, InForce
<1>2. \A k \in Requests : Minted(k) => Minted(k)'
    BY <1>0 DEF Minted, Unsigned, Spared, Killed
<1>3. Tables'
  <2>1. \A x \in rows : x.key \in Requests
      BY <1>0 DEF TypeOK, KeyRow
  <2>2. removed \subseteq Requests
      BY <1>0 DEF TypeOK
  <2>3. QED  BY <1>0, <1>1, <1>2, <2>1, <2>2 DEF CoreInv, Tables, RowOK, OwnedRow
<1>4. ASSUME NEW r \in Requests PROVE Core(r)'
  <2>0. /\ Core(r) /\ mem[r].row.key \in Requests /\ mem[r].again.key \in Requests
        /\ Blank(r).key = r /\ Blank(r).pair = {}
      BY <1>0, MemoryFields, BlankType DEF CoreInv
  <2>1. CASE Spared(r)
    <3>1. \A y : Leaving(r, y)' = Leaving(r, y)
        BY <2>1 DEF Leaving, Spared
    <3>2. /\ HasRow(r)' = HasRow(r) /\ HasAgain(r)' = HasAgain(r)
          /\ Rotating(r)' = Rotating(r) /\ Minted(r)' = Minted(r)
        BY <1>0, <2>1 DEF HasRow, HasAgain, Rotating, Spared, Minted
    <3>3. Stage(r)' /\ Owned(r)' /\ OwnKey(r)' /\ Accepted(r)' /\ Carried(r)'
        BY <1>0, <1>1, <1>2, <2>0, <2>1, <3>2
           DEF Core, Stage, Owned, OwnKey, Accepted, Carried, Spared
    <3>4. Signs(r)' /\ Spends(r)'
        BY <1>0, <1>1, <2>0, <2>1, <3>1, <3>2 DEF Core, Signs, Spends, Spared
    <3>5. QED  BY <3>3, <3>4 DEF Core
  <2>2. CASE Killed(r)
    <3>1. pc'[r] = "done" /\ mem'[r].key = r /\ mem'[r].pair = {}
        BY <2>0, <2>2 DEF Killed
    <3>2. QED
        BY <1>0, <3>1 DEF Core, Stage, Owned, OwnKey, Accepted, Carried, Signs, Spends, HasRow,
                          HasAgain, Rotating, Minted, Unsigned, Pairing
  <2>3. QED  BY <1>0, <2>1, <2>2
<1>5. QED  BY <1>0, <1>3, <1>4 DEF CoreInv

--------------------------------------------------------------------------------
(* The core of the invariant holds *)

LEMMA InitCore == Init => CoreInv
<1> SUFFICES ASSUME Init PROVE CoreInv
    OBVIOUS
<1>1. TypeOK
  <2>1. \A r \in Requests : Blank(r) \in Memory
      BY BlankType
  <2>2. job \in [Requests -> Job]
      BY AccountsAssumption DEF Init
  <2>3. user \in [Users -> UserRow] /\ store \in [Users -> Shop]
      BY DEF Init, NewUser, UserRow, Shop
  <2>4. pc \in [Requests -> Pcs] /\ mem \in [Requests -> Memory]
      BY <2>1 DEF Init, Pcs
  <2>5. QED  BY <2>2, <2>3, <2>4 DEF Init, TypeOK
<1>2. Tables
    BY FS_EmptySet DEF Init, Tables
<1>3. ASSUME NEW r \in Requests PROVE Core(r)
  <2>1. pc[r] = "new" /\ mem[r].key = r /\ mem[r].pair = {} /\ signed = {}
      BY BlankType DEF Init
  <2>2. QED
      BY <2>1 DEF Core, Stage, Owned, OwnKey, Accepted, Carried, Signs, Spends, HasRow, HasAgain,
                  Rotating, Minted, Unsigned, Pairing
<1>4. QED  BY <1>1, <1>2, <1>3 DEF CoreInv

(* A step in which nothing of the core moves. *)
LEMMA StillCore ==
    ASSUME CoreInv, TypeOK', UNCHANGED <<rows, held, pc, job, mem, signed, removed>>
    PROVE  CoreInv'
<1>1. \A t : /\ Twice(t)' = Twice(t) /\ Live(t)' = Live(t) /\ Gone(t)' = Gone(t)
             /\ InForce(t)' = InForce(t) /\ Minted(t)' = Minted(t)
    BY DEF Twice, Live, Stored, Gone, InForce, Minted
<1>2. \A r, y : Leaving(r, y)' = Leaving(r, y)
    BY <1>1 DEF Leaving
<1>3. \A r : HasRow(r)' = HasRow(r) /\ HasAgain(r)' = HasAgain(r) /\ Rotating(r)' = Rotating(r)
    BY DEF HasRow, HasAgain, Rotating
<1>4. Tables'
    BY <1>1 DEF CoreInv, Tables, RowOK, OwnedRow
<1>5. ASSUME NEW r \in Requests PROVE Core(r)'
  <2>1. Core(r)
      BY DEF CoreInv
  <2>2. Stage(r)' /\ Owned(r)' /\ OwnKey(r)' /\ Accepted(r)' /\ Carried(r)'
      BY <1>1, <1>3, <2>1 DEF Core, Stage, Owned, OwnKey, Accepted, Carried
  <2>3. Signs(r)' /\ Spends(r)'
      BY <1>1, <1>2, <1>3, <2>1 DEF Core, Signs, Spends
  <2>4. QED  BY <2>2, <2>3 DEF Core
<1>6. QED  BY <1>4, <1>5 DEF CoreInv

LEMMA CoreNext == ASSUME CoreInv, [Next]_vars PROVE CoreInv'
<1>0. TypeOK /\ \A r \in Requests : Stage(r)
    BY DEF CoreInv, Core
<1>1. ASSUME NEW r \in Requests, Arrival(r)
      PROVE  CoreInv'
  <2>1. CASE RegisterFind(r)
      BY <1>0, <2>1, RegisterFindPlain, PlainCore
  <2>2. CASE ValidateFind(r)
      BY <1>0, <2>2, ValidateFindPlain, PlainCore
  <2>3. CASE LoginFind(r)
      BY <1>0, <2>3, LoginFindPlain, PlainCore
  <2>4. CASE RefreshFind(r)
      BY <2>4, RefreshFindCore
  <2>5. CASE Admit(r)
      BY <1>0, <2>5, AdmitPlain, PlainCore
  <2>6. CASE BanFind(r)
      BY <1>0, <2>6, BanFindPlain, PlainCore
  <2>7. CASE StoreFind(r)
      BY <1>0, <2>7, StoreFindPlain, PlainCore
  <2>8. QED  BY <1>1, <2>1, <2>2, <2>3, <2>4, <2>5, <2>6, <2>7 DEF Arrival
<1>2. ASSUME NEW r \in Requests, Work(r)
      PROVE  CoreInv'
  <2>1. CASE RegisterInsert(r)
      BY <1>0, <2>1, RegisterInsertPlain, PlainCore
  <2>2. CASE MailAsksToken(r)
      BY <1>0, <2>2, MailAsksTokenPlain, PlainCore
  <2>3. CASE Sign(r) \/ Create(r) \/ PairFind(r) \/ PairSelect(r) \/ PairUpdate(r) \/ Signed(r)
      BY <2>3, SignCore, CreateCore, PairFindCore, PairSelectCore, PairUpdateCore, SignedCore
  <2>4. CASE Reuse(r) \/ RowRemove(r) \/ RotateSelect(r) \/ RotateUpdate(r) \/ RowFind(r)
      BY <2>4, RemoveCore, RotateSelectCore, RotateUpdateCore, RowFindCore
  <2>5. CASE CreateStoreFindUser(r) \/ CreateStoreOwners(r) \/ CreateStoreOpen(r)
      BY <1>0, <2>5, CreateStorePlain, PlainCore
  <2>6. CASE SaveUserSelect(r)
      BY <1>0, <2>6, SaveUserSelectPlain, PlainCore
  <2>7. CASE SaveUserUpdate(r)
      BY <1>0, <2>7, SaveUserUpdatePlain, PlainCore
  <2>8. CASE SaveStoreSelect(r) \/ SaveStoreUpdate(r)
      BY <1>0, <2>8, SaveStorePlain, PlainCore
  <2>9. QED  BY <1>2, <2>1, <2>2, <2>3, <2>4, <2>5, <2>6, <2>7, <2>8 DEF Work
<1>3. ASSUME NEW r \in Requests, Send(r)
      PROVE  CoreInv'
    BY <1>0, <1>3, SendPlain, PlainCore
<1>4. CASE Tick
  <2>1. UNCHANGED <<registered, user, rows, store, held, mailed, pc, job, mem, reply, signed,
                    removed, alone>> /\ now' = now + 1
      BY <1>4 DEF Tick, db, past
  <2>2. TypeOK'
      BY <1>0, <2>1 DEF TypeOK
  <2>3. QED  BY <2>1, <2>2, StillCore
<1>5. CASE UNCHANGED vars
  <2>1. UNCHANGED <<registered, user, rows, store, held, mailed, now, pc, job, mem, reply, signed,
                    removed, alone>>
      BY <1>5 DEF vars
  <2>2. TypeOK'
      BY <1>0, <2>1 DEF TypeOK
  <2>3. QED  BY <2>1, <2>2, StillCore
<1>6. CASE ManagerDies
    BY <1>6, DeathCore
<1>7. QED  BY <1>1, <1>2, <1>3, <1>4, <1>5, <1>6 DEF Next

(* The invariant about keys and tokens holds in every reachable state.      *)
THEOREM CoreHolds == Spec => []CoreInv
    BY InitCore, CoreNext, PTL DEF Spec

(* The tables, the handlers' memories and program counters are typed, and    *)
(* no user ever has two rows of keys, however the handlers overlap.         *)
THEOREM OneRowOfKeys == Spec => []TypeOK
<1>1. CoreInv => TypeOK
    BY DEF CoreInv
<1>2. QED  BY <1>1, CoreHolds, PTL

(* A token given to a client is accepted by AuthGuard until its row of keys *)
(* is removed, for any number of logins, mails and refreshes at once.       *)
THEOREM GivenIsAccepted == Spec => []HandedVerify
<1>1. CoreInv => HandedVerify
    BY DEF CoreInv, Tables, Live, Stored, HandedVerify
<1>2. QED  BY <1>1, CoreHolds, PTL

(* A row of keys carries a token of another key only after the removal of   *)
(* the row of that key.                                                     *)
THEOREM CarriesItsKey == Spec => []RowsCarryTheirKey
<1>1. CoreInv => RowsCarryTheirKey
    BY DEF CoreInv, Tables, RowOK, RowsCarryTheirKey
<1>2. QED  BY <1>1, CoreHolds, PTL

(* The refresh token in force is among the spent ones only if two handlers  *)
(* signed the same token within one second.                                 *)
THEOREM InForceUnspent == Spec => []SpentNotCurrent
<1>1. ASSUME CoreInv, NEW x \in rows, NEW t \in x.refreshToken \cap x.refreshTokenUsed
      PROVE  Cardinality({p \in signed : p[1] = t}) > 1
  <2> DEFINE S == {p \in signed : p[1] = t}
  <2>1. Twice(t)
      BY <1>1 DEF CoreInv, Tables, RowOK, Gone, InForce
  <2>2. PICK p, q \in Requests : p # q /\ <<t, p>> \in signed /\ <<t, q>> \in signed
      BY <2>1 DEF Twice
  <2>3. {<<t, p>>, <<t, q>>} \subseteq S /\ <<t, p>> # <<t, q>>
      BY <2>2
  <2>4. IsFiniteSet(S)
      BY <1>1, FS_Subset DEF CoreInv, Tables
  <2> HIDE DEF S
  <2>5. Cardinality({<<t, p>>, <<t, q>>}) = 2
    <3>1. IsFiniteSet({<<t, p>>}) /\ Cardinality({<<t, p>>}) = 1
        BY FS_Singleton
    <3>2. {<<t, p>>} \cup {<<t, q>>} = {<<t, p>>, <<t, q>>} /\ <<t, q>> \notin {<<t, p>>}
        BY <2>3
    <3>3. Cardinality({<<t, p>>} \cup {<<t, q>>}) = Cardinality({<<t, p>>}) + 1
        BY <3>1, <3>2, FS_AddElement
    <3>4. QED  BY <3>1, <3>2, <3>3
  <2>6. Cardinality(S) \in Nat /\ Cardinality({<<t, p>>, <<t, q>>}) <= Cardinality(S)
      BY <2>3, <2>4, FS_Subset, FS_CardinalityType
  <2>7. QED  BY <2>5, <2>6 DEF S
<1>2. CoreInv => SpentNotCurrent
    BY <1>1 DEF SpentNotCurrent
<1>3. QED  BY <1>2, CoreHolds, PTL

--------------------------------------------------------------------------------
(* A handler touches only the user it serves *)

Elsewhere(r) ==
    /\ \A u \in Users : u # job[r].user =>
          /\ user'[u] = user[u] /\ store'[u] = store[u]
          /\ u \in registered' => u \in registered
          /\ u \in mailed' => u \in mailed
          /\ RowsOf(u)' = RowsOf(u)
          /\ \A t \in held' \ held : job[t.key].user # u
    /\ registered \subseteq registered' /\ mailed \subseteq mailed'
    /\ pc[r] # "done" /\ (reply' = reply \/ \E m : Answer(r, m))

LEMMA AnswerFrame ==
    ASSUME TypeOK, NEW r \in Requests, NEW m, Answer(r, m), job' = job
    PROVE  /\ Frame(r) /\ pc'[r] = "done" /\ mem'[r] = Blank(r) /\ reply' = [reply EXCEPT ![r] = m]
           /\ mem' = [mem EXCEPT ![r] = Blank(r)]
    BY DEF TypeOK, Answer, Goto, Frame

LEMMA ReadFrame ==
    ASSUME TypeOK, NEW r \in Requests, job' = job, pc[r] # "done",
           \/ \E m : Answer(r, m)
           \/ /\ \E l : Goto(r, l)
              /\ reply' = reply
              /\ \A q \in Requests : q # r => mem'[q] = mem[q]
    PROVE  Frame(r) /\ pc[r] # "done" /\ (reply' = reply \/ \E m : Answer(r, m))
<1>1. CASE \E m : Answer(r, m)
    BY <1>1, AnswerFrame
<1>2. CASE /\ \E l : Goto(r, l) /\ reply' = reply
           /\ \A q \in Requests : q # r => mem'[q] = mem[q]
    BY <1>2 DEF TypeOK, Goto, Frame
<1>3. QED  BY <1>1, <1>2

LEMMA QuietElsewhere ==
    ASSUME TypeOK, NEW r \in Requests, job' = job, pc[r] # "done",
           UNCHANGED <<registered, user, rows, store, held, mailed>>,
           \/ \E m : Answer(r, m)
           \/ /\ \E l : Goto(r, l)
              /\ reply' = reply
              /\ \A q \in Requests : q # r => mem'[q] = mem[q]
    PROVE  Frame(r) /\ Elsewhere(r)
    BY ReadFrame DEF Elsewhere, RowsOf

LEMMA MemoryFrame ==
    ASSUME TypeOK, NEW r \in Requests, NEW m, mem' = [mem EXCEPT ![r] = m]
    PROVE  \A q \in Requests : q # r => mem'[q] = mem[q]
    BY DEF TypeOK

LEMMA ArrivalFrame ==
    ASSUME TypeOK, NEW r \in Requests, Arrival(r)
    PROVE  /\ Frame(r) /\ Elsewhere(r) /\ pc[r] = "new"
           /\ UNCHANGED <<registered, user, rows, store, held, mailed, signed, removed>>
<1>1. /\ pc[r] = "new" /\ job' = job
      /\ UNCHANGED <<registered, user, rows, store, held, mailed, signed, removed>>
    BY DEF Arrival, RegisterFind, ValidateFind, LoginFind, RefreshFind, Admit, BanFind, StoreFind,
           Arrives, db
<1>2. \/ \E m : Answer(r, m)
      \/ /\ \E l : Goto(r, l)
         /\ reply' = reply
         /\ \A q \in Requests : q # r => mem'[q] = mem[q]
  <2>1. CASE RegisterFind(r) \/ LoginFind(r) \/ Admit(r)
      BY <2>1 DEF RegisterFind, LoginFind, Admit
  <2>2. CASE ValidateFind(r) \/ BanFind(r) \/ StoreFind(r)
    <3>1. SUFFICES ASSUME ~\E m : Answer(r, m)
                   PROVE  \E l : Goto(r, l) /\ reply' = reply /\ \E m : mem' = [mem EXCEPT ![r] = m]
        BY MemoryFrame
    <3>2. \E l : Goto(r, l) /\ reply' = reply
        BY <2>2, <3>1 DEF ValidateFind, BanFind, StoreFind
    <3>3. \E m : mem' = [mem EXCEPT ![r] = m]
        BY <2>2, <3>1 DEF ValidateFind, BanFind, StoreFind
    <3>4. QED  BY <3>2, <3>3
  <2>3. CASE RefreshFind(r)
    <3>1. SUFFICES ASSUME ~\E m : Answer(r, m)
                   PROVE  \E l : Goto(r, l) /\ reply' = reply /\ \E m : mem' = [mem EXCEPT ![r] = m]
        BY MemoryFrame
    <3>2. \E l : Goto(r, l) /\ reply' = reply
        BY <2>3, <3>1 DEF RefreshFind
    <3>3. \E m : mem' = [mem EXCEPT ![r] = m]
        BY <2>3, <3>1 DEF RefreshFind
    <3>4. QED  BY <3>2, <3>3
  <2>4. QED  BY <2>1, <2>2, <2>3 DEF Arrival
<1>3. QED  BY <1>1, <1>2, QuietElsewhere

(* Steps of a handler that write no table and give nothing away. *)
Reads(r) == \/ MailAsksToken(r) \/ Sign(r) \/ PairFind(r) \/ PairSelect(r) \/ RotateSelect(r)
            \/ RowFind(r) \/ CreateStoreFindUser(r) \/ CreateStoreOwners(r)
            \/ SaveUserSelect(r) \/ SaveStoreSelect(r)

LEMMA ReadsFrame ==
    ASSUME TypeOK, NEW r \in Requests, Reads(r)
    PROVE  /\ Frame(r) /\ Elsewhere(r) /\ pc[r] \notin {"new", "done"}
           /\ UNCHANGED <<registered, user, rows, store, held, mailed, removed, alone>>
<1>1. /\ pc[r] \notin {"new", "done"} /\ job' = job
      /\ UNCHANGED <<registered, user, rows, store, held, mailed, removed, alone>>
    BY DEF Reads, MailAsksToken, Sign, PairFind, PairSelect, RotateSelect, RowFind,
           CreateStoreFindUser, CreateStoreOwners, SaveUserSelect, SaveStoreSelect, db, past
<1>2. \/ \E m : Answer(r, m)
      \/ /\ \E l : Goto(r, l)
         /\ reply' = reply
         /\ \A q \in Requests : q # r => mem'[q] = mem[q]
  <2>1. CASE \E m : Answer(r, m)
      BY <2>1
  <2>2. CASE ~\E m : Answer(r, m)
    <3>1. \E l : Goto(r, l) /\ reply' = reply
        BY <2>2 DEF Reads, MailAsksToken, Sign, PairFind, PairSelect, RotateSelect, RowFind,
               CreateStoreFindUser, CreateStoreOwners, SaveUserSelect, SaveStoreSelect
    <3>2. mem' = mem \/ \E m : mem' = [mem EXCEPT ![r] = m]
        BY <2>2 DEF Reads, MailAsksToken, Sign, PairFind, PairSelect, RotateSelect, RowFind,
               CreateStoreFindUser, CreateStoreOwners, SaveUserSelect, SaveStoreSelect,
               RowSelect, UserSelect
    <3>3. QED  BY <3>1, <3>2, MemoryFrame
  <2>3. QED  BY <2>1, <2>2
<1>3. QED  BY <1>1, <1>2, QuietElsewhere

(* Steps of a handler that write. *)
Writes(r) == \/ RegisterInsert(r) \/ Send(r) \/ Create(r) \/ PairUpdate(r) \/ Signed(r)
             \/ Reuse(r) \/ RotateUpdate(r) \/ RowRemove(r) \/ CreateStoreOpen(r)
             \/ SaveUserUpdate(r) \/ SaveStoreUpdate(r)

LEMMA WritesFrame ==
    ASSUME CoreInv, NEW r \in Requests, Writes(r)
    PROVE  Frame(r) /\ Elsewhere(r) /\ pc[r] \notin {"new", "done"} /\ alone' = alone
<1>0. /\ TypeOK /\ Tables /\ Core(r) /\ pc[r] \notin {"new", "done"} /\ job' = job
      /\ job[r].user \in Users /\ alone' = alone
    BY MemoryFields
       DEF CoreInv, Writes, RegisterInsert, Send, Create, PairUpdate, Signed, Reuse, RotateUpdate,
           RowRemove, CreateStoreOpen, SaveUserUpdate, SaveStoreUpdate, past
<1>1. Frame(r) /\ pc[r] # "done" /\ (reply' = reply \/ \E m : Answer(r, m))
  <2>1. CASE \E m : Answer(r, m)
      BY <1>0, <2>1, ReadFrame
  <2>2. CASE ~\E m : Answer(r, m)
    <3>1. \E l : Goto(r, l) /\ reply' = reply
        BY <2>2 DEF Writes, RegisterInsert, Send, Create, PairUpdate, Signed, Reuse, RotateUpdate,
               RowRemove, CreateStoreOpen, SaveUserUpdate, SaveStoreUpdate
    <3>2. mem' = mem \/ \E m : mem' = [mem EXCEPT ![r] = m]
        BY <2>2 DEF Writes, RegisterInsert, Send, Create, PairUpdate, Signed, Reuse, RotateUpdate,
               RowRemove, CreateStoreOpen, SaveUserUpdate, SaveStoreUpdate
    <3>3. QED  BY <1>0, <3>1, <3>2, MemoryFrame, ReadFrame
  <2>3. QED  BY <2>1, <2>2
<1>2. CASE RegisterInsert(r)
    BY <1>0, <1>1, <1>2 DEF RegisterInsert, Elsewhere, RowsOf
<1>3. CASE Send(r)
    BY <1>0, <1>1, <1>3 DEF Send, Elsewhere, RowsOf, db, Core, Owned
<1>4. CASE Signed(r)
    BY <1>0, <1>1, <1>4 DEF Signed, Elsewhere, RowsOf, db, Core, Owned
<1>5. CASE Create(r)
    BY <1>0, <1>1, <1>5 DEF Create, Elsewhere, RowsOf, NewRow
<1>6. CASE Reuse(r) \/ RowRemove(r)
  <2>1. /\ UNCHANGED <<registered, user, store, held, mailed>> /\ HasRow(r)
        /\ rows' = {y \in rows : y.key # mem[r].row.key}
      BY <1>6 DEF Reuse, RowRemove, Remove, HasRow
  <2>2. \A y \in rows : y.key = mem[r].row.key => y.user = job[r].user
      BY <1>0, <2>1 DEF Core, Owned, Tables, RowOK, OwnedRow
  <2>3. ASSUME NEW u \in Users, u # job[r].user
        PROVE  RowsOf(u)' = RowsOf(u)
      BY <2>1, <2>2, <2>3 DEF RowsOf
  <2>4. QED  BY <1>0, <1>1, <2>1, <2>3 DEF Elsewhere
<1>7. CASE PairUpdate(r) \/ RotateUpdate(r)
  <2>1. /\ UNCHANGED <<registered, user, store, mailed>>
        /\ held' = held \/ held' = held \cup mem[r].pair
      BY <1>7 DEF PairUpdate, RotateUpdate
  <2>2. rows' = rows \/ \E e \in KeyRow : /\ e.user = job[r].user /\ job[e.key].user = e.user
                                          /\ RowUpdate(r, e) /\ ~RowRefused(r, e)
    <3>1. CASE PairUpdate(r)
        BY <1>0, <3>1, PairedRow DEF PairUpdate, Core, Owned, HasAgain
    <3>2. CASE RotateUpdate(r)
        BY <1>0, <3>2, RotatedRow DEF RotateUpdate, Core, Owned, Stage, HasRow, Rotating
    <3>3. QED  BY <1>7, <3>1, <3>2
  <2>3. ASSUME NEW u \in Users, u # job[r].user
        PROVE  RowsOf(u)' = RowsOf(u)
    <3>1. CASE rows' = rows
        BY <3>1 DEF RowsOf
    <3>2. CASE \E e \in KeyRow : /\ e.user = job[r].user /\ job[e.key].user = e.user
                                 /\ RowUpdate(r, e) /\ ~RowRefused(r, e)
      <4>1. PICK e \in KeyRow : /\ e.user = job[r].user /\ job[e.key].user = e.user
                                /\ RowUpdate(r, e) /\ ~RowRefused(r, e)
          BY <3>2
      <4>2. \A x \in rows : x.key = e.key => x.user = e.user
          BY <1>0, <4>1 DEF Tables, RowOK, OwnedRow
      <4>3. /\ \A x \in rows : \E y \in rows' : y.key = x.key
            /\ \A y \in rows' : y \in rows \/ (y.key = e.key /\ y.user = e.user)
          BY <1>0, <4>1, <4>2, RowWritten
      <4>4. \A x, y \in rows : x.key = y.key => x = y
          BY <1>0 DEF TypeOK
      <4>5. \A y \in rows' : y.user = u => y \in rows
          BY <2>3, <4>1, <4>3
      <4>6. \A x \in rows : x.user = u => x \in rows'
          BY <2>3, <4>1, <4>2, <4>3, <4>4
      <4>7. QED  BY <4>5, <4>6 DEF RowsOf
    <3>3. QED  BY <2>2, <3>1, <3>2
  <2>4. QED  BY <1>0, <1>1, <2>1, <2>3 DEF Elsewhere, Core, Owned
<1>8. CASE CreateStoreOpen(r) \/ SaveStoreUpdate(r)
  <2>1. /\ UNCHANGED <<registered, user, rows, held, mailed>>
        /\ store' = store \/ \E s : store' = [store EXCEPT ![job[r].user] = s]
      BY <1>8 DEF CreateStoreOpen, SaveStoreUpdate
  <2>2. QED  BY <1>0, <1>1, <2>1 DEF TypeOK, Elsewhere, RowsOf
<1>9. CASE SaveUserUpdate(r)
  <2>1. /\ UNCHANGED <<registered, store, rows, held, mailed>> /\ UserUpdate(r)
      BY <1>9 DEF SaveUserUpdate
  <2>2. QED  BY <1>0, <1>1, <2>1, UserUpdateType DEF Elsewhere, RowsOf
<1>10. QED
    BY <1>0, <1>2, <1>3, <1>4, <1>5, <1>6, <1>7, <1>8, <1>9, <1>1 DEF Writes

LEMMA Steps ==
    ASSUME NEW r \in Requests
    PROVE  (Arrival(r) \/ Work(r) \/ Send(r)) => (Arrival(r) \/ Reads(r) \/ Writes(r))
    BY DEF Work, Reads, Writes

--------------------------------------------------------------------------------
(* Registration *)

(* What an unmailed user has is left alone by the handlers of other users.  *)
LEMMA FreshElsewhere ==
    ASSUME CoreInv, NEW r \in Requests, Frame(r), Elsewhere(r), NEW u \in Users,
           u # job[r].user, Fresh(u)
    PROVE  Fresh(u)'
<1>1. /\ user'[u] = user[u] /\ store'[u] = store[u] /\ RowsOf(u)' = RowsOf(u)
      /\ registered \subseteq registered' /\ (u \in registered' => u \in registered)
      /\ \A t \in held' \ held : job[t.key].user # u
      /\ job' = job /\ Tables
    BY DEF Elsewhere, Frame, CoreInv
<1>2. ASSUME NEW q \in Requests, job[q].user = u
      PROVE  Onward(q)'
  <2>1. q # r /\ pc'[q] = pc[q] /\ mem'[q] = mem[q] /\ Onward(q) /\ Core(q)
      BY <1>2 DEF Frame, Fresh, CoreInv
  <2>2. Entered(q)' = Entered(q)
      BY <1>1, <2>1 DEF Entered
  <2>3. ASSUME Entered(q), Progress(q)
        PROVE  Progress(q)'
    <3>1. u \in registered'
        BY <1>1, <1>2, <2>3 DEF Progress
    <3>2. \A p \in Requests : Entered(p)' /\ job[p].user = u => p = q
      <4>1. SUFFICES ASSUME NEW p \in Requests, Entered(p)', job[p].user = u
                     PROVE  p = q
          OBVIOUS
      <4>2. p # r /\ pc'[p] = pc[p]
          BY <4>1 DEF Frame
      <4>3. Entered(p)
          BY <1>1, <4>1, <4>2 DEF Entered
      <4>4. QED  BY <1>2, <2>3, <4>1, <4>3 DEF Progress
    <3>3. HasAgain(q)' = HasAgain(q)
        BY <2>1 DEF HasAgain
    <3>4. HasAgain(q) => Stored(mem[q].again.key)'
      <4>1. SUFFICES ASSUME HasAgain(q) PROVE Stored(mem[q].again.key)'
          OBVIOUS
      <4>2. PICK x \in rows : x.key = mem[q].again.key
          BY <2>3, <4>1 DEF Progress, Stored
      <4>3. x.user = u
          BY <1>1, <1>2, <2>1, <4>1, <4>2 DEF Core, Owned, Tables, RowOK, OwnedRow
      <4>4. x \in rows'
          BY <1>1, <4>2, <4>3 DEF RowsOf
      <4>5. QED  BY <2>1, <4>2, <4>4 DEF Stored
    <3>5. QED
        BY <1>1, <1>2, <2>1, <2>3, <3>1, <3>2, <3>3, <3>4 DEF Progress, Pairing
  <2>4. QED  BY <1>1, <2>1, <2>2, <2>3 DEF Onward
<1>3. \A t \in held' : job[t.key].user # u
    BY <1>1 DEF Fresh
<1>4. QED  BY <1>1, <1>2, <1>3 DEF Fresh

(* A step that does not enter the registration of the user served. *)
LEMMA FreshAside ==
    ASSUME CoreInv, NEW r \in Requests, Frame(r), NEW u \in Users, u = job[r].user, Fresh(u),
           UNCHANGED <<registered, rows, held>>,
           ~user'[u].isEmailValidated, store'[u] = "none",
           ~Entered(r)', Onward(r)'
    PROVE  Fresh(u)'
<1>1. ASSUME NEW q \in Requests, job[q].user = u, q # r
      PROVE  Onward(q)'
  <2>1. job' = job /\ pc'[q] = pc[q] /\ mem'[q] = mem[q] /\ Onward(q)
      BY <1>1 DEF Frame, Fresh
  <2>2. Entered(q)' = Entered(q)
      BY <2>1 DEF Entered
  <2>3. ASSUME Entered(q), Progress(q)
        PROVE  Progress(q)'
    <3>1. ASSUME NEW p \in Requests, Entered(p)', job[p].user = u
          PROVE  p = q
      <4>1. p # r
          BY <3>1
      <4>2. pc'[p] = pc[p]
          BY <4>1 DEF Frame
      <4>3. Entered(p)
          BY <2>1, <3>1, <4>2 DEF Entered
      <4>4. QED  BY <1>1, <2>3, <3>1, <4>3 DEF Progress
    <3>2. HasAgain(q)' = HasAgain(q) /\ RowsOf(u)' = RowsOf(u)
          /\ Stored(mem[q].again.key)' = Stored(mem[q].again.key)
        BY <2>1 DEF HasAgain, RowsOf, Stored
    <3>3. QED  BY <1>1, <2>1, <2>3, <3>1, <3>2 DEF Progress, Pairing
  <2>4. QED  BY <2>1, <2>2, <2>3 DEF Onward
<1>2. job' = job /\ RowsOf(u)' = RowsOf(u)
    BY DEF Frame, RowsOf
<1>3. QED  BY <1>1, <1>2 DEF Fresh

(* A step within the registration of the user served. *)
LEMMA FreshEntered ==
    ASSUME NEW r \in Requests, Frame(r), NEW u \in Users, u = job[r].user, Fresh(u),
           UNCHANGED <<user, store, held>>, u \in registered',
           (Entered(r) /\ Progress(r)) \/ u \notin registered,
           Entered(r)', Progress(r)'
    PROVE  Fresh(u)'
<1>1. job' = job
    BY DEF Frame
<1>2. ASSUME NEW q \in Requests, job[q].user = u, q # r
      PROVE  Onward(q)'
  <2>1. pc'[q] = pc[q] /\ mem'[q] = mem[q] /\ Onward(q)
      BY <1>2 DEF Frame, Fresh
  <2>2. ~(Entered(q) /\ Progress(q))
      BY <1>2 DEF Progress
  <2>3. QED  BY <1>1, <2>1, <2>2 DEF Onward
<1>3. Onward(r)'
    BY DEF Onward
<1>4. QED  BY <1>1, <1>2, <1>3 DEF Fresh

(* The steps of a registration, by where the handler is. *)
LEMMA StepAt ==
    ASSUME NEW r \in Requests, Reads(r) \/ Writes(r)
    PROVE  /\ pc[r] = "insert" => RegisterInsert(r)
           /\ pc[r] = "mail" => MailAsksToken(r)
           /\ pc[r] = "sign" => Sign(r)
           /\ pc[r] = "create" => Create(r)
           /\ pc[r] = "pair" => PairFind(r)
           /\ pc[r] = "pairSelect" => PairSelect(r)
           /\ pc[r] = "pairUpdate" => PairUpdate(r)
           /\ pc[r] = "signed" => Signed(r)
           /\ pc[r] = "send" => Send(r)
           /\ pc[r] = "saveUser" => SaveUserSelect(r)
           /\ pc[r] = "updateUser" => SaveUserUpdate(r)
    BY DEF Reads, Writes, MailAsksToken, Sign, PairFind, PairSelect, RotateSelect, RowFind,
           CreateStoreFindUser, CreateStoreOwners, SaveUserSelect, SaveStoreSelect,
           RegisterInsert, Send, Create, PairUpdate, Signed, Reuse, RotateUpdate, RowRemove,
           CreateStoreOpen, SaveUserUpdate, SaveStoreUpdate

LEMMA EnteredStep ==
    ASSUME CoreInv, NEW r \in Requests, Entered(r), Progress(r), Frame(r), Reads(r) \/ Writes(r),
           NEW u \in Users, u = job[r].user
    PROVE  \/ /\ Entered(r)' /\ Progress(r)'
              /\ UNCHANGED <<registered, user, store, held, mailed>>
           \/ u \in mailed'
           \/ /\ Answer(r, "mail refused") /\ mailed' = mailed
              /\ UNCHANGED <<registered, user, rows, store, held>>
<1>0. /\ TypeOK /\ Tables /\ Core(r) /\ Stage(r) /\ job' = job /\ job[r].kind = "register"
      /\ pc[r] \in {"mail", "sign", "create", "pair", "pairSelect", "pairUpdate", "signed", "send"}
      /\ mem[r] \in Memory /\ mem[r].again.key \in Requests
  <2>1. pc[r] \in Pcs /\ Stage(r) /\ Core(r) /\ TypeOK /\ Tables
      BY MemoryFields DEF CoreInv, Core
  <2>2. QED  BY <2>1, MemoryFields DEF Entered, Stage, Pcs, Frame
<1>1. \A q \in Requests : Entered(q)' /\ job[q].user = u => q = r
  <2>1. SUFFICES ASSUME NEW q \in Requests, Entered(q)', job[q].user = u, q # r
                 PROVE  FALSE
      OBVIOUS
  <2>2. pc'[q] = pc[q]
      BY <2>1 DEF Frame
  <2>3. Entered(q)
      BY <1>0, <2>1, <2>2 DEF Entered
  <2>4. QED  BY <2>1, <2>3 DEF Progress
<1>2. u \in registered
    BY DEF Progress
<1>3. ASSUME NEW l \in {"sign", "create", "pair", "pairSelect", "pairUpdate", "signed", "send"},
             pc'[r] = l, UNCHANGED <<registered, user, store, held, mailed>>,
             l \in {"sign", "create"} => RowsOf(u)' = {},
             l \in Pairing \cup {"send"} => RowsOf(u)' # {},
             l \in {"pairSelect", "pairUpdate"} => Stored(mem[r].again.key)',
             l = "pairUpdate" => mem'[r].found,
             l \in {"pairSelect", "pairUpdate", "signed", "send"} => mem'[r].pair # {}
      PROVE  /\ Entered(r)' /\ Progress(r)'
             /\ UNCHANGED <<registered, user, store, held, mailed>>
    BY <1>0, <1>1, <1>2, <1>3 DEF Entered, Progress, HasAgain
<1>4. CASE pc[r] = "mail"
  <2>1. MailAsksToken(r)
      BY <1>4, StepAt
  <2>2. /\ pc'[r] = "sign" /\ RowsOf(u)' = RowsOf(u) /\ mem' = mem
        /\ UNCHANGED <<registered, user, store, held, mailed>>
      BY <1>0, <2>1 DEF MailAsksToken, Goto, TypeOK, RowsOf, db
  <2>3. QED  BY <1>3, <1>4, <2>2 DEF Progress, Pairing
<1>5. CASE pc[r] = "sign"
  <2>1. Sign(r)
      BY <1>5, StepAt
  <2>2. RowsOf(u) = {}
      BY <1>5 DEF Progress
  <2>3. /\ pc'[r] = "create" /\ RowsOf(u)' = RowsOf(u) /\ mem' = mem
        /\ UNCHANGED <<registered, user, store, held, mailed>>
      BY <1>0, <2>1, <2>2 DEF Sign, Goto, TypeOK, RowsOf, db
  <2>4. QED  BY <1>3, <2>2, <2>3 DEF Pairing
<1>6. CASE pc[r] = "create"
  <2>1. Create(r)
      BY <1>6, StepAt
  <2>2. RowsOf(u) = {}
      BY <1>6 DEF Progress
  <2>3. /\ pc'[r] = "pair" /\ rows' = rows \cup {NewRow(u, r)} /\ mem' = mem
        /\ UNCHANGED <<registered, user, store, held, mailed>>
      BY <1>0, <2>1, <2>2 DEF Create, Goto, TypeOK
  <2>4. RowsOf(u)' # {}
    <3>1. NewRow(u, r) \in rows' /\ NewRow(u, r).user = u
        BY <1>0, <2>3 DEF NewRow
    <3>2. QED  BY <3>1 DEF RowsOf
  <2>5. QED  BY <1>3, <2>3, <2>4
<1>7. CASE pc[r] = "pair"
  <2>1. PairFind(r)
      BY <1>7, StepAt
  <2>2. RowsOf(u) # {}
      BY <1>7 DEF Progress, Pairing
  <2>3. PICK x \in RowsOf(u) : /\ \E t : mem' = [mem EXCEPT ![r].pair = {t}, ![r].again = x]
                               /\ Goto(r, "pairSelect")
      BY <2>1, <2>2 DEF PairFind
  <2>4. /\ pc'[r] = "pairSelect" /\ mem'[r].again = x /\ mem'[r].pair # {}
        /\ rows' = rows /\ RowsOf(u)' = RowsOf(u)
        /\ UNCHANGED <<registered, user, store, held, mailed>>
    <3>1. PICK t : mem'[r] = [mem[r] EXCEPT !.pair = {t}, !.again = x]
        BY <1>0, <2>3 DEF TypeOK
    <3>2. mem'[r].again = x /\ mem'[r].pair = {t}
        BY <1>0, <3>1 DEF Memory
    <3>3. /\ pc'[r] = "pairSelect" /\ rows' = rows
          /\ UNCHANGED <<registered, user, store, held, mailed>>
        BY <1>0, <2>1, <2>3 DEF PairFind, Goto, TypeOK, db
    <3>4. QED  BY <3>2, <3>3 DEF RowsOf
  <2>5. Stored(mem[r].again.key)'
      BY <2>3, <2>4 DEF Stored, RowsOf
  <2>6. QED  BY <1>3, <2>2, <2>4, <2>5
<1>8. CASE pc[r] = "pairSelect"
  <2>1. PairSelect(r)
      BY <1>8, StepAt
  <2>2. RowsOf(u) # {} /\ Stored(mem[r].again.key) /\ mem[r].pair # {}
      BY <1>8 DEF Progress, Pairing, HasAgain
  <2>3. /\ pc'[r] = "pairUpdate" /\ RowsOf(u)' = RowsOf(u)
        /\ UNCHANGED <<registered, user, rows, store, held, mailed>>
      BY <1>0, <2>1 DEF PairSelect, Goto, TypeOK, RowsOf, db
  <2>4. /\ mem'[r].again = mem[r].again /\ mem'[r].pair = mem[r].pair
        /\ mem'[r].found = \E x \in rows : x.key = Paired(r).key
    <3> DEFINE e == Paired(r)
    <3>1. e \in KeyRow /\ RowSelect(r, e)
        BY <1>0, <2>1, PairedRow DEF PairSelect
    <3> HIDE DEF e
    <3>2. /\ mem'[r].again = mem[r].again /\ mem'[r].pair = mem[r].pair
          /\ mem'[r].found = \E x \in rows : x.key = e.key
        BY <1>0, <3>1, RowSelected
    <3>3. QED  BY <3>2 DEF e
  <2>5. mem'[r].found /\ Stored(mem[r].again.key)'
      BY <1>0, <2>2, <2>3, <2>4, PairedRow DEF Stored
  <2>6. QED  BY <1>3, <2>2, <2>3, <2>4, <2>5
<1>9. CASE pc[r] = "pairUpdate"
  <2>1. PairUpdate(r)
      BY <1>9, StepAt
  <2>2. Stored(mem[r].again.key) /\ mem[r].pair # {} /\ mem[r].found
      BY <1>9 DEF Progress, HasAgain
  <2>3. /\ pc'[r] = "signed" /\ mem' = mem /\ rows' = Merged(r, Paired(r))
        /\ UNCHANGED <<registered, user, store, held, mailed>>
      BY <1>0, <2>1, <2>2 DEF PairUpdate, Goto, TypeOK, RowRefused, RowUpdate
  <2>4. PICK x \in rows : x.key = mem[r].again.key
      BY <2>2 DEF Stored
  <2>5. x.user = u
      BY <1>0, <1>9, <2>4 DEF Tables, RowOK, OwnedRow, Core, Owned, HasAgain
  <2>6. PICK y \in rows' : y.key = x.key
      BY <1>0, <2>3, MergedRows, PairedRow
  <2>7. PICK z \in rows : y.key = z.key /\ y.user = z.user
      BY <1>0, <2>3, <2>6, MergedRows, PairedRow
  <2>8. RowsOf(u)' # {}
    <3>1. z = x
        BY <1>0, <2>6, <2>7 DEF TypeOK
    <3>2. QED  BY <2>5, <2>7, <3>1 DEF RowsOf
  <2>9. QED  BY <1>3, <2>2, <2>3, <2>8
<1>10. CASE pc[r] = "signed"
  <2>1. Signed(r)
      BY <1>10, StepAt
  <2>2. RowsOf(u) # {} /\ mem[r].pair # {}
      BY <1>10 DEF Progress, Pairing
  <2>3. /\ pc'[r] = "send" /\ RowsOf(u)' = RowsOf(u) /\ mem' = mem
        /\ UNCHANGED <<registered, user, store, held, mailed>>
      BY <1>0, <2>1, <2>2 DEF Signed, Goto, TypeOK, RowsOf, db
  <2>4. QED  BY <1>3, <2>2, <2>3
<1>11. CASE pc[r] = "send"
  <2>1. Send(r)
      BY <1>11, StepAt
  <2>2. CASE mailed' = mailed \cup {job[r].user}
      BY <2>2
  <2>3. CASE Answer(r, "mail refused") /\ UNCHANGED <<held, mailed>>
      BY <2>1, <2>3 DEF Send, db
  <2>4. QED  BY <2>1, <2>2, <2>3 DEF Send
<1>12. QED
    BY <1>0, <1>4, <1>5, <1>6, <1>7, <1>8, <1>9, <1>10, <1>11

(* The handlers of an unmailed user. *)
LEMMA FreshServed ==
    ASSUME CoreInv, NEW r \in Requests, Arrival(r) \/ Reads(r) \/ Writes(r), Frame(r),
           NEW u \in Users \ mailed, u = job[r].user, Fresh(u), u \notin mailed'
    PROVE  Fresh(u)'
<1>0. /\ TypeOK /\ Tables /\ Core(r) /\ Stage(r) /\ job' = job /\ Onward(r)
      /\ mem[r] \in Memory /\ mem[r].usr \in UserRow
    BY MemoryFields DEF CoreInv, Core, Frame, Fresh
<1>1. CASE Entered(r) /\ Progress(r)
  <2>1. Reads(r) \/ Writes(r)
      BY <1>1, ArrivalFrame, <1>0 DEF Entered
  <2>2. \/ /\ Entered(r)' /\ Progress(r)'
           /\ UNCHANGED <<registered, user, store, held, mailed>>
        \/ /\ Answer(r, "mail refused")
           /\ UNCHANGED <<registered, user, rows, store, held>>
      BY <1>1, <2>1, EnteredStep
  <2>3. CASE /\ Entered(r)' /\ Progress(r)'
             /\ UNCHANGED <<registered, user, store, held, mailed>>
    <3>1. u \in registered'
        BY <1>1, <2>3 DEF Progress
    <3>2. QED  BY <1>1, <2>3, <3>1, FreshEntered
  <2>4. CASE /\ Answer(r, "mail refused")
             /\ UNCHANGED <<registered, user, rows, store, held>>
    <3>1. pc'[r] = "done"
        BY <1>0, <2>4, AnswerFrame
    <3>2. ~Entered(r)' /\ Onward(r)'
        BY <3>1 DEF Entered, Onward
    <3>3. QED  BY <2>4, <3>2, FreshAside DEF Fresh
  <2>5. QED  BY <2>2, <2>3, <2>4
<1>2. CASE pc[r] = "insert"
  <2>1. RegisterInsert(r) /\ job[r].kind = "register"
      BY <1>0, <1>2, ArrivalFrame, StepAt DEF Stage
  <2>2. CASE Answer(r, "error") /\ UNCHANGED registered
    <3>1. pc'[r] = "done"
        BY <1>0, <2>2, AnswerFrame
    <3>2. ~Entered(r)' /\ Onward(r)'
        BY <3>1 DEF Entered, Onward
    <3>3. QED  BY <2>1, <2>2, <3>2, FreshAside DEF Fresh, RegisterInsert
  <2>3. CASE /\ u \notin registered /\ registered' = registered \cup {u}
             /\ Goto(r, "mail") /\ UNCHANGED <<mem, reply>>
    <3>1. pc'[r] = "mail" /\ UNCHANGED <<user, rows, store, held>>
        BY <1>0, <2>1, <2>3 DEF RegisterInsert, Goto, TypeOK
    <3>2. Entered(r)'
        BY <1>0, <2>1, <3>1 DEF Entered
    <3>3. ASSUME NEW q \in Requests, Entered(q)', job[q].user = u, q # r
          PROVE  FALSE
      <4>1. pc'[q] = pc[q]
          BY <3>3 DEF Frame
      <4>2. Entered(q)
          BY <1>0, <3>3, <4>1 DEF Entered
      <4>3. Onward(q)
          BY <3>3 DEF Fresh
      <4>4. Progress(q)
          BY <4>2, <4>3 DEF Onward, Entered
      <4>5. QED  BY <2>3, <3>3, <4>4 DEF Progress
    <3>4. RowsOf(u) = {} /\ RowsOf(u)' = RowsOf(u)
        BY <2>3, <3>1 DEF Fresh, RowsOf
    <3>5. Progress(r)'
        BY <1>0, <2>3, <3>1, <3>3, <3>4 DEF Progress, Pairing, HasAgain
    <3>6. QED  BY <2>3, <3>1, <3>2, <3>5, FreshEntered
  <2>4. QED  BY <2>1, <2>2, <2>3 DEF RegisterInsert
<1>3. CASE /\ pc[r] \in {"saveUser", "updateUser"} /\ job[r].kind \in {"banUser", "unBanUser"}
           /\ ~mem[r].usr.isEmailValidated
  <2>1. SaveUserSelect(r) \/ SaveUserUpdate(r)
      BY <1>0, <1>3, ArrivalFrame, StepAt
  <2>2. CASE SaveUserSelect(r)
    <3>1. /\ pc'[r] = "updateUser" /\ UNCHANGED <<registered, user, rows, store, held>>
          /\ mem'[r].usr = Changed(r)
        BY <1>0, <2>2, SaveUserSelectPlain DEF SaveUserSelect, Goto, TypeOK, db
    <3>2. ~Changed(r).isEmailValidated
        BY <1>0, <1>3 DEF Changed, UserRow
    <3>3. ~Entered(r)' /\ Onward(r)'
        BY <1>0, <1>3, <3>1, <3>2 DEF Entered, Onward
    <3>4. QED  BY <3>1, <3>3, FreshAside DEF Fresh
  <2>3. CASE SaveUserUpdate(r)
    <3>1. /\ Answer(r, "oke") /\ UNCHANGED <<registered, rows, store, held>>
          /\ UserUpdate(r)
        BY <1>3, <2>3 DEF SaveUserUpdate
    <3>2. pc'[r] = "done"
        BY <1>0, <3>1, AnswerFrame
    <3>3. ~user'[u].isEmailValidated
      <4>1. "isEmailValidated" \in Flags
          BY DEF Flags
      <4>2. user'[u]["isEmailValidated"] = IF "isEmailValidated" \in mem[r].dirty
                                           THEN mem[r].usr["isEmailValidated"]
                                           ELSE user[u]["isEmailValidated"]
          BY <1>0, <3>1, <4>1, UserUpdateType
      <4>3. QED  BY <1>3, <4>2 DEF Fresh
    <3>4. ~Entered(r)' /\ Onward(r)'
        BY <3>2 DEF Entered, Onward
    <3>5. QED  BY <3>1, <3>3, <3>4, FreshAside DEF Fresh
  <2>4. QED  BY <2>1, <2>2, <2>3
<1>4. CASE pc[r] \in {"new", "done"}
  <2>1. Arrival(r) /\ UNCHANGED <<registered, user, rows, store, held>>
      BY <1>0, <1>4, ReadsFrame, WritesFrame, ArrivalFrame
  <2>2. Mine(u) = {} /\ ~user[u].isEmailValidated /\ store[u] = "none"
      BY DEF Fresh, Mine
  <2>3. \/ \E m : Answer(r, m)
        \/ Goto(r, "insert")
        \/ /\ job[r].kind \in {"banUser", "unBanUser"} /\ Goto(r, "saveUser")
           /\ mem' = [mem EXCEPT ![r].usr = user[u]]
    <3>1. CASE RegisterFind(r)
        BY <3>1 DEF RegisterFind
    <3>2. CASE LoginFind(r)
        BY <2>2, <3>2 DEF LoginFind
    <3>3. CASE ValidateFind(r)
        BY <3>3 DEF ValidateFind
    <3>4. CASE RefreshFind(r) \/ Admit(r)
        BY <2>2, <3>4 DEF RefreshFind, Admit
    <3>5. CASE BanFind(r)
        BY <3>5 DEF BanFind, Arrives
    <3>6. CASE StoreFind(r)
        BY <2>2, <3>6 DEF StoreFind
    <3>7. QED  BY <2>1, <3>1, <3>2, <3>3, <3>4, <3>5, <3>6 DEF Arrival
  <2>4. ~Entered(r)' /\ Onward(r)'
    <3>1. CASE \E m : Answer(r, m)
      <4>1. pc'[r] = "done"
          BY <1>0, <3>1, AnswerFrame
      <4>2. QED  BY <4>1 DEF Entered, Onward
    <3>2. CASE Goto(r, "insert")
      <4>1. pc'[r] = "insert"
          BY <1>0, <3>2 DEF Goto, TypeOK
      <4>2. QED  BY <4>1 DEF Entered, Onward
    <3>3. CASE /\ job[r].kind \in {"banUser", "unBanUser"} /\ Goto(r, "saveUser")
               /\ mem' = [mem EXCEPT ![r].usr = user[u]]
      <4>1. pc'[r] = "saveUser" /\ user[u] \in UserRow
          BY <1>0, <3>3 DEF Goto, TypeOK
      <4>2. mem'[r].usr = user[u]
          BY <1>0, <3>3, <4>1, ReadsUser
      <4>3. QED  BY <1>0, <2>2, <3>3, <4>1, <4>2 DEF Entered, Onward
    <3>4. QED  BY <2>3, <3>1, <3>2, <3>3
  <2>5. QED  BY <2>1, <2>2, <2>4, FreshAside
<1>5. QED  BY <1>0, <1>1, <1>2, <1>3, <1>4 DEF Onward

(* An answer is the end of a handler, and is given once. *)
LEMMA RepliedStep ==
    ASSUME CoreInv, Replied, NEW r \in Requests, Arrival(r) \/ Reads(r) \/ Writes(r)
    PROVE  /\ Replied'
           /\ \A q \in Requests : reply[q] # "none" => q # r /\ reply'[q] = reply[q]
<1>0. Frame(r) /\ Elsewhere(r) /\ TypeOK /\ job' = job
    BY ArrivalFrame, ReadsFrame, WritesFrame DEF CoreInv, Frame
<1>1. CASE reply' = reply
  <2>1. reply[r] = "none"
      BY <1>0 DEF Replied, Elsewhere
  <2>2. QED  BY <1>0, <1>1, <2>1 DEF Replied, Frame
<1>2. CASE \E m : Answer(r, m)
  <2>1. PICK m : Answer(r, m)
      BY <1>2
  <2>2. pc'[r] = "done" /\ reply' = [reply EXCEPT ![r] = m] /\ reply[r] = "none"
      BY <1>0, <2>1, AnswerFrame DEF Replied, Elsewhere
  <2>3. QED  BY <1>0, <2>2 DEF Replied, Frame
<1>3. QED  BY <1>0, <1>1, <1>2 DEF Elsewhere

LEMMA RepliedNext == ASSUME CoreInv, Replied, [Next]_vars PROVE Replied'
<1>1. ASSUME NEW r \in Requests, Arrival(r) \/ Work(r) \/ Send(r)
      PROVE  Replied'
    BY <1>1, Steps, RepliedStep
<1>2. CASE Tick \/ UNCHANGED vars
  <2>1. UNCHANGED <<pc, reply>>
      BY <1>2 DEF Tick, vars
  <2>2. QED  BY <2>1 DEF Replied
<1>3. CASE ManagerDies
    BY <1>3, DeathParts DEF CoreInv, Replied, Spared, Killed
<1>4. QED  BY <1>1, <1>2, <1>3 DEF Next

LEMMA RepliedInit == Init => Replied
    BY DEF Init, Replied

(* A step of a handler keeps what is known of every unmailed user. *)
LEMMA UnmailedStep ==
    ASSUME CoreInv, Unmailed, NEW r \in Requests, Arrival(r) \/ Reads(r) \/ Writes(r)
    PROVE  Unmailed' /\ Frame(r) /\ Elsewhere(r)
<1>0. Frame(r) /\ Elsewhere(r)
    BY ArrivalFrame, ReadsFrame, WritesFrame DEF CoreInv
<1>1. ASSUME NEW u \in Users \ mailed'
      PROVE  Fresh(u)'
  <2>1. u \in Users \ mailed /\ Fresh(u)
      BY <1>0, <1>1 DEF Elsewhere, Unmailed
  <2>2. CASE u = job[r].user
      BY <1>0, <1>1, <2>1, <2>2, FreshServed
  <2>3. CASE u # job[r].user
      BY <1>0, <2>1, <2>3, FreshElsewhere
  <2>4. QED  BY <2>2, <2>3
<1>2. QED  BY <1>0, <1>1 DEF Unmailed

(* The manager that dies may be banning an unmailed user, and no more. *)
LEMMA UnmailedDeath == ASSUME CoreInv, Unmailed, ManagerDies PROVE Unmailed'
<1>0. /\ UNCHANGED <<registered, user, rows, store, held, mailed, job>>
      /\ \A r \in Requests : Spared(r) \/ Killed(r)
    BY DeathParts DEF CoreInv
<1>1. ASSUME NEW r \in Requests, Onward(r)
      PROVE  Onward(r)'
  <2>1. CASE Killed(r)
      BY <2>1 DEF Killed, Onward
  <2>2. CASE Spared(r)
    <3>1. \A q \in Requests : Entered(q)' => Entered(q)
        BY <1>0 DEF Entered, Spared, Killed
    <3>2. Entered(r)' = Entered(r)
        BY <1>0, <2>2 DEF Entered, Spared
    <3>3. Progress(r) => Progress(r)'
        BY <1>0, <2>2, <3>1 DEF Progress, Spared, HasAgain, Stored, RowsOf
    <3>4. QED  BY <1>0, <1>1, <2>2, <3>2, <3>3 DEF Onward, Spared
  <2>3. QED  BY <1>0, <2>1, <2>2
<1>2. ASSUME NEW u \in Users, Fresh(u)
      PROVE  Fresh(u)'
    BY <1>0, <1>1, <1>2 DEF Fresh, RowsOf
<1>3. QED  BY <1>0, <1>2 DEF Unmailed

LEMMA UnmailedNext == ASSUME CoreInv, Unmailed, [Next]_vars PROVE Unmailed'
<1>1. ASSUME NEW r \in Requests, Arrival(r) \/ Work(r) \/ Send(r)
      PROVE  Unmailed'
    BY <1>1, Steps, UnmailedStep
<1>2. CASE Tick \/ UNCHANGED vars
  <2>1. UNCHANGED <<registered, user, rows, store, held, mailed, pc, job, mem, reply>>
      BY <1>2 DEF Tick, vars, db, past
  <2>2. ASSUME NEW u \in Users, Fresh(u)
        PROVE  Fresh(u)'
    <3>1. ASSUME NEW q \in Requests, Onward(q)
          PROVE  Onward(q)'
        BY <2>1, <3>1 DEF Onward, Entered, Progress, HasAgain, Stored, RowsOf
    <3>2. QED  BY <2>1, <2>2, <3>1 DEF Fresh, RowsOf
  <2>3. QED  BY <2>1, <2>2 DEF Unmailed
<1>3. CASE ManagerDies
    BY <1>3, UnmailedDeath
<1>4. QED  BY <1>1, <1>2, <1>3 DEF Next

LEMMA UnmailedInit == Init => Unmailed
<1> SUFFICES ASSUME Init PROVE Unmailed
    OBVIOUS
<1>1. \A r \in Requests : Onward(r)
    BY DEF Init, Onward
<1>2. ASSUME NEW u \in Users
      PROVE  Fresh(u)
    BY <1>1 DEF Init, Fresh, NewUser, RowsOf
<1>3. QED  BY <1>2 DEF Init, Unmailed

(* Who is in the table is mailed, or has a handler on the way to the mail. *)
Reaches(u, q) == /\ job[q] = [kind |-> "register", user |-> u]
                 /\ \/ q \in Busy /\ pc[q] # "insert"
                    \/ reply[q] = "mail refused"

LEMMA ReachesStep ==
    ASSUME CoreInv, TypeOK', Unmailed, Replied, RegisteredAreMailed, NEW r \in Requests,
           Arrival(r) \/ Reads(r) \/ Writes(r), NEW u \in registered'
    PROVE  u \in mailed' \/ \E q \in Requests : Reaches(u, q)'
<1>0. /\ Frame(r) /\ Elsewhere(r) /\ TypeOK /\ Stage(r) /\ Core(r) /\ job' = job
      /\ DOMAIN reply = Requests /\ job[r] \in Job /\ mailed \subseteq mailed'
      /\ pc[r] # "done" /\ (reply' = reply \/ \E m : Answer(r, m))
    BY UnmailedStep, MemoryFields DEF CoreInv, Core, Replied, Frame, Elsewhere
<1>1. u \in Users
    BY DEF TypeOK
<1>2. CASE u \in mailed
    BY <1>0, <1>2
<1>3. CASE u \in registered /\ u \notin mailed
  <2>1. PICK q \in Requests : Reaches(u, q)
      BY <1>3 DEF RegisteredAreMailed, Reaches
  <2>2. CASE q # r
    <3>1. pc'[q] = pc[q] /\ job'[q] = job[q]
        BY <1>0, <2>2 DEF Frame
    <3>2. reply'[q] = reply[q]
        BY <1>0, <2>2 DEF Answer
    <3>3. QED  BY <2>1, <3>1, <3>2 DEF Reaches, Busy
  <2>3. CASE q = r
    <3>0. /\ job[r].kind = "register" /\ job[r].user = u
          /\ (r \in Busy /\ pc[r] # "insert") \/ reply[r] = "mail refused"
      <4>1. Reaches(u, r)
          BY <2>1, <2>3
      <4>2. job[r] = [kind |-> "register", user |-> u]
          BY <4>1 DEF Reaches
      <4>3. job[r].kind = "register" /\ job[r].user = u
          BY <4>2
      <4>4. QED  BY <4>1, <4>3 DEF Reaches
    <3>1. Entered(r) /\ Onward(r) /\ u = job[r].user
        BY <1>0, <1>1, <1>3, <3>0 DEF Busy, Unmailed, Replied, Entered, Fresh
    <3>2. Progress(r) /\ (Reads(r) \/ Writes(r))
        BY <1>0, <3>1, ArrivalFrame DEF Onward, Entered
    <3>3. \/ Entered(r)' \/ u \in mailed'
          \/ Answer(r, "mail refused")
        BY <1>0, <1>1, <3>1, <3>2, EnteredStep
    <3>4. Entered(r)' => Reaches(u, r)'
        BY <1>0, <2>1, <2>3 DEF Entered, Reaches, Busy
    <3>5. Answer(r, "mail refused") => Reaches(u, r)'
        BY <1>0, <2>1, <2>3 DEF Answer, Reaches
    <3>6. QED  BY <3>3, <3>4, <3>5
  <2>4. QED  BY <2>2, <2>3
<1>4. CASE u \notin registered
  <2>1. registered' # registered
      BY <1>4
  <2>2. RegisterInsert(r)
      BY <1>0, <2>1, ArrivalFrame, ReadsFrame
         DEF Writes, Send, Create, PairUpdate, Signed, Reuse, RotateUpdate, RowRemove,
             CreateStoreOpen, SaveUserUpdate, SaveStoreUpdate, db
  <2>3. /\ job[r].kind = "register" /\ u = job[r].user
        /\ Goto(r, "mail")
      BY <1>0, <1>4, <2>2 DEF RegisterInsert, Stage
  <2>4. pc'[r] = "mail"
      BY <1>0, <2>3 DEF Goto, TypeOK
  <2>5. job'[r] = [kind |-> "register", user |-> u]
      BY <1>0, <2>3 DEF Job
  <2>6. QED  BY <2>4, <2>5 DEF Reaches, Busy
<1>5. QED  BY <1>2, <1>3, <1>4

(* Nobody is registered without a link to confirm the address with, unless  *)
(* the mail server refuses the mail: no login, refresh, ban or second       *)
(* registration of the address gets in the way of register, the mail        *)
(* service and sign-token.                                                  *)
THEOREM NobodyUnmailed == Spec => []RegisteredAreMailed
<1>1. Init => RegisteredAreMailed
    BY DEF Init, RegisteredAreMailed
<1>2. ASSUME CoreInv, Unmailed, Replied, RegisteredAreMailed, [Next]_vars
      PROVE  RegisteredAreMailed'
  <2>1. ASSUME NEW r \in Requests, Arrival(r) \/ Work(r) \/ Send(r)
        PROVE  RegisteredAreMailed'
    <3>1. \A u \in registered' : u \in mailed' \/ \E q \in Requests : Reaches(u, q)'
        BY <1>2, <2>1, Steps, ReachesStep, CoreNext DEF CoreInv
    <3>2. QED  BY <3>1 DEF RegisteredAreMailed, Reaches
  <2>2. CASE Tick \/ UNCHANGED vars
    <3>1. UNCHANGED <<registered, mailed, pc, job, reply>>
        BY <2>2 DEF Tick, vars, db, past
    <3>2. QED  BY <1>2, <3>1 DEF RegisteredAreMailed, Busy
  <2>3. CASE ManagerDies
    <3>1. /\ UNCHANGED <<registered, mailed, job>>
          /\ \A r \in Requests : Spared(r) \/ Killed(r)
        BY <1>2, <2>3, DeathParts DEF CoreInv
    <3>2. ASSUME NEW u, NEW r \in Requests, Reaches(u, r)
          PROVE  Reaches(u, r)'
      <4>0. job[r] = [kind |-> "register", user |-> u]
          BY <3>2 DEF Reaches
      <4>1. job[r].kind = "register"
          BY <4>0
      <4>2. Spared(r)
          BY <3>1, <4>1 DEF Killed, InManager
      <4>3. QED  BY <3>1, <3>2, <4>2 DEF Reaches, Spared, Busy
    <3>3. QED  BY <1>2, <3>1, <3>2 DEF RegisteredAreMailed, Reaches
  <2>4. QED  BY <1>2, <2>1, <2>2, <2>3 DEF Next
<1>3. QED
    BY <1>1, <1>2, CoreHolds, UnmailedInit, UnmailedNext, RepliedInit, RepliedNext, PTL DEF Spec

--------------------------------------------------------------------------------
(* Handlers that run one at a time *)

LEMMA Solo ==
    ASSUME CoreInv, Alone, NEW r \in Requests, Arrival(r) \/ Reads(r) \/ Writes(r), alone'
    PROVE  /\ alone /\ Frame(r) /\ Elsewhere(r)
           /\ \A p, q \in Busy' : p = q
           /\ \A q \in Requests : q # r => pc'[q] = pc[q] /\ pc[q] \in {"new", "done"}
<1>0. Frame(r) /\ Elsewhere(r)
    BY ArrivalFrame, ReadsFrame, WritesFrame DEF CoreInv
<1>1. alone /\ \A q \in Busy : q = r
  <2>1. CASE Arrival(r)
    <3>1. alone' = (alone /\ Busy = {})
        BY <2>1 DEF Arrival, RegisterFind, ValidateFind, LoginFind, RefreshFind, Admit, BanFind,
                    StoreFind, Arrives
    <3>2. QED  BY <3>1
  <2>2. CASE Reads(r) \/ Writes(r)
    <3>1. alone' = alone /\ r \in Busy
        BY <2>2, ReadsFrame, WritesFrame DEF CoreInv, Busy
    <3>2. QED  BY <3>1 DEF Alone
  <2>3. QED  BY <2>1, <2>2
<1>2. \A q \in Requests : q # r => pc'[q] = pc[q] /\ pc[q] \in {"new", "done"}
    BY <1>0, <1>1 DEF Frame, Busy
<1>3. \A q \in Busy' : q = r
    BY <1>2 DEF Busy
<1>4. QED  BY <1>0, <1>1, <1>2, <1>3

(* The steps that read or write no row of keys. *)
LEMMA PlainSteps ==
    ASSUME CoreInv, NEW r \in Requests, Arrival(r) \/ Reads(r) \/ Writes(r)
    PROVE  \/ Plain(r)
           \/ RefreshFind(r) \/ Sign(r) \/ Create(r) \/ PairFind(r) \/ PairSelect(r)
           \/ PairUpdate(r) \/ Reuse(r) \/ RotateSelect(r) \/ RotateUpdate(r)
           \/ RowFind(r) \/ RowRemove(r)
           \/ Signed(r) /\ job[r].kind = "refresh" /\ mem[r].pair # {}
<1>0. TypeOK /\ Stage(r)
    BY DEF CoreInv, Core
<1>1. CASE Arrival(r)
    BY <1>0, <1>1, RegisterFindPlain, ValidateFindPlain, LoginFindPlain, AdmitPlain, BanFindPlain,
       StoreFindPlain DEF Arrival
<1>2. CASE Reads(r)
    BY <1>0, <1>2, MailAsksTokenPlain, CreateStorePlain, SaveUserSelectPlain, SaveStorePlain
       DEF Reads
<1>3. CASE Writes(r)
    BY <1>0, <1>3, RegisterInsertPlain, SendPlain, CreateStorePlain, SaveUserUpdatePlain,
       SaveStorePlain, SignedPlain DEF Writes
<1>4. QED  BY <1>1, <1>2, <1>3

(* A row of keys that a save writes keeps its key. *)
LEMMA KeysWritten ==
    ASSUME CoreInv, NEW r \in Requests, NEW e \in KeyRow, RowUpdate(r, e), mem[r].found
    PROVE  /\ \A x \in rows' : \E y \in rows : x.key = y.key
           /\ \A k : Stored(k) => Stored(k)'
<1>1. rows' = Merged(r, e) /\ TypeOK
    BY DEF RowUpdate, CoreInv
<1>2. QED  BY <1>1, MergedRows DEF Stored

LEMMA KeysStep ==
    ASSUME CoreInv, Alone, NEW r \in Requests, Arrival(r) \/ Reads(r) \/ Writes(r), alone'
    PROVE  KeepsKeys(r)' /\ \A x \in rows' : x.key \notin removed'
<1>0. /\ TypeOK /\ Tables /\ Core(r) /\ Stage(r) /\ KeepsKeys(r) /\ job' = job
      /\ \A x \in rows : x.key \notin removed
      /\ mem[r] \in Memory
    BY Solo, MemoryFields DEF CoreInv, Core, Alone, Frame
<1>1. ASSUME UNCHANGED <<rows, removed>>,
             pc'[r] \notin {"pairSelect", "pairUpdate", "rotateUpdate"}, ~Rotating(r)'
      PROVE  KeepsKeys(r)' /\ \A x \in rows' : x.key \notin removed'
    BY <1>0, <1>1 DEF KeepsKeys, HasAgain
<1>2. CASE Plain(r)
    BY <1>1, <1>2 DEF Plain, Settles
<1>3. ASSUME NEW m, Answer(r, m)
      PROVE  KeepsKeys(r)'
    BY <1>0, <1>3, AnswerFrame DEF KeepsKeys, HasAgain, Rotating, Pairing
<1>4. CASE RefreshFind(r)
  <2>1. CASE \E m : Answer(r, m)
      BY <1>0, <1>3, <1>4, <2>1, ArrivalFrame DEF Arrival
  <2>2. CASE \E x \in RowsOf(job[r].user) : mem' = [mem EXCEPT ![r].row = x] /\ Goto(r, "reuse")
    <3>1. pc'[r] = "reuse" /\ UNCHANGED <<rows, removed>>
        BY <1>0, <1>4, <2>2 DEF RefreshFind, Goto, TypeOK, db
    <3>2. QED  BY <1>1, <3>1 DEF Rotating, Pairing
  <2>3. CASE \E x \in RowsOf(job[r].user) :
                mem' = [mem EXCEPT ![r].row = x, ![r].key = x.key] /\ Goto(r, "pair")
    <3>1. PICK x \in RowsOf(job[r].user) :
                mem' = [mem EXCEPT ![r].row = x, ![r].key = x.key] /\ Goto(r, "pair")
        BY <2>3
    <3>2. mem'[r] = [mem[r] EXCEPT !.row = x, !.key = x.key]
        BY <1>0, <3>1 DEF TypeOK
    <3>3. pc'[r] = "pair" /\ mem'[r].row = x /\ UNCHANGED <<rows, removed>> /\ x \in rows
        BY <1>0, <1>4, <3>1, <3>2 DEF RefreshFind, Goto, TypeOK, db, Memory, RowsOf
    <3>4. Stored(x.key)'
        BY <3>3 DEF Stored
    <3>5. QED  BY <1>0, <3>3, <3>4 DEF KeepsKeys, HasAgain
  <2>4. QED  BY <1>4, <2>1, <2>2, <2>3 DEF RefreshFind
<1>5. CASE Sign(r)
  <2>1. pc'[r] \in {"create", "pair"} /\ UNCHANGED <<rows, removed>>
        /\ job[r].kind \in {"register", "login"}
      BY <1>0, <1>5 DEF Sign, Goto, TypeOK, db, past, Stage
  <2>2. QED  BY <1>0, <1>1, <2>1 DEF Rotating
<1>6. CASE Create(r)
  <2>1. CASE Answer(r, "error") /\ UNCHANGED rows
      BY <1>0, <1>3, <1>6, <2>1 DEF Create, past
  <2>2. CASE rows' = rows \cup {NewRow(job[r].user, r)} /\ Goto(r, "pair")
    <3>1. /\ pc'[r] = "pair" /\ removed' = removed /\ NewRow(job[r].user, r).key = r
          /\ job[r].kind \in {"register", "login"} /\ pc[r] = "create"
        BY <1>0, <1>6, <2>2 DEF Create, Goto, TypeOK, past, NewRow, Stage
    <3>2. r \notin removed
        BY <1>0, <3>1 DEF Tables, Minted, Unsigned
    <3>3. \A x \in rows' : x.key \notin removed'
        BY <1>0, <2>2, <3>1, <3>2
    <3>4. QED  BY <1>0, <3>1, <3>3 DEF KeepsKeys, HasAgain, Rotating
  <2>3. QED  BY <1>6, <2>1, <2>2 DEF Create
<1>7. CASE PairFind(r)
  <2>0. UNCHANGED <<rows, removed>> /\ pc[r] = "pair"
      BY <1>7 DEF PairFind, db
  <2>1. CASE Goto(r, "signed") /\ mem' = mem
    <3>1. pc'[r] = "signed"
        BY <1>0, <2>1 DEF Goto, TypeOK
    <3>2. QED
        BY <1>0, <2>0, <2>1, <3>1 DEF KeepsKeys, HasAgain, Rotating, Pairing, Stored
  <2>2. CASE \E x \in RowsOf(job[r].user) :
                /\ \E t : mem' = [mem EXCEPT ![r].pair = {t}, ![r].again = x]
                /\ Goto(r, "pairSelect")
    <3>1. PICK x \in RowsOf(job[r].user) :
                /\ \E t : mem' = [mem EXCEPT ![r].pair = {t}, ![r].again = x]
                /\ Goto(r, "pairSelect")
        BY <2>2
    <3>2. PICK t : mem'[r] = [mem[r] EXCEPT !.pair = {t}, !.again = x]
        BY <1>0, <3>1 DEF TypeOK
    <3>3. /\ pc'[r] = "pairSelect" /\ mem'[r].again = x /\ mem'[r].row = mem[r].row
          /\ x \in rows
        BY <1>0, <3>1, <3>2 DEF Goto, TypeOK, Memory, RowsOf
    <3>4. QED
        BY <1>0, <2>0, <3>3 DEF KeepsKeys, HasAgain, Rotating, Pairing, Stored
  <2>3. QED  BY <1>7, <2>1, <2>2 DEF PairFind
<1>8. CASE PairSelect(r)
  <2>1. /\ UNCHANGED <<rows, removed>> /\ pc[r] = "pairSelect" /\ pc'[r] = "pairUpdate"
        /\ RowSelect(r, Paired(r))
      BY <1>0, <1>8 DEF PairSelect, Goto, TypeOK, db, past
  <2>2. /\ mem'[r].row = mem[r].row /\ mem'[r].again = mem[r].again
        /\ mem'[r].found = \E x \in rows : x.key = Paired(r).key
      BY <1>0, <2>1, PairedRow, RowSelected
  <2>3. Stored(mem[r].again.key) /\ Paired(r).key = mem[r].again.key
      BY <1>0, <2>1, PairedRow DEF KeepsKeys, HasAgain
  <2>4. QED
      BY <1>0, <2>1, <2>2, <2>3 DEF KeepsKeys, HasAgain, Rotating, Pairing, Stored
<1>9. CASE PairUpdate(r)
  <2>1. /\ pc[r] = "pairUpdate" /\ mem[r].found /\ pc'[r] = "signed" /\ removed' = removed
        /\ mem' = mem /\ RowUpdate(r, Paired(r))
      BY <1>0, <1>9 DEF PairUpdate, Goto, TypeOK, past, KeepsKeys, RowRefused
  <2>2. /\ \A x \in rows' : \E y \in rows : x.key = y.key
        /\ \A k : Stored(k) => Stored(k)'
      BY <1>0, <2>1, PairedRow, KeysWritten
  <2>3. QED
      BY <1>0, <2>1, <2>2 DEF KeepsKeys, HasAgain, Rotating, Pairing
<1>10. CASE Reuse(r) \/ RowRemove(r)
  <2>1. /\ rows' = {y \in rows : y.key # mem[r].row.key}
        /\ removed' = removed \cup {mem[r].row.key}
      BY <1>10 DEF Reuse, RowRemove, Remove
  <2>2. \A x \in rows' : x.key \notin removed'
      BY <1>0, <2>1
  <2>3. pc'[r] \in {"done", "openStore", "saveStore"}
      BY <1>0, <1>10 DEF Reuse, RowRemove, Answer, Goto, TypeOK
  <2>4. QED  BY <2>2, <2>3 DEF KeepsKeys, HasAgain, Rotating, Pairing
<1>11. CASE RotateSelect(r)
  <2>1. /\ UNCHANGED <<rows, removed>> /\ pc[r] = "rotate" /\ pc'[r] = "rotateUpdate"
        /\ RowSelect(r, Rotated(r)) /\ job[r].kind = "refresh"
      BY <1>0, <1>11 DEF RotateSelect, Goto, TypeOK, db, past, Stage
  <2>2. /\ mem'[r].row = mem[r].row
        /\ mem'[r].found = \E x \in rows : x.key = Rotated(r).key
      BY <1>0, <2>1, RotatedRow, RowSelected
  <2>3. Stored(mem[r].row.key) /\ Rotated(r).key = mem[r].row.key
      BY <1>0, <2>1, RotatedRow DEF KeepsKeys, Rotating
  <2>4. QED
      BY <1>0, <2>1, <2>2, <2>3 DEF KeepsKeys, HasAgain, Rotating, Pairing, Stored
<1>12. CASE RotateUpdate(r)
  <2>1. /\ pc[r] = "rotateUpdate" /\ mem[r].found /\ pc'[r] = "done" /\ removed' = removed
        /\ RowUpdate(r, Rotated(r))
      BY <1>0, <1>12 DEF RotateUpdate, Answer, Goto, TypeOK, past, KeepsKeys, RowRefused
  <2>2. \A x \in rows' : \E y \in rows : x.key = y.key
      BY <1>0, <2>1, RotatedRow, KeysWritten
  <2>3. QED
      BY <1>0, <2>1, <2>2 DEF KeepsKeys, HasAgain, Rotating, Pairing
<1>13. CASE RowFind(r)
  <2>1. pc'[r] \in {"done", "saveStore", "remove"} /\ UNCHANGED <<rows, removed>>
      BY <1>0, <1>13 DEF RowFind, Answer, Goto, TypeOK, db, past
  <2>2. QED  BY <1>1, <2>1 DEF Rotating, Pairing
<1>14. CASE Signed(r) /\ job[r].kind = "refresh" /\ mem[r].pair # {}
  <2>1. /\ UNCHANGED <<rows, removed, mem>> /\ pc[r] = "signed" /\ pc'[r] = "rotate"
      BY <1>0, <1>14 DEF Signed, Goto, TypeOK, db, past
  <2>2. QED  BY <1>0, <1>14, <2>1 DEF KeepsKeys, HasAgain, Rotating, Pairing, Stored
<1>15. QED
    BY <1>2, <1>4, <1>5, <1>6, <1>7, <1>8, <1>9, <1>10, <1>11, <1>12, <1>13, <1>14, PlainSteps

(* The steps of the auth service have no part in the stores. *)
Manager == {"findUser", "owners", "saveUser", "updateUser", "dropKey", "remove", "openStore",
            "banKey", "saveStore", "updateStore"}
Apart(r) == UNCHANGED <<user, store>> /\ pc[r] \notin Manager /\ pc'[r] \notin Manager

LEMMA AuthApart ==
    ASSUME CoreInv, NEW r \in Requests,
           \/ RegisterFind(r) \/ LoginFind(r) \/ RefreshFind(r)
           \/ RegisterInsert(r) \/ MailAsksToken(r) \/ Send(r) \/ Sign(r) \/ Create(r)
           \/ PairFind(r) \/ PairSelect(r) \/ PairUpdate(r) \/ Signed(r)
           \/ Reuse(r) \/ RotateSelect(r) \/ RotateUpdate(r)
    PROVE  Apart(r)
<1>0. pc \in [Requests -> Pcs]
    BY DEF CoreInv, TypeOK
<1>1. ASSUME NEW m, Answer(r, m)
      PROVE  pc'[r] = "done"
    BY <1>0, <1>1 DEF Answer, Goto
<1>2. ASSUME NEW l, Goto(r, l)
      PROVE  pc'[r] = l
    BY <1>0, <1>2 DEF Goto
<1>3. CASE RegisterFind(r) \/ LoginFind(r) \/ RefreshFind(r)
  <2>1. pc[r] = "new" /\ UNCHANGED <<user, store>>
      BY <1>3 DEF RegisterFind, LoginFind, RefreshFind, Arrives, db
  <2>2. pc'[r] \in {"done", "insert", "sign", "reuse", "pair"}
      BY <1>1, <1>2, <1>3 DEF RegisterFind, LoginFind, RefreshFind
  <2>3. QED  BY <2>1, <2>2 DEF Apart, Manager
<1>4. CASE RegisterInsert(r) \/ MailAsksToken(r) \/ Send(r) \/ Sign(r) \/ Create(r)
  <2>1. pc[r] \in {"insert", "mail", "send", "sign", "create"} /\ UNCHANGED <<user, store>>
      BY <1>4 DEF RegisterInsert, MailAsksToken, Send, Sign, Create, db
  <2>2. pc'[r] \in {"done", "mail", "sign", "create", "pair"}
      BY <1>1, <1>2, <1>4 DEF RegisterInsert, MailAsksToken, Send, Sign, Create
  <2>3. QED  BY <2>1, <2>2 DEF Apart, Manager
<1>5. CASE PairFind(r) \/ PairSelect(r) \/ PairUpdate(r) \/ Signed(r)
  <2>1. pc[r] \in {"pair", "pairSelect", "pairUpdate", "signed"} /\ UNCHANGED <<user, store>>
      BY <1>5 DEF PairFind, PairSelect, PairUpdate, Signed, db
  <2>2. pc'[r] \in {"done", "signed", "pairSelect", "pairUpdate", "send", "rotate"}
      BY <1>1, <1>2, <1>5 DEF PairFind, PairSelect, PairUpdate, Signed
  <2>3. QED  BY <2>1, <2>2 DEF Apart, Manager
<1>6. CASE Reuse(r) \/ RotateSelect(r) \/ RotateUpdate(r)
  <2>1. pc[r] \in {"reuse", "rotate", "rotateUpdate"} /\ UNCHANGED <<user, store>>
      BY <1>6 DEF Reuse, RotateSelect, RotateUpdate, db
  <2>2. pc'[r] \in {"done", "rotateUpdate"}
      BY <1>1, <1>2, <1>6 DEF Reuse, RotateSelect, RotateUpdate
  <2>3. QED  BY <2>1, <2>2 DEF Apart, Manager
<1>7. QED  BY <1>3, <1>4, <1>5, <1>6

LEMMA StepKinds ==
    ASSUME CoreInv, NEW r \in Requests, Arrival(r) \/ Reads(r) \/ Writes(r)
    PROVE  \/ Apart(r)
           \/ ValidateFind(r) \/ Admit(r) \/ BanFind(r) \/ StoreFind(r)
           \/ RowFind(r) \/ RowRemove(r)
           \/ CreateStoreFindUser(r) \/ CreateStoreOwners(r) \/ CreateStoreOpen(r)
           \/ SaveUserSelect(r) \/ SaveUserUpdate(r) \/ SaveStoreSelect(r) \/ SaveStoreUpdate(r)
    BY AuthApart DEF Arrival, Reads, Writes

(* A store once stored stays, and the handlers of a store know a status. *)
LEMMA ShopsStep ==
    ASSUME CoreInv, Shops, NEW r \in Requests, Arrival(r) \/ Reads(r) \/ Writes(r)
    PROVE  Shops'
<1>0. /\ TypeOK /\ Stage(r) /\ Frame(r) /\ Elsewhere(r) /\ job' = job /\ pc[r] \in Pcs
      /\ job[r].user \in Users /\ mem[r] \in Memory
    BY ArrivalFrame, ReadsFrame, WritesFrame, MemoryFields DEF CoreInv, Core, Frame
<1>1. ASSUME \A u \in Users : store[u] # "none" => store'[u] # "none",
             ForStore(r)' => store[job[r].user] # "none" /\ mem'[r].shop # "none"
      PROVE  Shops'
  <2>1. ASSUME NEW q \in Requests, q # r, ForStore(q)'
        PROVE  store'[job[q].user] # "none" /\ mem'[q].shop # "none"
    <3>1. pc'[q] = pc[q] /\ mem'[q] = mem[q] /\ ForStore(q) /\ job[q].user \in Users
        BY <1>0, <2>1, MemoryFields DEF Frame, ForStore
    <3>2. QED  BY <1>1, <3>1 DEF Shops
  <2>2. QED  BY <1>0, <1>1, <2>1 DEF Shops
<1>2. ASSUME NEW m, Answer(r, m)
      PROVE  pc'[r] = "done"
    BY <1>0, <1>2, AnswerFrame
<1>3. CASE Apart(r)
    BY <1>1, <1>3 DEF Apart, Manager, ForStore
<1>4. CASE ValidateFind(r) \/ Admit(r) \/ BanFind(r)
  <2>1. pc'[r] \in {"done", "saveUser", "logout", "findUser"}
      BY <1>0, <1>2, <1>4 DEF ValidateFind, Admit, BanFind, Goto, TypeOK
  <2>2. store' = store
      BY <1>4 DEF ValidateFind, Admit, BanFind, db
  <2>3. QED  BY <1>1, <2>1, <2>2 DEF ForStore
<1>5. CASE StoreFind(r)
  <2>1. store' = store
      BY <1>5 DEF StoreFind, db
  <2>2. pc'[r] # "done" => store[job[r].user] # "none" /\ mem'[r].shop # "none"
      BY <1>0, <1>5, StoreFindPlain
  <2>3. QED  BY <1>1, <2>1, <2>2 DEF ForStore
<1>6. CASE RowFind(r)
  <2>1. store' = store /\ pc[r] \in {"logout", "dropKey", "banKey"}
      BY <1>6 DEF RowFind, db
  <2>2. /\ pc'[r] \in {"done", "saveStore", "remove"}
        /\ pc'[r] = "saveStore" => pc[r] = "banKey"
      BY <1>0, <1>2, <1>6 DEF RowFind, Goto, TypeOK
  <2>3. pc'[r] # "done" => mem'[r].shop = mem[r].shop
    <3>1. CASE \E m : Answer(r, m)
        BY <1>2, <3>1
    <3>2. CASE mem' = mem
        BY <3>2
    <3>3. CASE \E x \in RowsOf(job[r].user) : mem' = [mem EXCEPT ![r].row = x]
      <4>1. PICK x : mem'[r] = [mem[r] EXCEPT !.row = x]
          BY <1>0, <3>3 DEF TypeOK
      <4>2. QED  BY <1>0, <4>1 DEF Memory
    <3>4. QED  BY <1>6, <3>1, <3>2, <3>3 DEF RowFind
  <2>4. ForStore(r)' => ForStore(r)
      BY <1>0, <2>1, <2>2 DEF ForStore, Stage
  <2>5. QED  BY <1>1, <2>1, <2>2, <2>3, <2>4 DEF ForStore, Shops
<1>7. CASE RowRemove(r)
  <2>1. /\ store' = store /\ pc[r] = "remove"
        /\ pc'[r] \in {"done", "openStore", "saveStore"}
        /\ pc'[r] = "saveStore" => mem' = mem /\ job[r].kind \notin {"logout", "createStore"}
    <3>1. store' = store /\ pc[r] = "remove"
        BY <1>7 DEF RowRemove
    <3>2. CASE \E m : Answer(r, m)
        BY <1>2, <3>1, <3>2
    <3>3. CASE /\ Goto(r, IF job[r].kind = "createStore" THEN "openStore" ELSE "saveStore")
               /\ mem' = mem /\ job[r].kind # "logout"
        BY <1>0, <3>1, <3>3 DEF Goto, TypeOK
    <3>4. QED  BY <1>7, <3>2, <3>3 DEF RowRemove
  <2>2. ForStore(r)' => ForStore(r) /\ mem' = mem
      BY <1>0, <2>1 DEF ForStore, Stage
  <2>3. QED  BY <1>1, <2>1, <2>2 DEF Shops
<1>8. CASE CreateStoreFindUser(r) \/ CreateStoreOwners(r) \/ SaveUserSelect(r)
  <2>1. store' = store
      BY <1>8 DEF CreateStoreFindUser, CreateStoreOwners, SaveUserSelect, db
  <2>2. pc'[r] \in {"done", "owners", "saveUser", "updateUser"}
      BY <1>0, <1>2, <1>8 DEF CreateStoreFindUser, CreateStoreOwners, SaveUserSelect, Goto, TypeOK
  <2>3. QED  BY <1>1, <2>1, <2>2 DEF ForStore
<1>9. CASE CreateStoreOpen(r) \/ SaveUserUpdate(r)
  <2>1. \A u \in Users : store[u] # "none" => store'[u] # "none"
      BY <1>0, <1>9 DEF CreateStoreOpen, SaveUserUpdate, TypeOK
  <2>2. pc'[r] \in {"done", "dropKey"}
      BY <1>0, <1>2, <1>9 DEF CreateStoreOpen, SaveUserUpdate, Goto, TypeOK
  <2>3. QED  BY <1>1, <2>1, <2>2 DEF ForStore
<1>10. CASE SaveStoreSelect(r)
  <2>1. store' = store /\ pc[r] = "saveStore"
      BY <1>10 DEF SaveStoreSelect, db
  <2>2. PICK d : mem'[r] = [mem[r] EXCEPT !.dirty = d]
      BY <1>0, <1>10 DEF SaveStoreSelect, TypeOK
  <2>3. mem'[r].shop = mem[r].shop
      BY <1>0, <2>2 DEF Memory
  <2>4. QED  BY <1>1, <2>1, <2>3 DEF ForStore, Shops
<1>11. CASE SaveStoreUpdate(r)
  <2>1. pc[r] = "updateStore" /\ pc'[r] = "done"
      BY <1>2, <1>11 DEF SaveStoreUpdate
  <2>2. mem[r].shop # "none"
      BY <2>1 DEF Shops, ForStore
  <2>3. \A u \in Users : store[u] # "none" => store'[u] # "none"
      BY <1>0, <1>11, <2>2 DEF SaveStoreUpdate, TypeOK
  <2>4. QED  BY <1>1, <2>1, <2>3 DEF ForStore
<1>12. QED
    BY <1>3, <1>4, <1>5, <1>6, <1>7, <1>8, <1>9, <1>10, <1>11, StepKinds

(* What the UPDATE of the user leaves, when the handler runs alone. *)
LEMMA UserSaved ==
    ASSUME CoreInv, NEW r \in Requests, SaveUserUpdate(r), KeepsUser(r)
    PROVE  /\ \A c \in Flags : user'[job[r].user][c] = mem[r].usr[c]
           /\ \A u \in Users : u # job[r].user => user'[u] = user[u]
           /\ Saves(r) /\ pc[r] = "updateUser"
<1>1. UserUpdate(r) /\ pc[r] = "updateUser" /\ TypeOK
    BY DEF SaveUserUpdate, CoreInv
<1>2. Saves(r)
    BY <1>1 DEF KeepsUser
<1>3. /\ \A u \in Users : u # job[r].user => user'[u] = user[u]
      /\ \A c \in Flags : user'[job[r].user][c] =
            IF c \in mem[r].dirty THEN mem[r].usr[c] ELSE user[job[r].user][c]
    BY <1>1, UserUpdateType
<1>4. \A c \in Flags \ mem[r].dirty : mem[r].usr[c] = user[job[r].user][c]
    BY <1>2 DEF Saves
<1>5. QED  BY <1>1, <1>2, <1>3, <1>4

(* The object that a handler alone saves differs from the stored row as its  *)
(* message says.                                                            *)
LEMMA UserChanged ==
    ASSUME CoreInv, NEW r \in Requests, SaveUserSelect(r), KeepsUser(r)
    PROVE  Saves(r)'
<1>1. /\ TypeOK /\ Stage(r) /\ mem[r].usr \in UserRow /\ mem[r].usr = user[job[r].user]
      /\ job' = job /\ user' = user
    BY MemoryFields DEF CoreInv, Core, SaveUserSelect, KeepsUser, db
<1>2. /\ mem'[r].usr = Changed(r)
      /\ mem'[r].dirty = {c \in Flags : Changed(r)[c] # user[job[r].user][c]}
    BY <1>1, SaveUserSelectPlain
<1>3. /\ Changed(r).isEmailValidated =
            (mem[r].usr.isEmailValidated \/ job[r].kind = "validate")
      /\ Changed(r).isActive =
            ((mem[r].usr.isActive \/ job[r].kind = "unBanUser") /\ job[r].kind # "banUser")
      /\ Changed(r).role = IF job[r].kind = "createStore" THEN "SELLER" ELSE mem[r].usr.role
    BY <1>1 DEF Changed, UserRow
<1>4. \A c \in Flags \ mem'[r].dirty : mem'[r].usr[c] = user'[job'[r].user][c]
    BY <1>1, <1>2
<1>5. (mem'[r].usr.role = "SELLER") =
          (user'[job'[r].user].role = "SELLER" \/ job'[r].kind = "createStore")
    BY <1>1, <1>2, <1>3
<1>6. user'[job'[r].user].isEmailValidated => mem'[r].usr.isEmailValidated
    BY <1>1, <1>2, <1>3
<1>7. user'[job'[r].user].isActive # mem'[r].usr.isActive =>
          job'[r].kind = IF mem'[r].usr.isActive THEN "unBanUser" ELSE "banUser"
  <2>1. mem[r].usr.isActive \in BOOLEAN
      BY <1>1 DEF UserRow
  <2>2. QED  BY <1>1, <1>2, <1>3, <2>1
<1>8. QED  BY <1>4, <1>5, <1>6, <1>7 DEF Saves

LEMMA StoresStep ==
    ASSUME CoreInv, Shops, Replied, Alone, NEW r \in Requests,
           Arrival(r) \/ Reads(r) \/ Writes(r), alone'
    PROVE  KeepsUser(r)' /\ KeepsShop(r)' /\ \A u \in Users : Sells(u)'
<1>00. \A q \in Requests : Failed(q) => Failed(q)'
  <2>1. job' = job /\ \A q \in Requests : reply[q] # "none" => reply'[q] = reply[q]
      BY Solo, RepliedStep DEF Frame
  <2>2. QED  BY <2>1 DEF Failed
<1>0. /\ TypeOK /\ Stage(r) /\ Frame(r) /\ job' = job /\ alone
      /\ KeepsUser(r) /\ KeepsShop(r) /\ \A u \in Users : Sells(u)
      /\ job[r].user \in Users /\ mem[r] \in Memory /\ pc[r] \in Pcs
      /\ user[job[r].user] \in UserRow
    BY Solo, MemoryFields DEF CoreInv, Core, Frame, Alone, TypeOK
<1>1. ASSUME NEW m, Answer(r, m)
      PROVE  pc'[r] = "done" /\ KeepsUser(r)' /\ KeepsShop(r)' /\ ~Opening(r)'
  <2>1. pc'[r] = "done"
      BY <1>0, <1>1, AnswerFrame
  <2>2. QED  BY <2>1 DEF KeepsUser, KeepsShop, Opening
<1>2. ASSUME NEW l, Goto(r, l)
      PROVE  pc'[r] = l
    BY <1>0, <1>2 DEF Goto, TypeOK
<1>3. ASSUME UNCHANGED <<user, store>>, Opening(r) => Opening(r)'
      PROVE  \A u \in Users : Sells(u)'
  <2>1. \A q \in Requests : Opening(q) => Opening(q)'
      BY <1>0, <1>3 DEF Frame, Opening
  <2>2. QED  BY <1>0, <1>00, <1>3, <2>1 DEF Sells
<1>4. CASE Apart(r)
  <2>1. ~Opening(r) /\ UNCHANGED <<user, store>>
      BY <1>4 DEF Apart, Manager, Opening
  <2>2. KeepsUser(r)' /\ KeepsShop(r)'
      BY <1>4 DEF Apart, Manager, KeepsUser, KeepsShop, Opening
  <2>3. QED  BY <1>3, <2>1, <2>2
<1>5. CASE ValidateFind(r) \/ BanFind(r)
  <2>1. /\ pc[r] = "new" /\ job[r].kind \in {"validate", "banUser", "unBanUser"}
        /\ UNCHANGED <<user, store>>
      BY <1>5 DEF ValidateFind, BanFind, Arrives, db
  <2>2. \A u \in Users : Sells(u)'
      BY <1>3, <2>1 DEF Opening
  <2>3. CASE \E m : Answer(r, m)
      BY <1>1, <2>2, <2>3
  <2>4. CASE mem' = [mem EXCEPT ![r].usr = user[job[r].user]] /\ Goto(r, "saveUser")
    <3>1. mem'[r].usr = user[job[r].user] /\ pc'[r] = "saveUser"
        BY <1>0, <1>2, <2>4, ReadsUser
    <3>2. QED  BY <1>0, <2>1, <2>2, <3>1 DEF KeepsUser, KeepsShop, Opening
  <2>5. QED  BY <1>5, <2>3, <2>4 DEF ValidateFind, BanFind
<1>6. CASE Admit(r)
  <2>1. pc[r] = "new" /\ UNCHANGED <<user, store, rows>>
      BY <1>6 DEF Admit, Arrives, db
  <2>2. \A u \in Users : Sells(u)'
      BY <1>3, <2>1 DEF Opening
  <2>3. CASE \E m : Answer(r, m)
      BY <1>1, <2>2, <2>3
  <2>4. CASE /\ RowsOf(job[r].user) # {}
             /\ Goto(r, IF job[r].kind = "logout" THEN "logout" ELSE "findUser")
    <3>1. pc'[r] \in {"logout", "findUser"}
        BY <1>2, <2>4
    <3>2. QED
        BY <1>0, <2>1, <2>2, <2>4, <3>1 DEF KeepsUser, KeepsShop, Opening, RowsOf
  <2>5. QED  BY <1>6, <2>3, <2>4 DEF Admit
<1>7. CASE StoreFind(r)
  <2>1. pc[r] = "new" /\ UNCHANGED <<user, store>>
      BY <1>7 DEF StoreFind, Arrives, db
  <2>2. pc'[r] \in {"done", "banKey", "saveStore"}
      BY <1>0, <1>7, StoreFindPlain
  <2>3. QED
      BY <1>3, <2>1, <2>2 DEF KeepsUser, KeepsShop, Opening
<1>8. CASE RowFind(r)
  <2>1. pc[r] \in {"logout", "dropKey", "banKey"} /\ UNCHANGED <<user, store, rows>>
      BY <1>8 DEF RowFind, db
  <2>2. pc'[r] \in {"done", "saveStore", "remove"}
        /\ (pc[r] = "dropKey" /\ RowsOf(job[r].user) # {} => pc'[r] = "remove")
      BY <1>1, <1>2, <1>8 DEF RowFind
  <2>3. Opening(r) = (pc[r] = "dropKey")
      BY <1>0, <2>1 DEF Opening, Stage
  <2>4. Opening(r) => Opening(r)'
      BY <1>0, <2>2, <2>3 DEF KeepsShop, Opening
  <2>5. Opening(r)' => Opening(r)
      BY <1>0, <2>1, <2>2 DEF Opening, Stage
  <2>6. KeepsUser(r)' /\ KeepsShop(r)'
      BY <1>0, <2>1, <2>2, <2>5 DEF KeepsUser, KeepsShop
  <2>7. QED  BY <1>3, <2>1, <2>4, <2>6
<1>9. CASE RowRemove(r)
  <2>1. pc[r] = "remove" /\ UNCHANGED <<user, store>>
      BY <1>9 DEF RowRemove
  <2>2. /\ pc'[r] \in {"done", "openStore", "saveStore"}
        /\ (job[r].kind = "createStore") = (pc'[r] = "openStore")
      BY <1>1, <1>2, <1>9 DEF RowRemove
  <2>3. Opening(r)' = Opening(r)
      BY <1>0, <2>1, <2>2 DEF Opening
  <2>4. KeepsUser(r)' /\ KeepsShop(r)'
      BY <1>0, <2>1, <2>2, <2>3 DEF KeepsUser, KeepsShop
  <2>5. QED  BY <1>3, <2>1, <2>3, <2>4
<1>10. CASE CreateStoreFindUser(r)
  <2>1. /\ pc[r] = "findUser" /\ pc'[r] = "owners" /\ UNCHANGED <<user, store, rows>>
        /\ mem'[r].usr = user[job[r].user]
      BY <1>0, <1>2, <1>10, ReadsUser DEF CreateStoreFindUser, db
  <2>2. KeepsUser(r)' /\ KeepsShop(r)'
      BY <1>0, <2>1 DEF KeepsUser, KeepsShop, Opening, RowsOf
  <2>3. QED  BY <1>3, <2>1, <2>2 DEF Opening
<1>11. CASE CreateStoreOwners(r)
  <2>1. pc[r] = "owners" /\ UNCHANGED <<user, store, rows>>
      BY <1>11 DEF CreateStoreOwners, db
  <2>2. \A u \in Users : Sells(u)'
      BY <1>3, <2>1 DEF Opening
  <2>3. CASE \E m : Answer(r, m)
      BY <1>1, <2>2, <2>3
  <2>4. CASE store[job[r].user] = "none" /\ Goto(r, "saveUser") /\ mem' = mem
    <3>1. pc'[r] = "saveUser"
        BY <1>2, <2>4
    <3>2. KeepsUser(r)' /\ KeepsShop(r)'
        BY <1>0, <2>1, <2>4, <3>1 DEF KeepsUser, KeepsShop, Opening, RowsOf
    <3>3. QED  BY <2>2, <3>2
  <2>5. QED  BY <1>11, <2>3, <2>4 DEF CreateStoreOwners
<1>12. CASE CreateStoreOpen(r)
  <2>1. /\ Opening(r) /\ user' = user /\ pc'[r] = "done"
        /\ KeepsUser(r)' /\ KeepsShop(r)'
      BY <1>0, <1>1, <1>12 DEF CreateStoreOpen, Opening, Stage
  <2>2. store[job[r].user] = "none" /\ user[job[r].user].role = "SELLER"
      BY <1>0, <2>1 DEF KeepsShop
  <2>3. \/ Failed(r)' /\ store' = store
        \/ store' = [store EXCEPT ![job[r].user] = "active"]
    <3>1. CASE Answer(r, "error") /\ store' = store
        BY <1>0, <2>1, <3>1, AnswerFrame DEF Replied, Failed, Opening
    <3>2. QED  BY <1>12, <3>1 DEF CreateStoreOpen
  <2>4. ASSUME NEW u \in Users
        PROVE  Sells(u)'
    <3>1. CASE u = job[r].user
      <4>1. CASE Failed(r)' /\ store' = store
          BY <1>0, <2>1, <2>2, <3>1, <4>1 DEF Sells
      <4>2. CASE store' = [store EXCEPT ![job[r].user] = "active"]
          BY <1>0, <2>1, <2>2, <3>1, <4>2 DEF Sells, TypeOK
      <4>3. QED  BY <2>3, <4>1, <4>2
    <3>2. CASE u # job[r].user
      <4>1. store'[u] = store[u]
          BY <1>0, <2>3, <3>2 DEF TypeOK
      <4>2. \A q \in Requests : Opening(q) /\ job[q].user = u => Opening(q)'
          BY <1>0, <3>2 DEF Frame, Opening
      <4>3. QED  BY <1>0, <1>00, <2>1, <4>1, <4>2 DEF Sells
    <3>3. QED  BY <3>1, <3>2
  <2>5. QED  BY <2>1, <2>4
<1>13. CASE SaveUserSelect(r)
  <2>1. pc[r] = "saveUser" /\ pc'[r] = "updateUser" /\ UNCHANGED <<user, store, rows>>
      BY <1>2, <1>13 DEF SaveUserSelect, db
  <2>2. Saves(r)'
      BY <1>0, <1>13, UserChanged
  <2>3. KeepsUser(r)' /\ KeepsShop(r)'
      BY <1>0, <2>1, <2>2 DEF KeepsUser, KeepsShop, Opening, RowsOf
  <2>4. QED  BY <1>3, <2>1, <2>3 DEF Opening
<1>14. CASE SaveUserUpdate(r)
  <2>1. /\ \A c \in Flags : user'[job[r].user][c] = mem[r].usr[c]
        /\ \A u \in Users : u # job[r].user => user'[u] = user[u]
        /\ Saves(r) /\ pc[r] = "updateUser"
      BY <1>0, <1>14, UserSaved
  <2>2. user'[job[r].user]["role"] = mem[r].usr["role"]
    <3>1. "role" \in Flags
        BY DEF Flags
    <3>2. QED  BY <2>1, <3>1
  <2>3. UNCHANGED <<store, rows>>
      BY <1>14 DEF SaveUserUpdate
  <2>4. /\ job[r].kind = "createStore" => pc'[r] = "dropKey"
        /\ job[r].kind # "createStore" => pc'[r] = "done"
      BY <1>1, <1>2, <1>14 DEF SaveUserUpdate
  <2>5. /\ (user'[job[r].user].role = "SELLER") =
              (user[job[r].user].role = "SELLER" \/ job[r].kind = "createStore")
        /\ Opening(r)' = (job[r].kind = "createStore")
      BY <1>0, <2>1, <2>2, <2>4 DEF Saves, Opening
  <2>6. KeepsUser(r)' /\ KeepsShop(r)'
      BY <1>0, <2>1, <2>3, <2>4, <2>5 DEF KeepsUser, KeepsShop, Opening, RowsOf
  <2>7. \A q \in Requests : Opening(q) => Opening(q)'
      BY <1>0, <2>1 DEF Frame, Opening
  <2>8. ASSUME NEW u \in Users
        PROVE  Sells(u)'
      BY <1>0, <1>00, <2>1, <2>3, <2>5, <2>7 DEF Sells
  <2>9. QED  BY <2>6, <2>8
<1>15. CASE SaveStoreSelect(r)
  <2>1. pc[r] = "saveStore" /\ pc'[r] = "updateStore" /\ UNCHANGED <<user, store>>
      BY <1>2, <1>15 DEF SaveStoreSelect, db
  <2>2. QED
      BY <1>3, <2>1 DEF KeepsUser, KeepsShop, Opening
<1>16. CASE SaveStoreUpdate(r)
  <2>1. /\ pc[r] = "updateStore" /\ user' = user /\ pc'[r] = "done"
        /\ KeepsUser(r)' /\ KeepsShop(r)'
      BY <1>1, <1>16 DEF SaveStoreUpdate
  <2>2. mem[r].shop # "none" /\ store[job[r].user] # "none"
      BY <2>1 DEF Shops, ForStore
  <2>3. \A u \in Users : (store'[u] # "none") = (store[u] # "none")
      BY <1>0, <1>16, <2>2 DEF SaveStoreUpdate, TypeOK
  <2>4. \A q \in Requests : Opening(q) => Opening(q)'
      BY <1>0, <2>1 DEF Frame, Opening
  <2>5. \A u \in Users : Sells(u)'
      BY <1>0, <1>00, <2>1, <2>3, <2>4 DEF Sells
  <2>6. QED  BY <2>1, <2>5
<1>17. QED
    BY <1>4, <1>5, <1>6, <1>7, <1>8, <1>9, <1>10, <1>11, <1>12, <1>13, <1>14, <1>15, <1>16,
       StepKinds

SerialInv == CoreInv /\ Shops /\ Replied /\ Alone

LEMMA SerialStep ==
    ASSUME SerialInv, NEW r \in Requests, Arrival(r) \/ Reads(r) \/ Writes(r)
    PROVE  Shops' /\ Alone'
<1>1. Shops'
    BY ShopsStep DEF SerialInv
<1>2. ASSUME alone'
      PROVE  /\ \A p, q \in Busy' : p = q
             /\ \A q \in Requests : KeepsKeys(q)' /\ KeepsUser(q)' /\ KeepsShop(q)'
             /\ \A x \in rows' : x.key \notin removed'
             /\ \A u \in Users : Sells(u)'
  <2>1. /\ \A p, q \in Busy' : p = q
        /\ \A q \in Requests : q # r => pc'[q] = pc[q] /\ pc[q] \in {"new", "done"}
      BY <1>2, Solo DEF SerialInv
  <2>2. KeepsKeys(r)' /\ \A x \in rows' : x.key \notin removed'
      BY <1>2, KeysStep DEF SerialInv
  <2>3. KeepsUser(r)' /\ KeepsShop(r)' /\ \A u \in Users : Sells(u)'
      BY <1>2, StoresStep DEF SerialInv
  <2>4. ASSUME NEW q \in Requests, q # r
        PROVE  KeepsKeys(q)' /\ KeepsUser(q)' /\ KeepsShop(q)'
    <3>1. pc'[q] \in {"new", "done"}
        BY <2>1, <2>4
    <3>2. QED
        BY <3>1 DEF KeepsKeys, KeepsUser, KeepsShop, HasAgain, Rotating, Pairing, Opening
  <2>5. QED  BY <2>1, <2>2, <2>3, <2>4
<1>3. QED  BY <1>1, <1>2 DEF Alone

(* What the death of the manager leaves of a handler that ran alone: the    *)
(* tables as they were, and a createStore that ended without a store.       *)
LEMMA SerialDeath == ASSUME SerialInv, ManagerDies PROVE Shops' /\ Alone'
<1>0. /\ UNCHANGED <<user, rows, store, job, removed, alone>>
      /\ \A r \in Requests : Spared(r) \/ Killed(r)
    BY DeathParts DEF SerialInv, CoreInv
<1>1. Shops'
    BY <1>0 DEF SerialInv, Shops, ForStore, Spared, Killed
<1>2. ASSUME NEW r \in Requests, KeepsKeys(r), KeepsUser(r), KeepsShop(r)
      PROVE  KeepsKeys(r)' /\ KeepsUser(r)' /\ KeepsShop(r)'
  <2>1. CASE Killed(r)
      BY <2>1 DEF Killed, KeepsKeys, KeepsUser, KeepsShop, HasAgain, Rotating, Pairing, Opening
  <2>2. CASE Spared(r)
      BY <1>0, <1>2, <2>2 DEF Spared, KeepsKeys, KeepsUser, KeepsShop, HasAgain, Rotating, Stored,
                              Saves, Opening, RowsOf
  <2>3. QED  BY <1>0, <2>1, <2>2
<1>3. ASSUME NEW r \in Requests, Opening(r) \/ Failed(r)
      PROVE  Opening(r)' \/ Failed(r)'
    BY <1>0, <1>3 DEF Opening, Failed, Spared, Killed
<1>4. ASSUME NEW u \in Users, Sells(u)
      PROVE  Sells(u)'
    BY <1>0, <1>3, <1>4 DEF Sells
<1>5. \A p, q \in Requests : p \in Busy' => p \in Busy
    BY <1>0 DEF Busy, Spared, Killed
<1>6. Busy' \subseteq Busy
    BY <1>5 DEF Busy
<1>7. QED  BY <1>0, <1>1, <1>2, <1>4, <1>6 DEF SerialInv, Alone

LEMMA SerialNext == ASSUME SerialInv, [Next]_vars PROVE SerialInv'
<1>1. CoreInv' /\ Replied'
    BY CoreNext, RepliedNext DEF SerialInv
<1>2. ASSUME NEW r \in Requests, Arrival(r) \/ Work(r) \/ Send(r)
      PROVE  Shops' /\ Alone'
    BY <1>2, Steps, SerialStep
<1>3. CASE Tick \/ UNCHANGED vars
  <2>1. UNCHANGED <<registered, user, rows, store, pc, job, mem, reply, removed, alone>>
      BY <1>3 DEF Tick, vars, db, past
  <2>2. ASSUME NEW r \in Requests
        PROVE  /\ KeepsKeys(r)' = KeepsKeys(r) /\ KeepsUser(r)' = KeepsUser(r)
               /\ KeepsShop(r)' = KeepsShop(r) /\ Opening(r)' = Opening(r)
               /\ Failed(r)' = Failed(r)
      BY <2>1 DEF KeepsKeys, KeepsUser, KeepsShop, HasAgain, Rotating, Stored, Saves, Opening,
                  Failed, RowsOf
  <2>3. \A u \in Users : Sells(u)' = Sells(u)
      BY <2>1, <2>2 DEF Sells
  <2>4. Shops'
      BY <2>1 DEF SerialInv, Shops, ForStore
  <2>5. Alone'
      BY <2>1, <2>2, <2>3 DEF SerialInv, Alone, Busy
  <2>6. QED  BY <1>1, <2>4, <2>5 DEF SerialInv
<1>4. CASE ManagerDies
    BY <1>1, <1>4, SerialDeath DEF SerialInv
<1>5. QED  BY <1>1, <1>2, <1>3, <1>4 DEF Next, SerialInv

LEMMA SerialInit == Init => SerialInv
<1> SUFFICES ASSUME Init PROVE SerialInv
    OBVIOUS
<1>1. \A r \in Requests : pc[r] = "new"
    BY DEF Init
<1>2. Shops /\ \A r \in Requests : KeepsKeys(r) /\ KeepsUser(r) /\ KeepsShop(r)
    BY <1>1 DEF Shops, ForStore, KeepsKeys, KeepsUser, KeepsShop, HasAgain, Rotating, Pairing,
                Opening
<1>3. \A u \in Users : Sells(u)
    BY DEF Init, Sells, NewUser
<1>4. QED  BY <1>1, <1>2, <1>3, InitCore, RepliedInit DEF Init, SerialInv, Alone, Busy

LEMMA SerialHolds == Spec => []SerialInv
    BY SerialInit, SerialNext, PTL DEF Spec

(* While handlers run one at a time, no key whose row log-out, a ban, a     *)
(* reused token or the opening of a store removed is stored again: every    *)
(* save of a row finds the row it read.                                     *)
THEOREM RevokedForGood == Spec => []RevokedStaysRevoked
<1>1. SerialInv => RevokedStaysRevoked
    BY DEF SerialInv, Alone, RevokedStaysRevoked
<1>2. QED  BY <1>1, SerialHolds, PTL

(* While handlers run one at a time, a store belongs to a SELLER, and a     *)
(* SELLER without a store is the work of a createStore that has not ended,  *)
(* was refused or died with the manager: the role and the store are two     *)
(* saves, with the log-out of the seller between them.                      *)
THEOREM SellersHaveStores == Spec => []StoreOwnersSell
<1>1. ASSUME SerialInv, alone, NEW u \in Users
      PROVE  /\ store[u] # "none" => user[u].role = "SELLER"
             /\ user[u].role = "SELLER" /\ store[u] = "none" =>
                   \E r \in Requests :
                       /\ job[r] = [kind |-> "createStore", user |-> u]
                       /\ \/ pc[r] \in {"dropKey", "remove", "openStore"}
                          \/ reply[r] \in {"error", "lost"}
  <2>1. Sells(u)
      BY <1>1 DEF SerialInv, Alone
  <2>2. \A r \in Requests : job[r] \in Job
      BY <1>1 DEF SerialInv, CoreInv, TypeOK
  <2>3. ASSUME NEW r \in Requests, Opening(r) \/ Failed(r), job[r].user = u
        PROVE  job[r] = [kind |-> "createStore", user |-> u]
      BY <2>2, <2>3 DEF Opening, Failed, Job
  <2>4. QED  BY <2>1, <2>3 DEF Sells, Opening, Failed
<1>2. SerialInv => StoreOwnersSell
    BY <1>1 DEF StoreOwnersSell
<1>3. QED  BY <1>2, SerialHolds, PTL

(* While handlers run one at a time, the save of a whole user changes only  *)
(* the column its message is about: a confirmed address and the SELLER role *)
(* are kept, and isActive changes only by a ban or its end.                 *)
THEOREM OnlyBansFlip == Spec => FlagsKept
<1>1. ASSUME SerialInv, NEW r \in Requests, Arrival(r) \/ Reads(r) \/ Writes(r), alone',
             NEW u \in Users
      PROVE  /\ user[u].isEmailValidated => user'[u].isEmailValidated
             /\ user[u].role = "SELLER" => user'[u].role = "SELLER"
             /\ user[u].isActive # user'[u].isActive =>
                   \E q \in Requests : /\ pc[q] = "updateUser"
                                       /\ job[q].kind = IF user'[u].isActive THEN "unBanUser"
                                                        ELSE "banUser"
  <2>1. CASE user' = user
      BY <2>1
  <2>2. CASE user' # user
    <3>1. SaveUserUpdate(r)
        BY <1>1, <2>2, ArrivalFrame, ReadsFrame
           DEF SerialInv, CoreInv, Writes, RegisterInsert, Send, Create, PairUpdate, Signed, Reuse,
               RotateUpdate, RowRemove, CreateStoreOpen, SaveStoreUpdate, db
    <3>2. KeepsUser(r)
        BY <1>1, Solo DEF SerialInv, Alone
    <3>3. /\ \A c \in Flags : user'[job[r].user][c] = mem[r].usr[c]
          /\ \A v \in Users : v # job[r].user => user'[v] = user[v]
          /\ Saves(r) /\ pc[r] = "updateUser"
        BY <1>1, <3>1, <3>2, UserSaved DEF SerialInv
    <3>4. /\ user'[job[r].user]["role"] = mem[r].usr["role"]
          /\ user'[job[r].user]["isActive"] = mem[r].usr["isActive"]
          /\ user'[job[r].user]["isEmailValidated"] = mem[r].usr["isEmailValidated"]
      <4>1. {"role", "isActive", "isEmailValidated"} \subseteq Flags
          BY DEF Flags
      <4>2. QED  BY <3>3, <4>1
    <3>5. CASE u = job[r].user
        BY <3>3, <3>4, <3>5 DEF Saves
    <3>6. QED  BY <3>3, <3>5
  <2>3. QED  BY <2>1, <2>2
<1>2. ASSUME SerialInv, [Next]_vars
      PROVE  [alone' => \A u \in Users :
                 /\ user[u].isEmailValidated => user'[u].isEmailValidated
                 /\ user[u].role = "SELLER" => user'[u].role = "SELLER"
                 /\ user[u].isActive # user'[u].isActive =>
                       \E r \in Requests : /\ pc[r] = "updateUser"
                                           /\ job[r].kind = IF user'[u].isActive THEN "unBanUser"
                                                            ELSE "banUser"]_vars
  <2>1. CASE \E r \in Requests : Arrival(r) \/ Work(r) \/ Send(r)
      BY <1>1, <1>2, <2>1, Steps
  <2>2. CASE Tick \/ ManagerDies
      BY <2>2 DEF Tick, ManagerDies, db
  <2>3. QED  BY <1>2, <2>1, <2>2 DEF Next
<1>3. QED  BY <1>2, SerialHolds, PTL DEF Spec, FlagsKept
================================================================================
