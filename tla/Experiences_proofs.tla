--------------------------- MODULE Experiences_proofs --------------------------
(****************************************************************************)
(* What users write shows in every listing once an entry has expired, for   *)
(* any users, titles, searches, messages and time to live: the inductive    *)
(* invariant says of every answer, of every entry in Redis and of every     *)
(* result on its way there which writings it must show.                     *)
(* And votes toggle: on a post that no two votes cross, a handler's copy of *)
(* the votes is still the row when it is written back.                      *)
(****************************************************************************)
EXTENDS Experiences, FiniteSetTheorems, TLAPS

Written == [posts |-> posts, comments |-> comments, stored |-> stored, job |-> job]

(* The findings F show what was written into the tables T before lo. *)
Shown(T, F, lo) ==
    \A f \in F : f.val # Failed =>
        /\ \A p \in T.posts :
               T.job[p].title \in Matches[f.query] /\ T.stored[p] < lo
               => \E x \in f.val : x.post = p
        /\ \A c \in T.comments : \A x \in f.val :
               x.post = T.job[c].of /\ T.stored[c] < lo => c \in x.comments

(* The tables hold rows. *)
Tables ==
    /\ posts \subseteq Writes /\ comments \subseteq Writes
    /\ upVote \in [Writes -> SUBSET Users]
    /\ job \in [Writes -> Job]
    /\ mem \in [Writes -> [read : SUBSET Users, save : BOOLEAN]]

Types ==
    /\ posts \subseteq Writes /\ comments \subseteq Writes
    /\ stored \in [Writes -> Nat]
    /\ now \in Nat /\ slowest \in Nat
    /\ pc \in [Requests -> {"new", "query", "put", "done", "error", "lost"}]
    /\ asked \in [Requests -> Queries]
    /\ since \in [Requests -> Nat]
    /\ found \in [Requests -> SUBSET L!Finding]
    /\ cache \subseteq L!Entry
    /\ \A r \in Requests : pc[r] = "new" => found[r] = {}

(* On its way: what was written before the handler began to query. *)
WorkShows == \A r \in Requests : pc[r] \in {"query", "put"} =>
                 since[r] <= now /\ Shown(Written, found[r], since[r])

(* In Redis: what was written before the entry was stored, but for the      *)
(* longest time a handler took.                                             *)
CacheShows == \A e \in cache :
                  /\ now < e.till /\ e.till <= now + TTL
                  /\ Shown(Written, e.found, e.till - TTL - slowest)

AnswersShow == \A r \in Requests : pc[r] = "done" =>
                   /\ since[r] <= now
                   /\ Shown(Written, found[r], since[r] - TTL - slowest)

(* Each listing is found under its own key. *)
Keyed == /\ \A r \in Requests : \A f \in found[r] : f.query = asked[r]
         /\ \A e \in cache : \A f \in e.found : f.query = e.key

ShowInv == Types /\ WorkShows /\ CacheShows /\ AnswersShow /\ Keyed

--------------------------------------------------------------------------------
LEMMA TruthIsRows == ASSUME Tables PROVE Truth \in [Queries -> SUBSET Row]
<1>1. \A p \in posts : RowOf(p) \in Row
    BY DEF RowOf, Row, Tables
<1>2. \A q \in Queries : {RowOf(p) : p \in Listed(q)} \subseteq Row
    BY <1>1 DEF Listed
<1>3. QED  BY <1>2 DEF Truth

LEMMA TablesInit == Init => Tables
<1> SUFFICES ASSUME Init PROVE Tables
    OBVIOUS
<1>1. job \in [Writes -> Job]
    BY ExperiencesAssumption DEF Init
<1>2. QED  BY <1>1 DEF Init, Tables, Nothing

LEMMA TablesStep == ASSUME Tables, [Next]_vars PROVE Tables'
<1>1. ASSUME NEW w \in Writes, Create(w)  PROVE Tables'
    BY <1>1 DEF Create, Tables, tables
<1>2. ASSUME NEW w \in Writes, Comment(w)  PROVE Tables'
    BY <1>2 DEF Comment, Tables, tables
<1>3. ASSUME NEW w \in Writes, VoteFind(w)  PROVE Tables'
    <2>1. job[w].of \in posts => upVote[job[w].of] \in SUBSET Users
        BY DEF Tables
    <2>2. mem' \in [Writes -> [read : SUBSET Users, save : BOOLEAN]]
        BY <1>3, <2>1 DEF VoteFind, Tables
    <2>3. QED  BY <1>3, <2>2 DEF VoteFind, Tables, tables
<1>4. ASSUME NEW w \in Writes, VoteSelect(w)  PROVE Tables'
    BY <1>4 DEF VoteSelect, Tables, tables
<1>5. ASSUME NEW w \in Writes, VoteUpdate(w)  PROVE Tables'
    BY <1>5 DEF VoteUpdate, Tables, tables, Toggled, Nothing, Job
<1>6. ASSUME NEW w \in Writes, VoteAnswer(w)  PROVE Tables'
    BY <1>6 DEF VoteAnswer, Tables, tables
<1>7. CASE Read \/ Tick \/ UNCHANGED vars
    BY <1>7 DEF Read, Tick, vars, tables, writers, Tables
<1>8. CASE Crash
    BY <1>8 DEF Crash, Tables, tables, Nothing
<1>9. QED  BY <1>1, <1>2, <1>3, <1>4, <1>5, <1>6, <1>7, <1>8 DEF Next, Write

--------------------------------------------------------------------------------
(* Writings only become later *)

Later(T, U, n) ==
    /\ U.job = T.job
    /\ \A p \in U.posts : (p \in T.posts /\ U.stored[p] = T.stored[p]) \/ U.stored[p] = n
    /\ \A c \in U.comments : (c \in T.comments /\ U.stored[c] = T.stored[c]) \/ U.stored[c] = n

LEMMA ShownStays ==
    ASSUME NEW T, NEW U, NEW F, NEW n \in Int, NEW lo \in Int, NEW lo1 \in Int,
           \A p \in U.posts \cup U.comments : U.stored[p] \in Int,
           Later(T, U, n), Shown(T, F, lo), lo1 <= lo, lo1 <= n
    PROVE  Shown(U, F, lo1)
<1> SUFFICES ASSUME NEW f \in F, f.val # Failed
             PROVE  /\ \A p \in U.posts :
                           U.job[p].title \in Matches[f.query] /\ U.stored[p] < lo1
                           => \E x \in f.val : x.post = p
                    /\ \A c \in U.comments : \A x \in f.val :
                           x.post = U.job[c].of /\ U.stored[c] < lo1 => c \in x.comments
    BY DEF Shown
<1>1. ASSUME NEW p \in U.posts,
             U.job[p].title \in Matches[f.query], U.stored[p] < lo1
      PROVE  \E x \in f.val : x.post = p
    <2>1. p \in T.posts /\ U.stored[p] = T.stored[p] /\ T.stored[p] < lo
        BY <1>1 DEF Later
    <2>2. T.job[p].title \in Matches[f.query]
        BY <1>1 DEF Later
    <2>3. QED  BY <2>1, <2>2 DEF Shown
<1>2. ASSUME NEW c \in U.comments, NEW x \in f.val,
             x.post = U.job[c].of, U.stored[c] < lo1
      PROVE  c \in x.comments
    <2>1. c \in T.comments /\ U.stored[c] = T.stored[c] /\ T.stored[c] < lo
        BY <1>2 DEF Later
    <2>2. x.post = T.job[c].of
        BY <1>2 DEF Later
    <2>3. QED  BY <2>1, <2>2 DEF Shown
<1>3. QED  BY <1>1, <1>2

LEMMA WritingLater ==
    ASSUME Types, [Next]_vars
    PROVE  Later(Written, Written', now) /\ stored' \in [Writes -> Nat]
           /\ posts' \subseteq Writes /\ comments' \subseteq Writes
<1> USE DEF Types, Later, Written
<1>1. ASSUME NEW w \in Writes, Create(w)
      PROVE  /\ job' = job /\ stored' \in [Writes -> Nat] /\ comments' = comments
             /\ \A v \in posts' : v \in posts \/ v = w
             /\ \A v \in Writes : stored'[v] = stored[v] \/ stored'[v] = now
             /\ stored'[w] = now \/ UNCHANGED <<posts, stored>>
             /\ \A v \in Writes \ {w} : stored'[v] = stored[v]
             /\ posts' \subseteq Writes
    BY <1>1 DEF Create, tables
<1>2. ASSUME NEW w \in Writes, Comment(w)
      PROVE  /\ job' = job /\ stored' \in [Writes -> Nat] /\ posts' = posts
             /\ \A v \in comments' : v \in comments \/ v = w
             /\ \A v \in Writes : stored'[v] = stored[v] \/ stored'[v] = now
             /\ stored'[w] = now \/ UNCHANGED <<comments, stored>>
             /\ \A v \in Writes \ {w} : stored'[v] = stored[v]
             /\ comments' \subseteq Writes
    BY <1>2 DEF Comment, tables
<1>3. ASSUME \/ \E w \in Writes : \/ VoteFind(w) \/ VoteSelect(w)
                               \/ VoteUpdate(w) \/ VoteAnswer(w)
             \/ Read \/ Tick \/ Crash \/ UNCHANGED vars
      PROVE  job' = job /\ stored' = stored /\ posts' = posts /\ comments' = comments
    BY <1>3 DEF VoteFind, VoteSelect, VoteUpdate, VoteAnswer, Read, Tick, Crash, vars,
                 tables, writers
<1>4. CASE \E w \in Writes : Create(w)
    <2>1. PICK w \in Writes : Create(w)  BY <1>4
    <2>2. QED  BY <2>1, <1>1
<1>5. CASE \E w \in Writes : Comment(w)
    <2>1. PICK w \in Writes : Comment(w)  BY <1>5
    <2>2. QED  BY <2>1, <1>2
<1>6. CASE ~ \E w \in Writes : Create(w) \/ Comment(w)
    <2>1. job' = job /\ stored' = stored /\ posts' = posts /\ comments' = comments
        BY <1>3, <1>6 DEF Next, Write
    <2>2. QED  BY <2>1
<1>7. QED  BY <1>4, <1>5, <1>6

(* Whatever keeps a result and its time keeps that it shows what it must.   *)
LEMMA StillShown ==
    ASSUME Types, [Next]_vars, NEW F, NEW lo \in Int, NEW lo1 \in Int,
           Shown(Written, F, lo), lo1 <= lo, lo1 <= now
    PROVE  Shown(Written', F, lo1)
<1>1. \A p \in (Written').posts \cup (Written').comments : (Written').stored[p] \in Int
    BY WritingLater DEF Written
<1>2. now \in Int /\ Later(Written, Written', now)
    BY WritingLater DEF Types
<1>3. QED  BY <1>1, <1>2, ShownStays

LEMMA KeptWork ==
    ASSUME ShowInv, [Next]_vars, now' \in Nat, now <= now', NEW s \in Requests,
           pc[s] \in {"query", "put"}, since'[s] = since[s], found'[s] = found[s]
    PROVE  since'[s] <= now' /\ Shown(Written', found'[s], since'[s])
<1>1. /\ since[s] \in Nat /\ now \in Nat /\ since[s] <= now
      /\ Shown(Written, found[s], since[s])
    BY DEF ShowInv, WorkShows, Types
<1>2. QED  BY <1>1, StillShown DEF ShowInv

LEMMA KeptAnswer ==
    ASSUME ShowInv, [Next]_vars, now' \in Nat, now <= now',
           slowest' \in Nat, slowest <= slowest', NEW s \in Requests,
           pc[s] = "done", since'[s] = since[s], found'[s] = found[s]
    PROVE  since'[s] <= now' /\ Shown(Written', found'[s], since'[s] - TTL - slowest')
<1>1. /\ since[s] \in Nat /\ now \in Nat /\ since[s] <= now /\ slowest \in Nat
      /\ Shown(Written, found[s], since[s] - TTL - slowest) /\ TTL \in Nat
    BY ExperiencesAssumption DEF ShowInv, AnswersShow, Types
<1>2. /\ since[s] - TTL - slowest \in Int /\ since[s] - TTL - slowest' \in Int
      /\ since[s] - TTL - slowest' <= since[s] - TTL - slowest
      /\ since[s] - TTL - slowest' <= now
    BY <1>1
<1>3. QED  BY <1>1, <1>2, StillShown DEF ShowInv

LEMMA KeptEntry ==
    ASSUME ShowInv, [Next]_vars, now' \in Nat, now <= now',
           slowest' \in Nat, slowest <= slowest', NEW e \in cache, now' < e.till
    PROVE  /\ e.till <= now' + TTL
           /\ Shown(Written', e.found, e.till - TTL - slowest')
<1>1. /\ e.till \in Nat /\ now \in Nat /\ e.till <= now + TTL /\ slowest \in Nat
      /\ Shown(Written, e.found, e.till - TTL - slowest) /\ TTL \in Nat
    BY ExperiencesAssumption DEF ShowInv, CacheShows, Types, L!Entry
<1>2. /\ e.till - TTL - slowest \in Int /\ e.till - TTL - slowest' \in Int
      /\ e.till - TTL - slowest' <= e.till - TTL - slowest
      /\ e.till - TTL - slowest' <= now
    BY <1>1
<1>3. Shown(Written', e.found, e.till - TTL - slowest')
    BY <1>1, <1>2, StillShown DEF ShowInv
<1>4. QED  BY <1>1, <1>3

--------------------------------------------------------------------------------
(* The steps that leave what the listings hold *)

LEMMA StillReading ==
    ASSUME ShowInv, [Next]_vars,
           UNCHANGED <<cache, now, pc, asked, found, since, slowest>>
    PROVE  ShowInv'
<1>1. Types' /\ Keyed'
    BY WritingLater DEF ShowInv, Types, Keyed
<1>2. now' \in Nat /\ now <= now' /\ slowest' \in Nat /\ slowest <= slowest'
    BY DEF ShowInv, Types
<1>3. WorkShows'
    BY <1>2, KeptWork DEF WorkShows
<1>4. AnswersShow'
    BY <1>2, KeptAnswer DEF AnswersShow
<1>5. CacheShows'
    BY <1>2, KeptEntry DEF CacheShows, ShowInv
<1>6. QED  BY <1>1, <1>3, <1>4, <1>5 DEF ShowInv

(* Time passes: the entries that stay have not expired. *)
LEMMA TickShows == ASSUME ShowInv, [Next]_vars, L!Tick PROVE ShowInv'
<1>1. /\ now' = now + 1 /\ slowest' = slowest /\ cache' = cache \ L!Expired(now + 1)
      /\ pc' = pc /\ asked' = asked /\ found' = found /\ since' = since
    BY DEF L!Tick
<1>2. now' \in Nat /\ now <= now' /\ slowest' \in Nat /\ slowest <= slowest'
    BY <1>1 DEF ShowInv, Types
<1>3. Types' /\ Keyed'
    BY <1>1, WritingLater DEF ShowInv, Types, Keyed
<1>4. WorkShows'
    BY <1>1, <1>2, KeptWork DEF WorkShows
<1>5. AnswersShow'
    BY <1>1, <1>2, KeptAnswer DEF AnswersShow
<1>6. \A e \in cache' : e \in cache /\ now' < e.till
    BY <1>1, <1>2 DEF L!Expired, ShowInv, Types, L!Entry
<1>7. CacheShows'
    BY <1>2, <1>6, KeptEntry DEF CacheShows
<1>8. QED  BY <1>3, <1>4, <1>5, <1>7 DEF ShowInv

(* What a dying manager held is gone; Redis keeps its entries. *)
LEMMA CrashShows == ASSUME ShowInv, [Next]_vars, L!Crash PROVE ShowInv'
<1>1. /\ now' = now /\ slowest' = slowest /\ cache' = cache
      /\ asked' = asked /\ since' = since
      /\ \A s \in Requests : pc'[s] \notin {"query", "put"}
      /\ \A s \in Requests : pc'[s] \in {"new", "done"} => pc[s] = pc'[s]
      /\ \A s \in Requests : pc[s] = "done" => found'[s] = found[s]
      /\ \A s \in Requests : found'[s] = found[s] \/ found'[s] = {}
      /\ pc' \in [Requests -> {"new", "query", "put", "done", "error", "lost"}]
      /\ found' \in [Requests -> SUBSET L!Finding]
    BY DEF L!Crash, ShowInv, Types
<1>2. now' \in Nat /\ now <= now' /\ slowest' \in Nat /\ slowest <= slowest'
    BY <1>1 DEF ShowInv, Types
<1>3. Types'
    BY <1>1, WritingLater DEF ShowInv, Types
<1>4. Keyed'
    BY <1>1 DEF ShowInv, Keyed
<1>5. WorkShows'
    BY <1>1 DEF WorkShows
<1>6. AnswersShow'
    BY <1>1, <1>2, KeptAnswer DEF AnswersShow
<1>7. CacheShows'
    BY <1>1, <1>2, KeptEntry DEF CacheShows, ShowInv
<1>8. QED  BY <1>3, <1>4, <1>5, <1>6, <1>7 DEF ShowInv

--------------------------------------------------------------------------------
(* The handlers of the listings *)

(* A refused request has nothing; everything else is as it was. *)
LEMMA RefusedShows ==
    ASSUME ShowInv, [Next]_vars, NEW r \in Requests, L!Refused(r),
           UNCHANGED <<cache, now, asked, slowest>>, since'[r] \in Nat,
           since' = [since EXCEPT ![r] = since'[r]]
    PROVE  ShowInv'
<1>1. /\ \A s \in Requests \ {r} : /\ pc'[s] = pc[s] /\ found'[s] = found[s]
                                    /\ since'[s] = since[s]
      /\ pc'[r] = "error" /\ found'[r] = {}
    BY DEF L!Refused, L!Goto, ShowInv, Types
<1>2. now' \in Nat /\ now <= now' /\ slowest' \in Nat /\ slowest <= slowest'
    BY DEF ShowInv, Types
<1>3. Types'
    BY WritingLater DEF L!Refused, L!Goto, ShowInv, Types
<1>4. Keyed'
    BY <1>1 DEF ShowInv, Keyed
<1>5. WorkShows'
    BY <1>1, <1>2, KeptWork DEF WorkShows
<1>6. AnswersShow'
    BY <1>1, <1>2, KeptAnswer DEF AnswersShow
<1>7. CacheShows'
    BY <1>2, KeptEntry DEF CacheShows, ShowInv
<1>8. QED  BY <1>3, <1>4, <1>5, <1>6, <1>7 DEF ShowInv

LEMMA GetShows ==
    ASSUME ShowInv, [Next]_vars, NEW r \in Requests, L!Get(r)
    PROVE  ShowInv'
<1>1. /\ pc[r] = "new" /\ found[r] = {}
      /\ cache' = cache /\ now' = now /\ asked' = asked /\ slowest' = slowest
      /\ since' = [since EXCEPT ![r] = now] /\ since' \in [Requests -> Nat]
      /\ since'[r] = now
      /\ \A s \in Requests \ {r} : since'[s] = since[s]
    BY DEF L!Get, L!Stamp, ShowInv, Types
<1>2. /\ now' \in Nat /\ now <= now' /\ slowest' \in Nat /\ slowest <= slowest'
      /\ now \in Nat /\ slowest \in Nat /\ TTL \in Nat
    BY <1>1, ExperiencesAssumption DEF ShowInv, Types
<1>3. CacheShows'
    BY <1>1, <1>2, KeptEntry DEF CacheShows, ShowInv
<1>4. CASE L!Refused(r)
    BY <1>1, <1>2, <1>4, RefusedShows
<1>5. CASE L!Goto(r, "query") /\ found' = found
    <2>1. /\ \A s \in Requests \ {r} : pc'[s] = pc[s]
          /\ pc'[r] = "query"
        BY <1>5 DEF L!Goto, ShowInv, Types
    <2>2. Types' /\ Keyed'
        BY <1>1, <1>5, WritingLater DEF L!Goto, ShowInv, Types, Keyed
    <2>3. Shown(Written', found'[r], since'[r])
        BY <1>1, <1>5 DEF Shown
    <2>4. WorkShows'
        BY <1>1, <1>2, <1>5, <2>1, <2>3, KeptWork DEF WorkShows
    <2>5. AnswersShow'
        BY <1>1, <1>2, <1>5, <2>1, KeptAnswer DEF AnswersShow
    <2>6. QED  BY <1>3, <2>2, <2>4, <2>5 DEF ShowInv
<1>6. CASE \E e \in cache : /\ e.key = KeyOf[asked[r]]
                            /\ found' = [found EXCEPT ![r] = e.found]
                            /\ L!Goto(r, "done")
    <2>1. PICK e \in cache : /\ e.key = KeyOf[asked[r]]
                             /\ found' = [found EXCEPT ![r] = e.found]
                             /\ L!Goto(r, "done")
        BY <1>6
    <2>2. /\ \A s \in Requests \ {r} : pc'[s] = pc[s] /\ found'[s] = found[s]
          /\ pc'[r] = "done" /\ found'[r] = e.found
        BY <2>1 DEF L!Goto, ShowInv, Types
    <2>3. /\ e.key = asked[r] /\ e.found \in SUBSET L!Finding /\ e.till \in Nat
          /\ now < e.till /\ Shown(Written, e.found, e.till - TTL - slowest)
        BY <2>1 DEF KeyOf, ShowInv, Types, CacheShows, L!Entry
    <2>4. Types'
        BY <1>1, <2>1, <2>2, <2>3, WritingLater DEF L!Goto, ShowInv, Types
    <2>5. Keyed'
        BY <1>1, <2>2, <2>3 DEF ShowInv, Keyed
    <2>6. WorkShows'
        BY <1>1, <1>2, <2>2, KeptWork DEF WorkShows
    <2>7. Shown(Written', e.found, now - TTL - slowest)
        <3>1. /\ e.till - TTL - slowest \in Int /\ now - TTL - slowest \in Int
              /\ now - TTL - slowest <= e.till - TTL - slowest
              /\ now - TTL - slowest <= now
            BY <1>2, <2>3
        <3>2. QED  BY <2>3, <3>1, StillShown DEF ShowInv
    <2>8. AnswersShow'
        BY <1>1, <1>2, <2>2, <2>7, KeptAnswer DEF AnswersShow
    <2>9. QED  BY <1>3, <2>4, <2>5, <2>6, <2>8 DEF ShowInv
<1>7. QED  BY <1>4, <1>5, <1>6 DEF L!Get

(* What a query finds shows everything written. *)
LEMMA TruthShows ==
    ASSUME Types, NEW q \in Queries, NEW lo \in Int
    PROVE  Shown(Written, {[query |-> q, val |-> Truth[q]]}, lo)
<1>1. Truth[q] = {RowOf(p) : p \in Listed(q)}
    BY DEF Truth
<1>2. ASSUME NEW p \in posts, job[p].title \in Matches[q]
      PROVE  \E x \in Truth[q] : x.post = p
    <2>1. RowOf(p) \in Truth[q]
        BY <1>1, <1>2 DEF Listed
    <2>2. RowOf(p).post = p
        BY DEF RowOf
    <2>3. QED  BY <2>1, <2>2
<1>3. ASSUME NEW c \in comments, NEW x \in Truth[q], x.post = job[c].of
      PROVE  c \in x.comments
    BY <1>1, <1>3 DEF Listed, RowOf
<1>4. QED  BY <1>2, <1>3 DEF Shown, Written

LEMMA QueryShows ==
    ASSUME ShowInv, Tables, [Next]_vars, NEW r \in Requests, L!Query(r)
    PROVE  ShowInv'
<1>1. PICK q \in L!Left(r) : L!QueryFinds(r, q) \/ L!QueryFails(r, q)
    BY DEF L!Query
<1>2. /\ pc[r] = "query" /\ q = asked[r] /\ q \in Queries
      /\ cache' = cache /\ now' = now /\ asked' = asked /\ slowest' = slowest
      /\ since' = since
    BY <1>1 DEF L!Query, L!Left, L!QueryFinds, L!QueryFails, ShowInv, Types
<1>3. /\ now' \in Nat /\ now <= now' /\ slowest' \in Nat /\ slowest <= slowest'
      /\ now \in Nat /\ since[r] \in Nat /\ since[r] <= now
      /\ Shown(Written, found[r], since[r])
    BY <1>2 DEF ShowInv, Types, WorkShows
<1>4. CacheShows'
    BY <1>2, <1>3, KeptEntry DEF CacheShows, ShowInv
<1>5. CASE L!Refused(r)
    BY <1>2, <1>3, <1>5, RefusedShows DEF ShowInv, Types
<1>6. ASSUME NEW F, found' = [found EXCEPT ![r] = F], F \in SUBSET L!Finding,
             \A f \in F : f.query = q, Shown(Written', F, since[r]),
             NEW l \in {"query", "put"}, L!Goto(r, l)
      PROVE  ShowInv'
    <2>1. /\ \A s \in Requests \ {r} : pc'[s] = pc[s] /\ found'[s] = found[s]
          /\ pc'[r] = l /\ found'[r] = F
        BY <1>6 DEF L!Goto, ShowInv, Types
    <2>2. Types'
        BY <1>2, <1>6, <2>1, WritingLater DEF L!Goto, ShowInv, Types
    <2>3. Keyed'
        BY <1>2, <1>6, <2>1 DEF ShowInv, Keyed
    <2>4. WorkShows'
        BY <1>2, <1>3, <1>6, <2>1, KeptWork DEF WorkShows
    <2>5. AnswersShow'
        BY <1>2, <1>3, <1>6, <2>1, KeptAnswer DEF AnswersShow
    <2>6. QED  BY <1>4, <2>2, <2>3, <2>4, <2>5 DEF ShowInv
<1>7. CASE L!QueryFinds(r, q)
    <2> DEFINE new == [query |-> q, val |-> Truth[q]]
               F == found[r] \cup {new}
    <2>1. new \in L!Finding
        BY <1>2, TruthIsRows DEF L!Finding
    <2>2. Shown(Written, F, since[r])
        <3>1. Shown(Written, {new}, since[r])
            BY <1>2, <1>3, TruthShows DEF ShowInv
        <3>2. QED  BY <1>3, <3>1 DEF Shown
    <2>3. Shown(Written', F, since[r])
        BY <1>3, <2>2, StillShown DEF ShowInv
    <2>4. F \in SUBSET L!Finding /\ \A f \in F : f.query = q
        BY <1>2, <2>1 DEF ShowInv, Types, Keyed
    <2>5. found' = [found EXCEPT ![r] = F]
        BY <1>7 DEF L!QueryFinds
    <2>6. L!Goto(r, "put") \/ L!Goto(r, "query")
        BY <1>7 DEF L!QueryFinds
    <2> HIDE DEF F
    <2>7. QED  BY <1>6, <2>3, <2>4, <2>5, <2>6
<1>8. CASE /\ found' = [found EXCEPT ![r] = {[query |-> q, val |-> Failed]}]
           /\ L!Goto(r, "put")
    <2> DEFINE F == {[query |-> q, val |-> Failed]}
    <2>1. Shown(Written', F, since[r])
        BY DEF Shown
    <2>2. F \in SUBSET L!Finding /\ \A f \in F : f.query = q
        BY <1>2 DEF L!Finding
    <2>3. found' = [found EXCEPT ![r] = F]
        BY <1>8
    <2> HIDE DEF F
    <2>4. QED  BY <1>6, <1>8, <2>1, <2>2, <2>3
<1>9. QED  BY <1>1, <1>5, <1>7, <1>8 DEF L!QueryFails

LEMMA PutShows ==
    ASSUME ShowInv, [Next]_vars, NEW r \in Requests, L!Put(r)
    PROVE  ShowInv'
<1>1. /\ pc[r] = "put" /\ now' = now /\ asked' = asked
      /\ now \in Nat /\ since[r] \in Nat /\ since[r] <= now /\ slowest \in Nat
      /\ TTL \in Nat \ {0} /\ Shown(Written, found[r], since[r])
    BY ExperiencesAssumption DEF L!Put, ShowInv, Types, WorkShows
<1>2. CASE L!Refused(r) /\ UNCHANGED <<cache, slowest, since>>
    BY <1>1, <1>2, RefusedShows DEF ShowInv, Types
<1>3. CASE /\ cache' = {e \in cache : e.key # KeyOf[asked[r]]}
                      \cup {[key |-> KeyOf[asked[r]], found |-> found[r], till |-> now + TTL]}
           /\ slowest' = IF now - since[r] > slowest THEN now - since[r] ELSE slowest
           /\ L!Goto(r, "done") /\ L!Stamp(r)
           /\ UNCHANGED found
    <2> DEFINE new == [key |-> KeyOf[asked[r]], found |-> found[r], till |-> now + TTL]
    <2>1. /\ slowest' \in Nat /\ slowest <= slowest' /\ now - since[r] <= slowest'
          /\ now' \in Nat /\ now <= now'
        BY <1>1, <1>3
    <2>2. /\ \A s \in Requests \ {r} : pc'[s] = pc[s] /\ since'[s] = since[s]
          /\ pc'[r] = "done" /\ since'[r] = now /\ found' = found
        BY <1>3 DEF L!Goto, L!Stamp, ShowInv, Types
    <2>3. new \in L!Entry /\ KeyOf[asked[r]] = asked[r]
        BY <1>1 DEF KeyOf, L!Entry, L!Keys, ShowInv, Types
    <2>4. \A e \in cache' : e \in cache \/ e = new
        BY <1>3
    <2>5. Types'
        BY <1>1, <1>3, <2>1, <2>2, <2>3, <2>4, WritingLater DEF L!Goto, L!Stamp, ShowInv, Types
    <2>6. Keyed'
        BY <1>1, <2>2, <2>3, <2>4 DEF ShowInv, Keyed
    <2>7. WorkShows'
        BY <2>1, <2>2, KeptWork DEF WorkShows
    <2>8. Shown(Written', found[r], now - slowest')
        <3>1. /\ now - slowest' \in Int /\ now - slowest' <= since[r] /\ now - slowest' <= now
            BY <1>1, <2>1
        <3>2. QED  BY <1>1, <3>1, StillShown DEF ShowInv
    <2>9. Shown(Written', found[r], now - TTL - slowest')
        <3>1. TTL \in Nat /\ now \in Nat /\ slowest' \in Nat /\ since[r] \in Nat
              /\ now - slowest' <= since[r]
            BY <1>1, <2>1
        <3>2. \A t, n, l, i \in Nat : n - l <= i =>
                  n - t - l \in Int /\ n - t - l <= i /\ n - t - l <= n
            OBVIOUS
        <3>3. QED  BY <1>1, <3>1, <3>2, StillShown DEF ShowInv
    <2>10. AnswersShow'
        BY <1>1, <2>1, <2>2, <2>9, KeptAnswer DEF AnswersShow
    <2>11. CacheShows'
        <3> SUFFICES ASSUME NEW e \in cache'
                     PROVE  /\ now < e.till /\ e.till <= now + TTL
                            /\ Shown(Written', e.found, e.till - TTL - slowest')
            BY <1>1 DEF CacheShows
        <3>1. CASE e \in cache
            BY <1>1, <2>1, <3>1, KeptEntry DEF ShowInv, CacheShows
        <3>2. CASE e = new
            <4>1. e.till = now + TTL /\ e.found = found[r]
                   /\ e.till - TTL - slowest' = now - slowest'
                BY <1>1, <2>1, <3>2
            <4>2. QED  BY <1>1, <2>8, <4>1
        <3>3. QED  BY <2>4, <3>1, <3>2
    <2>12. QED  BY <2>5, <2>6, <2>7, <2>10, <2>11 DEF ShowInv
<1>4. QED  BY <1>2, <1>3 DEF L!Put

--------------------------------------------------------------------------------
LEMMA ShowInit == Init => ShowInv
<1> SUFFICES ASSUME Init PROVE ShowInv
    OBVIOUS
<1>1. Types
    BY DEF Init, L!Init, Types
<1>2. QED  BY <1>1 DEF Init, L!Init, ShowInv, WorkShows, CacheShows, AnswersShow, Keyed

LEMMA ShowStep == ASSUME ShowInv, Tables, [Next]_vars PROVE ShowInv'
<1>1. CASE UNCHANGED <<cache, now, pc, asked, found, since, slowest>>
    BY <1>1, StillReading
<1>2. CASE \E r \in Requests : L!Handle(r)
    BY <1>2, GetShows, QueryShows, PutShows DEF L!Handle
<1>3. CASE L!Tick   BY <1>3, TickShows
<1>4. CASE L!Crash  BY <1>4, CrashShows
<1>5. CASE \E w \in Writes : Write(w)
    <2>1. PICK w \in Writes : Write(w)  BY <1>5
    <2>2. UNCHANGED <<cache, now, pc, asked, found, since, slowest>>
        BY <2>1 DEF Write, Create, Comment, VoteFind, VoteSelect, VoteUpdate, VoteAnswer,
                         L!Change, reading
    <2>3. QED  BY <1>1, <2>2
<1>6. CASE Crash
    BY <1>1, <1>4, <1>6 DEF Crash, reading
<1>7. CASE UNCHANGED vars
    BY <1>1, <1>7 DEF vars, reading
<1>8. QED  BY <1>2, <1>3, <1>5, <1>6, <1>7 DEF Next, Read, Tick

LEMMA ShowsWritings == ShowInv => WritingsAppear
<1> SUFFICES ASSUME ShowInv, NEW r \in Requests, pc[r] = "done",
                    NEW f \in found[r], f.val # Failed
             PROVE  /\ \A p \in posts :
                           job[p].title \in Matches[asked[r]]
                           /\ stored[p] < since[r] - TTL - slowest
                           => \E x \in f.val : x.post = p
                    /\ \A c \in comments : \A x \in f.val :
                           x.post = job[c].of /\ stored[c] < since[r] - TTL - slowest
                           => c \in x.comments
    BY DEF WritingsAppear
<1>1. Shown(Written, found[r], since[r] - TTL - slowest) /\ f.query = asked[r]
    BY DEF ShowInv, AnswersShow, Keyed
<1>2. QED  BY <1>1 DEF Shown, Written

(* A post or comment is in every listing answered later than an entry lives *)
(* and the slowest fill took: WritingsAppear, for every instance.           *)
THEOREM WritingsShow == Spec => []WritingsAppear
<1>1. Init => ShowInv /\ Tables
    BY ShowInit, TablesInit
<1>2. ShowInv /\ Tables /\ [Next]_vars => ShowInv' /\ Tables'
    BY ShowStep, TablesStep
<1>3. ShowInv /\ Tables => WritingsAppear
    BY ShowsWritings
<1>4. QED  BY <1>1, <1>2, <1>3, PTL DEF Spec

(* Every step of the tables, the listings and the clock is a step of        *)
(* Listings or changes nothing it speaks of: the listings do what Listings  *)
(* promises, with what its queries find in the tables as their truth.       *)
THEOREM ImplementsListings == Spec => ListingsSpec
<1>1. Init => L!Init
    BY DEF Init
<1>2. [Next]_vars => [L!Next]_(L!vars)
    <2> SUFFICES ASSUME [Next]_vars PROVE L!Next \/ UNCHANGED L!vars
        OBVIOUS
    <2>1. ASSUME UNCHANGED <<posts, comments, upVote, job>> PROVE Truth' = Truth
        BY <2>1 DEF Truth, Listed, RowOf
    <2>2. ASSUME UNCHANGED reading, Truth' = Truth PROVE UNCHANGED L!vars
        BY <2>2 DEF reading, L!vars
    <2>3. CASE \E w \in Writes : Write(w)
        <3>1. PICK w \in Writes : Write(w)  BY <2>3
        <3>2. L!Change \/ UNCHANGED <<posts, comments, upVote, job, reading>>
            BY <3>1 DEF Write, Create, Comment, VoteFind, VoteSelect, VoteUpdate, VoteAnswer,
                             tables
        <3>3. CASE L!Change  BY <3>3 DEF L!Next
        <3>4. CASE UNCHANGED <<posts, comments, upVote, job, reading>>
            BY <2>1, <2>2, <3>4
        <3>5. QED  BY <3>2, <3>3, <3>4
    <2>4. CASE Read  BY <2>4 DEF Read, L!Next
    <2>5. CASE Tick  BY <2>5 DEF Tick, L!Next
    <2>6. CASE Crash
        BY <2>1, <2>2, <2>6 DEF Crash, tables, L!Next
    <2>7. CASE UNCHANGED vars
        BY <2>1, <2>2, <2>7 DEF vars, tables, writers
    <2>8. QED  BY <2>3, <2>4, <2>5, <2>6, <2>7 DEF Next
<1>3. QED  BY <1>1, <1>2, PTL DEF Spec, ListingsSpec, L!Spec

--------------------------------------------------------------------------------
(* Votes.  Their parity is counted over the messages that were handled,     *)
(* which are finitely many in every state.                                  *)

Started == {w \in Writes : at[w] # "new"}

(* The votes of u on p that were saved. *)
Votes(p, u) == {w \in Writes : /\ job[w].kind = "vote" /\ job[w].of = p
                               /\ job[w].user = u /\ w \in voted}

Handled ==
    /\ at \in [Writes -> {"new", "select", "update", "answer", "done", "lost"}]
    /\ IsFiniteSet(Started)
    /\ \A w \in Writes : /\ at[w] \in {"new", "select", "update"} => w \notin voted
                         /\ at[w] \in {"select", "update"} => job[w].kind = "vote"

(* Votes in progress on one post are noted as crossed; on any other post    *)
(* the row read is still the row.                                           *)
Alone ==
    \A w \in Writes : at[w] \in {"select", "update"} /\ job[w].of \notin crossed =>
        /\ mem[w].read = upVote[job[w].of]
        /\ at[w] = "update" => mem[w].save = TRUE
        /\ \A v \in Writes : at[v] \in {"select", "update"} /\ job[v].of = job[w].of => v = w

Odd ==
    \A p \in Writes \ crossed, u \in Users :
        u \in upVote[p] <=> Cardinality(Votes(p, u)) % 2 = 1

VoteInv == Handled /\ Alone /\ Odd

LEMMA Parity == ASSUME NEW n \in Nat PROVE (n + 1) % 2 = 1 <=> ~(n % 2 = 1)
    OBVIOUS

LEMMA FewStart ==
    ASSUME IsFiniteSet(Started), NEW w,
           \A v \in Writes \ {w} : at[v] = "new" => at'[v] = "new"
    PROVE  IsFiniteSet(Started')
<1>1. Started' \subseteq Started \cup {w}
    BY DEF Started
<1>2. QED  BY <1>1, FS_AddElement, FS_Subset

(* A step that counts no vote.                                              *)
LEMMA NoVote ==
    ASSUME Odd, UNCHANGED <<upVote, job, voted>>, crossed \subseteq crossed'
    PROVE  Odd'
<1>1. ASSUME NEW p \in Writes, NEW u \in Users PROVE Votes(p, u)' = Votes(p, u)
    BY DEF Votes
<1>2. QED  BY <1>1 DEF Odd

(* A step of w that leaves the votes of the others in progress alone.       *)
LEMMA OneLess ==
    ASSUME Handled, Alone, UNCHANGED <<upVote, job, crossed>>,
           \A v \in Writes : \/ at'[v] = at[v] /\ mem'[v] = mem[v]
                             \/ at'[v] \notin {"select", "update"}
    PROVE  Alone'
    BY DEF Alone

LEMMA VoteInit == Init => VoteInv
<1> SUFFICES ASSUME Init PROVE VoteInv
    OBVIOUS
<1>1. Handled
  <2>1. Started = {}
      BY DEF Init, Started
  <2>2. QED  BY <2>1, FS_EmptySet DEF Init, Handled
<1>2. Alone
    BY DEF Init, Alone
<1>3. Odd
  <2>1. ASSUME NEW p \in Writes, NEW u \in Users PROVE Cardinality(Votes(p, u)) = 0
    <3>1. Votes(p, u) = {}
        BY DEF Init, Votes
    <3>2. QED  BY <3>1, FS_EmptySet
  <2>2. ~(0 % 2 = 1)
      OBVIOUS
  <2>3. QED  BY <2>1, <2>2 DEF Init, Odd
<1>4. QED  BY <1>1, <1>2, <1>3 DEF VoteInv

LEMMA VoteFound ==
    ASSUME Tables, VoteInv, NEW w \in Writes, VoteFind(w) PROVE VoteInv'
<1>1. /\ at[w] = "new" /\ job[w].kind = "vote" /\ w \notin voted
      /\ UNCHANGED <<upVote, job, voted>>
    BY DEF VoteFind, VoteInv, Handled, tables
<1>2. CASE Answer(w, "can not found") /\ UNCHANGED <<mem, crossed>>
  <2>1. at' = [at EXCEPT ![w] = "done"]
      BY <1>2 DEF Answer, Goto
  <2>2. IsFiniteSet(Started')
      BY <2>1, FewStart DEF VoteInv, Handled
  <2>3. Handled'
      BY <1>1, <2>1, <2>2 DEF VoteInv, Handled
  <2>4. Alone'
      BY <1>1, <1>2, <2>1, OneLess DEF VoteInv, Handled
  <2>5. Odd'
      BY <1>1, <1>2, <2>1, NoVote DEF VoteInv, Handled
  <2>6. QED  BY <2>3, <2>4, <2>5 DEF VoteInv
<1>3. CASE /\ mem' = [mem EXCEPT ![w].read = upVote[job[w].of]]
           /\ crossed' = crossed \cup
                  {job[v].of : v \in {x \in Voting : job[x].of = job[w].of}}
           /\ Goto(w, "select")
  <2>1. at' = [at EXCEPT ![w] = "select"]
      BY <1>3 DEF Goto
  <2>2. IsFiniteSet(Started')
      BY <2>1, FewStart DEF VoteInv, Handled
  <2>3. Handled'
      BY <1>1, <1>3, <2>1, <2>2 DEF VoteInv, Handled
  <2>4. Odd'
      BY <1>1, <1>3, NoVote DEF VoteInv
  <2>5. ASSUME NEW v \in Writes, at[v] \in {"select", "update"}, job[v].of = job[w].of
        PROVE  job[w].of \in crossed'
      BY <1>3, <2>5 DEF Voting
  <2>6. /\ mem'[w].read = upVote[job[w].of]
        /\ \A v \in Writes \ {w} : mem'[v] = mem[v]
      BY <1>3 DEF Tables
  <2>7. Alone'
    <3> SUFFICES ASSUME NEW x \in Writes, at'[x] \in {"select", "update"},
                        job[x].of \notin crossed'
                 PROVE  /\ mem'[x].read = upVote[job[x].of]
                        /\ at'[x] = "update" => mem'[x].save = TRUE
                        /\ \A v \in Writes :
                              at'[v] \in {"select", "update"} /\ job[v].of = job[x].of
                              => v = x
        BY <1>1 DEF Alone
    <3>1. CASE x = w
        BY <2>1, <2>5, <2>6, <3>1 DEF VoteInv, Handled
    <3>2. CASE x # w
      <4>1. at[x] = at'[x] /\ job[x].of \notin crossed /\ job[x].of # job[w].of
          BY <1>3, <2>1, <2>5, <3>2 DEF VoteInv, Handled
      <4>2. QED  BY <2>1, <2>6, <3>2, <4>1 DEF VoteInv, Alone, Handled
    <3>3. QED  BY <3>1, <3>2
  <2>8. QED  BY <2>3, <2>4, <2>7 DEF VoteInv
<1>4. QED  BY <1>2, <1>3 DEF VoteFind

LEMMA VoteSelected ==
    ASSUME Tables, VoteInv, NEW w \in Writes, VoteSelect(w) PROVE VoteInv'
<1>1. at[w] = "select" /\ UNCHANGED <<upVote, job, voted, crossed>>
    BY DEF VoteSelect, VoteInv, Handled, tables
<1>2. at' = [at EXCEPT ![w] = "update"]
    BY DEF VoteSelect, Goto
<1>3. IsFiniteSet(Started')
    BY <1>2, FewStart DEF VoteInv, Handled
<1>4. Handled'
    BY <1>1, <1>2, <1>3 DEF VoteInv, Handled
<1>5. Odd'
    BY <1>1, NoVote DEF VoteInv
<1>6. PICK equal \in BOOLEAN :
          mem' = [mem EXCEPT ![w].save = equal \/ Toggled(w) # upVote[job[w].of]]
    BY DEF VoteSelect
<1>7. /\ mem'[w].read = mem[w].read
      /\ mem'[w].save = (equal \/ Toggled(w) # upVote[job[w].of])
      /\ \A v \in Writes \ {w} : mem'[v] = mem[v]
    BY <1>6 DEF Tables
<1>8. job[w].of \notin crossed => mem'[w].save = TRUE
  <2> SUFFICES ASSUME job[w].of \notin crossed PROVE mem'[w].save = TRUE
      OBVIOUS
  <2>1. mem[w].read = upVote[job[w].of]
      BY <1>1 DEF VoteInv, Alone
  <2>2. Toggled(w) # mem[w].read
      BY DEF Toggled
  <2>3. QED  BY <1>7, <2>1, <2>2
<1>9. Alone'
  <2> SUFFICES ASSUME NEW x \in Writes, at'[x] \in {"select", "update"},
                      job[x].of \notin crossed
               PROVE  /\ mem'[x].read = upVote[job[x].of]
                      /\ at'[x] = "update" => mem'[x].save = TRUE
                      /\ \A v \in Writes :
                            at'[v] \in {"select", "update"} /\ job[v].of = job[x].of
                            => v = x
      BY <1>1 DEF Alone
  <2>1. \A v \in Writes : at'[v] \in {"select", "update"} => at[v] \in {"select", "update"}
      BY <1>1, <1>2 DEF VoteInv, Handled
  <2>2. mem'[x].read = mem[x].read
      BY <1>7
  <2>3. at'[x] = "update" => mem'[x].save = TRUE
      BY <1>1, <1>2, <1>7, <1>8, <2>1 DEF VoteInv, Alone, Handled
  <2>4. QED  BY <2>1, <2>2, <2>3 DEF VoteInv, Alone
<1>10. QED  BY <1>4, <1>5, <1>9 DEF VoteInv

LEMMA VoteUpdated ==
    ASSUME Tables, VoteInv, NEW w \in Writes, VoteUpdate(w) PROVE VoteInv'
<1>1. /\ at[w] = "update" /\ job[w].kind = "vote" /\ w \notin voted
      /\ UNCHANGED <<job, crossed>>
      /\ mem' = [mem EXCEPT ![w] = Nothing]
    BY DEF VoteUpdate, VoteInv, Handled
<1>2. PICK l \in {"answer", "done"} :
          /\ at' = [at EXCEPT ![w] = l]
          /\ l = "done" => UNCHANGED <<upVote, voted>>
          /\ l = "answer" => /\ voted' = voted \cup {w}
                             /\ upVote' = [upVote EXCEPT ![job[w].of] =
                                              IF mem[w].save THEN Toggled(w) ELSE @]
    BY DEF VoteUpdate, Answer, Goto, tables
<1>3. IsFiniteSet(Started')
    BY <1>2, FewStart DEF VoteInv, Handled
<1>4. Handled'
    BY <1>1, <1>2, <1>3 DEF VoteInv, Handled
<1>5. CASE l = "done"
  <2>1. Odd'
      BY <1>1, <1>2, <1>5, NoVote DEF VoteInv, Handled
  <2>2. Alone'
      BY <1>1, <1>2, <1>5, OneLess DEF VoteInv, Handled, Tables
  <2>3. QED  BY <1>4, <2>1, <2>2 DEF VoteInv
<1>6. CASE l = "answer"
  <2>0. PICK i \in Writes, b \in Users : i = job[w].of /\ b = job[w].user
      BY DEF Tables, Job
  <2>1. /\ \A p \in Writes \ {i} : upVote'[p] = upVote[p]
        /\ i \notin crossed => upVote'[i] = Toggled(w) /\ mem[w].read = upVote[i]
      BY <1>1, <1>2, <1>6, <2>0 DEF VoteInv, Alone, Tables
  <2>2. Alone'
    <3> SUFFICES ASSUME NEW x \in Writes, at'[x] \in {"select", "update"},
                        job[x].of \notin crossed
                 PROVE  /\ mem'[x].read = upVote'[job[x].of]
                        /\ at'[x] = "update" => mem'[x].save = TRUE
                        /\ \A v \in Writes :
                              at'[v] \in {"select", "update"} /\ job[v].of = job[x].of
                              => v = x
        BY <1>1 DEF Alone
    <3>1. /\ x # w /\ at[x] = at'[x] /\ mem'[x] = mem[x]
          /\ \A v \in Writes : at'[v] \in {"select", "update"} => at'[v] = at[v]
        BY <1>1, <1>2 DEF VoteInv, Handled, Tables
    <3>2. job[x].of # i /\ job[x].of \in Writes
        BY <1>1, <2>0, <3>1 DEF VoteInv, Alone, Tables, Job
    <3>3. QED  BY <2>1, <3>1, <3>2 DEF VoteInv, Alone
  <2>3. ASSUME NEW p \in Writes \ crossed, NEW u \in Users, p # i \/ u # b
        PROVE  u \in upVote'[p] <=> Cardinality(Votes(p, u)') % 2 = 1
    <3>1. Votes(p, u)' = Votes(p, u)
        BY <1>1, <1>2, <1>6, <2>0, <2>3 DEF Votes
    <3>2. u \in upVote'[p] <=> u \in upVote[p]
        BY <2>0, <2>1, <2>3 DEF Toggled
    <3>3. QED  BY <3>1, <3>2 DEF VoteInv, Odd
  <2>4. i \notin crossed => (b \in upVote'[i] <=> Cardinality(Votes(i, b)') % 2 = 1)
    <3> SUFFICES ASSUME i \notin crossed
                 PROVE  b \in upVote'[i] <=> Cardinality(Votes(i, b)') % 2 = 1
        OBVIOUS
    <3>1. Votes(i, b)' = Votes(i, b) \cup {w} /\ w \notin Votes(i, b)
        BY <1>1, <1>2, <1>6, <2>0 DEF Votes, VoteInv, Handled
    <3>2. Votes(i, b) \subseteq Started
        BY DEF Votes, Started, VoteInv, Handled
    <3>3. PICK n : n = Cardinality(Votes(i, b))
        OBVIOUS
    <3>4. n \in Nat /\ Cardinality(Votes(i, b)') = n + 1
      <4>1. IsFiniteSet(Votes(i, b))
          BY <3>2, FS_Subset DEF VoteInv, Handled
      <4>2. QED  BY <3>1, <3>3, <4>1, FS_AddElement, FS_CardinalityType
    <3>5. b \in upVote[i] <=> n % 2 = 1
        BY <3>3 DEF VoteInv, Odd
    <3>6. b \in upVote'[i] <=> b \notin upVote[i]
        BY <2>0, <2>1 DEF Toggled
    <3>7. (n + 1) % 2 = 1 <=> ~(n % 2 = 1)
        BY <3>4, Parity
    <3>8. QED  BY <3>4, <3>5, <3>6, <3>7, Zenon
  <2>5. Odd'
      BY <1>1, <2>3, <2>4 DEF Odd
  <2>6. QED  BY <1>4, <2>2, <2>5 DEF VoteInv
<1>7. QED  BY <1>5, <1>6

LEMMA VoteAnswered ==
    ASSUME VoteInv, NEW w \in Writes, VoteAnswer(w) PROVE VoteInv'
<1>1. /\ at[w] = "answer" /\ at' = [at EXCEPT ![w] = "done"]
      /\ UNCHANGED <<upVote, job, mem, voted, crossed>>
    BY DEF VoteAnswer, Answer, Goto, tables
<1>2. IsFiniteSet(Started')
    BY <1>1, FewStart DEF VoteInv, Handled
<1>3. Handled'
    BY <1>1, <1>2 DEF VoteInv, Handled
<1>4. Alone' /\ Odd'
    BY <1>1, OneLess, NoVote DEF VoteInv, Handled
<1>5. QED  BY <1>3, <1>4 DEF VoteInv

LEMMA VoteNext == Tables /\ VoteInv /\ [Next]_vars => VoteInv'
<1> SUFFICES ASSUME Tables, VoteInv, [Next]_vars PROVE VoteInv'
    OBVIOUS
<1>1. ASSUME NEW w \in Writes, Create(w) \/ Comment(w) PROVE VoteInv'
  <2>1. /\ at' = [at EXCEPT ![w] = "done"]
        /\ at[w] = "new" /\ job[w].kind # "vote"
        /\ UNCHANGED <<upVote, job, mem, voted, crossed>>
      BY <1>1 DEF Create, Comment, Answer, Goto, tables
  <2>2. IsFiniteSet(Started')
      BY <2>1, FewStart DEF VoteInv, Handled
  <2>3. Handled'
      BY <2>1, <2>2 DEF VoteInv, Handled
  <2>4. Alone'
      BY <2>1, OneLess DEF VoteInv, Handled
  <2>5. Odd'
      BY <2>1, NoVote DEF VoteInv, Handled
  <2>6. QED  BY <2>3, <2>4, <2>5 DEF VoteInv
<1>2. ASSUME NEW w \in Writes,
             VoteFind(w) \/ VoteSelect(w) \/ VoteUpdate(w) \/ VoteAnswer(w)
      PROVE  VoteInv'
    BY <1>2, VoteFound, VoteSelected, VoteUpdated, VoteAnswered
<1>3. CASE Read \/ Tick \/ UNCHANGED vars
  <2>1. UNCHANGED <<upVote, job, at, voted, mem, crossed>>
      BY <1>3 DEF Read, Tick, vars, tables, writers
  <2>2. Handled'
      BY <2>1 DEF VoteInv, Handled, Started
  <2>3. Alone' /\ Odd'
      BY <2>1, OneLess, NoVote DEF VoteInv
  <2>4. QED  BY <2>2, <2>3 DEF VoteInv
<1>4. CASE Crash
  <2>1. /\ UNCHANGED <<upVote, job, voted, crossed>>
        /\ at' = [w \in Writes |-> IF w \in Busy THEN "lost" ELSE at[w]]
        /\ mem' = [w \in Writes |-> IF w \in Busy THEN Nothing ELSE mem[w]]
      BY <1>4 DEF Crash, tables
  <2>2. IsFiniteSet(Started')
    <3>1. Started' \subseteq Started
        BY <2>1 DEF Started, Busy
    <3>2. QED  BY <3>1, FS_Subset DEF VoteInv, Handled
  <2>3. Handled'
      BY <2>1, <2>2 DEF VoteInv, Handled, Busy
  <2>4. Alone'
      BY <2>1, OneLess DEF VoteInv
  <2>5. Odd'
      BY <2>1, NoVote DEF VoteInv
  <2>6. QED  BY <2>3, <2>4, <2>5 DEF VoteInv
<1>5. QED  BY <1>1, <1>2, <1>3, <1>4 DEF Next, Write

(* Unless two votes on it overlapped, a post has the votes of the users who *)
(* of whom an odd number was saved: VotesToggle, for every instance, whatever  *)
(* else is written, read or refused, and however often the manager dies.    *)
THEOREM VotesAreToggled == Spec => []VotesToggle
<1>1. Init => Tables /\ VoteInv
    BY TablesInit, VoteInit
<1>2. Tables /\ VoteInv /\ [Next]_vars => Tables' /\ VoteInv'
    BY TablesStep, VoteNext
<1>3. Tables /\ VoteInv => VotesToggle
    BY DEF Tables, VoteInv, Odd, Votes, VotesToggle
<1>4. QED  BY <1>1, <1>2, <1>3, PTL DEF Spec
================================================================================
