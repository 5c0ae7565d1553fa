------------------------------- MODULE Experiences -----------------------------
(****************************************************************************)
(* The experiences users share: posts, comments and votes, and the listings *)
(* of them that clients get through Redis.  Listings is the cache; here the *)
(* truth it may serve is what its queries find in the tables, and the       *)
(* changes of that truth are the saves of the handlers below.               *)
(*                                                                          *)
(* A page is taken to be long enough for every row; who wrote a post, its   *)
(* text and its image are left out.                                         *)
(****************************************************************************)
EXTENDS Integers, FiniteSets

CONSTANTS
    Users, Titles,
    Queries,      \* getExperienceOfUser, and searchExperience with its title
    Matches,      \* Matches[q]: the titles that query q lets through
    NoRow,        \* what an error holds in place of rows
    Writes,       \* messages that write, each handled once
    Asks,         \* Asks[w]: the Job records message w may carry
    Requests,     \* messages that ask for a listing, each handled once
    TTL, MaxTime

Job == [kind : {"create", "comment", "vote"}, user : Users,
        title : Titles,     \* of the post created
        of : Writes]        \* the post commented or voted on, named by its creation

ASSUME ExperiencesAssumption ==
    /\ \A q \in Queries : Matches[q] \subseteq Titles
    /\ \A w \in Writes : \A j \in Asks[w] : j \in Job
    /\ TTL \in Nat \ {0} /\ MaxTime \in Nat

Row == [post : Writes, comments : SUBSET Writes, upVote : SUBSET Users]

ASSUME NoRowAssumption == NoRow \notin Row

Failed == {NoRow}

VARIABLES
    posts, comments,     \* tables share experience and comment
    upVote,              \* upVote[p]: the column of post p
    job, at, reply,      \* of each message that writes
    mem,                 \* votes its handler holds: the row read, what to save
    stored,              \* history: when its row was stored
    voted,               \* history: votes whose UPDATE was committed
    crossed,             \* history: posts two votes on which overlapped
    cache, now, pc, asked, found, since, facts, slowest      \* of Listings

KeyOfPageSlip == [q \in Queries |-> CHOOSE p \in Queries : TRUE]

(* The condition the listings are stored under names the title searched. *)
KeyOf == [q \in Queries |-> q]

(* The queries: rows of the post table with their comments. *)
Listed(q) == {p \in posts : job[p].title \in Matches[q]}
RowOf(p)  == [post |-> p, comments |-> {c \in comments : job[c].of = p},
              upVote |-> upVote[p]]
Truth     == [q \in Queries |-> {RowOf(p) : p \in Listed(q)}]

L == INSTANCE Listings WITH
         truth <- Truth, Values <- SUBSET Row, Args <- Queries,
         Runs <- [q \in Queries |-> {q}], Key <- KeyOf, Swallows <- Queries

tables  == <<posts, comments, upVote>>
writers == <<job, at, reply, mem, stored, voted, crossed>>
reading == <<cache, now, pc, asked, found, since, facts, slowest>>
vars    == <<tables, writers, reading>>

Nothing == [read |-> {}, save |-> FALSE]

Init ==
    /\ posts = {} /\ comments = {}
    /\ upVote = [w \in Writes |-> {}]
    /\ job \in {f \in [Writes -> UNION {Asks[w] : w \in Writes}] :
                    \A w \in Writes : f[w] \in Asks[w]}
    /\ at = [w \in Writes |-> "new"]
    /\ reply = [w \in Writes |-> "none"]
    /\ mem = [w \in Writes |-> Nothing]
    /\ stored = [w \in Writes |-> 0] /\ voted = {} /\ crossed = {}
    /\ L!Init

--------------------------------------------------------------------------------
(* The handlers that write *)

Goto(w, l) == at' = [at EXCEPT ![w] = l]

Answer(w, m) == Goto(w, "done") /\ reply' = [reply EXCEPT ![w] = m]

Busy == {w \in Writes : at[w] \notin {"new", "done", "lost"}}

(* Votes between their find and their UPDATE.                               *)
Voting == {w \in Writes : at[w] \in {"select", "update"}}

(* The row is stored, or the database refuses it. *)
Create(w) ==
    /\ at[w] = "new" /\ job[w].kind = "create"
    /\ UNCHANGED <<job, mem, voted, crossed>>
    /\ \/ /\ posts' = posts \cup {w}
          /\ stored' = [stored EXCEPT ![w] = now]
          /\ Answer(w, "oke")
          /\ UNCHANGED <<comments, upVote>>
          /\ L!Change
       \/ /\ Answer(w, "error")
          /\ UNCHANGED <<tables, stored, reading>>

(* As createTour does with its cache entry: the new row is added to what is *)
(* found in Redis.                                                          *)
AddComment(rows, w) ==
    {IF x # NoRow /\ x.post = job[w].of THEN [x EXCEPT !.comments = @ \cup {w}] ELSE x :
        x \in rows}

CommentCachesSlip(w) ==
    /\ at[w] = "new" /\ job[w].kind = "comment" /\ job[w].of \in posts
    /\ UNCHANGED <<job, mem, voted, crossed>>
    /\ comments' = comments \cup {w}
    /\ stored' = [stored EXCEPT ![w] = now]
    /\ Answer(w, "oke")
    /\ UNCHANGED <<posts, upVote>>
    /\ facts' = facts \cup L!Sees(Truth', now)
    /\ cache' = {[e EXCEPT !.found = {[f EXCEPT !.val = AddComment(@, w)] : f \in @}] :
                     e \in cache}
    /\ UNCHANGED <<now, pc, asked, found, since, slowest>>

(* A comment needs its post: the foreign key. *)
Comment(w) ==
    /\ at[w] = "new" /\ job[w].kind = "comment"
    /\ UNCHANGED <<job, mem, voted, crossed>>
    /\ \/ /\ job[w].of \in posts
          /\ comments' = comments \cup {w}
          /\ stored' = [stored EXCEPT ![w] = now]
          /\ Answer(w, "oke")
          /\ UNCHANGED <<posts, upVote>>
          /\ L!Change
       \/ /\ Answer(w, "error")
          /\ UNCHANGED <<tables, stored, reading>>

VoteFind(w) ==
    /\ at[w] = "new" /\ job[w].kind = "vote"
    /\ \/ /\ job[w].of \notin posts
          /\ Answer(w, "can not found")
          /\ UNCHANGED <<mem, crossed>>
       \/ /\ job[w].of \in posts
          /\ mem' = [mem EXCEPT ![w].read = upVote[job[w].of]]
          /\ crossed' = crossed \cup {job[v].of : v \in {x \in Voting : job[x].of = job[w].of}}
          /\ Goto(w, "select")
          /\ UNCHANGED reply
    /\ UNCHANGED <<tables, job, stored, voted, reading>>

ToggledOnSlip(w) == mem[w].read \cup {job[w].user}

Toggled(w) == IF job[w].user \in mem[w].read THEN mem[w].read \ {job[w].user}
              ELSE mem[w].read \cup {job[w].user}

(* The first half of save; an array may be written although it is equal. *)
VoteSelect(w) ==
    /\ at[w] = "select"
    /\ \E equal \in BOOLEAN :
          mem' = [mem EXCEPT ![w].save = equal \/ Toggled(w) # upVote[job[w].of]]
    /\ Goto(w, "update")
    /\ UNCHANGED <<tables, job, reply, stored, voted, crossed, reading>>

(* The second half: the UPDATE is committed, or the database refuses it.    *)
VoteUpdate(w) ==
    /\ at[w] = "update"
    /\ mem' = [mem EXCEPT ![w] = Nothing]
    /\ UNCHANGED <<job, stored, crossed>>
    /\ \/ /\ upVote' = [upVote EXCEPT ![job[w].of] = IF mem[w].save THEN Toggled(w) ELSE @]
          /\ voted' = voted \cup {w}
          /\ Goto(w, "answer")
          /\ UNCHANGED <<posts, comments, reply>>
          /\ L!Change
       \/ /\ Answer(w, "error")
          /\ UNCHANGED <<tables, voted, reading>>

(* The handler is back from save: until now its vote counts without the     *)
(* client having been told.                                                 *)
VoteAnswer(w) ==
    /\ at[w] = "answer"
    /\ Answer(w, "oke")
    /\ UNCHANGED <<tables, job, mem, stored, voted, crossed, reading>>

Write(w) == \/ Create(w) \/ Comment(w)
            \/ VoteFind(w) \/ VoteSelect(w) \/ VoteUpdate(w) \/ VoteAnswer(w)

--------------------------------------------------------------------------------
(* The listings, the clock, and the death of the manager *)

Read == /\ UNCHANGED <<tables, writers>>
        /\ \E r \in Requests : L!Handle(r)

Tick == UNCHANGED <<tables, writers>> /\ L!Tick

Reading == \E r \in Requests : pc[r] \in {"query", "put"}

Crash ==
    /\ Busy # {} \/ Reading
    /\ at' = [w \in Writes |-> IF w \in Busy THEN "lost" ELSE at[w]]
    /\ mem' = [w \in Writes |-> IF w \in Busy THEN Nothing ELSE mem[w]]
    /\ UNCHANGED <<tables, job, reply, stored, voted, crossed>>
    /\ IF Reading THEN L!Crash ELSE UNCHANGED reading

Next == (\E w \in Writes : Write(w)) \/ Read \/ Tick \/ Crash

Spec == Init /\ [][Next]_vars

--------------------------------------------------------------------------------
(* Properties *)

(* The tables, what handlers hold, and the listings have their types; a     *)
(* comment has its post.                                                    *)
TypeOK ==
    /\ posts \subseteq Writes /\ comments \subseteq Writes
    /\ \A c \in comments : job[c].of \in posts
    /\ upVote \in [Writes -> SUBSET Users]
    /\ job \in [Writes -> Job]
    /\ at \in [Writes -> {"new", "select", "update", "answer", "done", "lost"}]
    /\ reply \in [Writes -> {"none", "oke", "error", "can not found"}]
    /\ mem \in [Writes -> [read : SUBSET Users, save : BOOLEAN]]
    /\ stored \in [Writes -> Nat] /\ voted \subseteq Writes /\ crossed \subseteq Writes
    /\ L!TypeOK

(* A post, and a comment on a post, is in every listing that should have it *)
(* and is answered later than an entry lives plus the slowest handler: the  *)
(* cache hides what users write for that long and no longer.                *)
WritingsAppear ==
    \A r \in Requests : pc[r] = "done" => \A f \in found[r] : f.val # Failed =>
        /\ \A p \in posts :
               job[p].title \in Matches[asked[r]] /\ stored[p] < since[r] - TTL - slowest
               => \E x \in f.val : x.post = p
        /\ \A c \in comments : \A x \in f.val :
               x.post = job[c].of /\ stored[c] < since[r] - TTL - slowest
               => c \in x.comments

(* Unless two votes on a post overlapped, it has the votes of the users of  *)
(* whom an odd number was saved: writing the whole row back never loses a   *)
(* vote to a comment, to another post, or to a handler that died, before    *)
(* its UPDATE or between the UPDATE and its answer.                         *)
VotesToggle ==
    \A p \in posts \ crossed, u \in Users :
        u \in upVote[p] <=>
            Cardinality({w \in Writes : /\ job[w].kind = "vote" /\ job[w].of = p
                                        /\ job[w].user = u /\ w \in voted}) % 2 = 1

(* The listings do what Listings says, with the tables as their truth.      *)
ListingsSpec == L!Spec
================================================================================
