----------------------------------- MODULE Rpc ---------------------------------
(****************************************************************************)
(* The way of an HTTP call through the backend: the guards and the user     *)
(* interceptor of the gateway ask the auth service, the route sends one     *)
(* message to the service that does the work, whose handler may ask another *)
(* service in turn, and the answers travel back.  Every question is a       *)
(* message in the durable queue of a service, which acknowledges it before  *)
(* it works; services die and are started again.                            *)
(*                                                                          *)
(* A route is what matters of it here: how many of its guards ask the auth  *)
(* service, whether UserInterceptor wraps it, the path of services that     *)
(* work for it one inside the other, and whether the first of them has a    *)
(* handler that acknowledges, one that never does, or none.                 *)
(****************************************************************************)
EXTENDS Integers, Sequences

CONSTANTS
    Calls,         \* HTTP calls, each made once
    Asks,          \* Asks[c]: the routes call c may be for
    MaxCrashes     \* bound: how often services die

Services == {"auth", "manager", "mail"}
Hops     == 1 .. 3
Route    == [guards : 0 .. 2, decode : BOOLEAN,
             path : UNION {[1 .. n -> Services] : n \in Hops},
             pattern : {"acks", "never", "missing"}]

ASSUME RpcAssumption ==
    /\ \A c \in Calls : \A x \in Asks[c] : x \in Route
    /\ MaxCrashes \in Nat

To(g, d, s, p) == [guards |-> g, decode |-> d, path |-> <<s>>, pattern |-> p]
Via(g, d, p)   == [guards |-> g, decode |-> d, path |-> p, pattern |-> "acks"]

(* booking mails the customer a confirmation *)
Booking  == Via(2, TRUE, <<"manager", "mail">>)
(* register mails a link, for which the mail service has the auth service sign *)
Register == Via(0, FALSE, <<"auth", "mail", "auth">>)
(* validate-email has the auth service decode the token of the link *)
Validate == Via(0, FALSE, <<"mail", "auth">>)
(* search, and the lists of experiences *)
PublicRoutes == {To(0, FALSE, "manager", "acks")}
(* admin/... and user/get-order *)
AdminRoutes  == {To(2, FALSE, "manager", "acks")}
(* store/edit, comments, experiences, votes, tour/delete, booking, track-trip *)
MemberRoutes == {To(2, TRUE, "manager", "acks"), To(2, TRUE, "manager", "missing"), Booking}
(* the seller's statistics and bills *)
SellerRoutes == {To(2, FALSE, "manager", "acks"), To(2, TRUE, "manager", "acks")}
(* carts and tour-by-id *)
CartRoutes   == {To(1, TRUE, "manager", "acks"), To(1, FALSE, "manager", "acks")}
(* tour/..., user-detail, create-content-experience, store/list-tour *)
TourRoutes   == {To(0, FALSE, "manager", "acks"), To(2, TRUE, "manager", "missing"),
                 To(2, TRUE, "manager", "acks"), To(1, TRUE, "auth", "acks"),
                 To(2, TRUE, "manager", "never")}
(* users, post-user, register, login, store/create, validate-email, refresh *)
AuthRoutes   == {To(2, FALSE, "auth", "acks"), To(1, FALSE, "auth", "missing"),
                 To(0, FALSE, "auth", "acks"), To(1, TRUE, "manager", "acks"),
                 To(1, FALSE, "auth", "acks"), Register, Validate}

Message == [call : Calls, no : 1 .. 5, hop : Hops, asks : {"verify", "decode", "run"}]

VARIABLES
    route, stage,       \* of each call
    passed,             \* guards that let the call through
    caught,             \* whether catchError of UserInterceptor was used
    sent,               \* messages the gateway sent for it; the last is awaited
    queue,              \* ready for delivery
    unacked,            \* delivered, not yet begun
    kept,               \* begun, but never acknowledged
    working,            \* handlers at work that asked nobody yet
    waiting,            \* handlers that wait for another service
    resumed,            \* handlers at work with its answer
    replies,            \* on their way to who waits for them
    up, crashes,
    runs,               \* history: times the handler of each hop was begun
    failed,             \* history: times that of the route replied an error
    lost                \* history: acknowledged, and the service died at work

broker == <<queue, unacked, kept>>
calls  == <<stage, passed, caught, sent>>
work   == <<working, waiting, resumed>>
power  == <<up, crashes>>
past   == <<runs, failed, lost>>
vars   == <<route, calls, broker, work, replies, power, past>>

Init ==
    /\ route \in {f \in [Calls -> UNION {Asks[c] : c \in Calls}] :
                      \A c \in Calls : f[c] \in Asks[c]}
    /\ stage = [c \in Calls |-> "new"]
    /\ passed = [c \in Calls |-> 0] /\ sent = [c \in Calls |-> 0]
    /\ caught = [c \in Calls |-> FALSE]
    /\ queue = {} /\ unacked = {} /\ kept = {} /\ replies = {}
    /\ working = {} /\ waiting = {} /\ resumed = {}
    /\ up = [s \in Services |-> TRUE] /\ crashes = 0
    /\ runs = [c \in Calls |-> [h \in Hops |-> 0]] /\ failed = [c \in Calls |-> 0]
    /\ lost = {}

Path(m)    == IF m.asks = "run" THEN route[m.call].path ELSE <<"auth">>
Service(m) == Path(m)[m.hop]
Of(s, S)   == {m \in S : Service(m) = s}
Acks(m)    == m.asks # "run" \/ route[m.call].pattern = "acks"
Handled(m) == m.asks # "run" \/ route[m.call].pattern # "missing"
AtWork     == working \cup waiting \cup resumed

--------------------------------------------------------------------------------
(* The gateway *)

(* Definitions named ...Slip are mistakes one could make in the code they   *)
(* precede; each is caught by a property of this module.                    *)

Ask(c, q) == /\ sent' = [sent EXCEPT ![c] = @ + 1]
             /\ queue' = queue \cup
                           {[call |-> c, no |-> sent[c] + 1, hop |-> 1, asks |-> q]}

Answer(c) == stage' = [stage EXCEPT ![c] = "answered"]

(* The guards in order, then the interceptor, then the route itself. *)
Proceed(c, n) ==
    /\ passed' = [passed EXCEPT ![c] = n]
    /\ \/ /\ n < route[c].guards
          /\ stage' = [stage EXCEPT ![c] = "guard"] /\ Ask(c, "verify")
       \/ /\ n = route[c].guards /\ route[c].decode
          /\ stage' = [stage EXCEPT ![c] = "user"] /\ Ask(c, "decode")
       \/ /\ n = route[c].guards /\ ~route[c].decode
          /\ stage' = [stage EXCEPT ![c] = "route"] /\ Ask(c, "run")

Arrive(c) ==
    /\ stage[c] = "new"
    /\ Proceed(c, 0)
    /\ UNCHANGED <<route, caught, unacked, kept, work, replies, power, past>>

Awaited(c) == {x \in replies : x.m.call = c /\ x.m.no = sent[c] /\ x.m.hop = 1}

SkipsAGuardSlip(c) ==
    /\ stage[c] = "guard"
    /\ \E x \in Awaited(c) :
          /\ replies' = replies \ {x}
          /\ Proceed(c, passed[c] + 2)
    /\ UNCHANGED <<route, caught, unacked, kept, work, power, past>>

(* verify-jwt answered: the guard lets the call through, refuses it, or     *)
(* throws because the auth service replied an error.                        *)
Guarded(c) ==
    /\ stage[c] = "guard"
    /\ \E x \in Awaited(c) :
          /\ replies' = replies \ {x}
          /\ \/ /\ x.ok
                /\ Proceed(c, passed[c] + 1)
             \/ /\ Answer(c)
                /\ UNCHANGED <<passed, sent, queue>>
    /\ UNCHANGED <<route, caught, unacked, kept, work, power, past>>

(* decode-jwt answered: the route runs with the user or, caught, without.   *)
Decoded(c) ==
    /\ stage[c] = "user"
    /\ \E x \in Awaited(c) :
          /\ replies' = replies \ {x}
          /\ caught' = [caught EXCEPT ![c] = ~x.ok]
          /\ stage' = [stage EXCEPT ![c] = "route"]
          /\ Ask(c, "run")
    /\ UNCHANGED <<route, passed, unacked, kept, work, power, past>>

(* The client is answered although the interceptor runs the route again. *)
AnswersAndRepeatsSlip(c) ==
    /\ stage[c] = "route"
    /\ \E x \in Awaited(c) :
          /\ replies' = replies \ {x}
          /\ Answer(c)
          /\ \/ x.ok /\ UNCHANGED <<sent, queue>>
             \/ ~x.ok /\ Ask(c, "run")
    /\ UNCHANGED <<route, passed, caught, unacked, kept, work, power, past>>

(* The route's message answered.  The catchError of UserInterceptor stands  *)
(* behind next.handle() too: an error runs the route a second time.         *)
Routed(c) ==
    /\ stage[c] = "route"
    /\ \E x \in Awaited(c) :
          /\ replies' = replies \ {x}
          /\ \/ /\ ~x.ok /\ route[c].decode /\ ~caught[c]
                /\ caught' = [caught EXCEPT ![c] = TRUE]
                /\ Ask(c, "run")
                /\ UNCHANGED stage
             \/ /\ x.ok \/ ~route[c].decode \/ caught[c]
                /\ Answer(c)
                /\ UNCHANGED <<caught, sent, queue>>
    /\ UNCHANGED <<route, passed, unacked, kept, work, power, past>>

--------------------------------------------------------------------------------
(* A service and the broker *)

Deliver(m) ==
    /\ m \in queue /\ up[Service(m)]
    /\ queue' = queue \ {m}
    /\ unacked' = unacked \cup {m}
    /\ UNCHANGED <<route, calls, kept, work, replies, power, past>>

Begun(m) ==
    runs' = IF m.asks = "run" THEN [runs EXCEPT ![m.call][m.hop] = @ + 1] ELSE runs

StartNeverAcksSlip(m) ==
    /\ m \in unacked /\ Handled(m)
    /\ unacked' = unacked \ {m} /\ kept' = kept \cup {m}
    /\ working' = working \cup {m}
    /\ Begun(m)
    /\ UNCHANGED <<route, calls, queue, waiting, resumed, replies, power, failed, lost>>

(* A handler begins, as a rule with acknowledgeMessage. *)
Start(m) ==
    /\ m \in unacked /\ Handled(m)
    /\ unacked' = unacked \ {m}
    /\ kept' = IF Acks(m) THEN kept ELSE kept \cup {m}
    /\ working' = working \cup {m}
    /\ Begun(m)
    /\ UNCHANGED <<route, calls, queue, waiting, resumed, replies, power, failed, lost>>

(* Without a handler the server of the service replies an error. *)
NoHandler(m) ==
    /\ m \in unacked /\ ~Handled(m)
    /\ unacked' = unacked \ {m}
    /\ kept' = kept \cup {m}
    /\ replies' = replies \cup {[m |-> m, ok |-> FALSE]}
    /\ UNCHANGED <<route, calls, queue, work, power, past>>

(* A handler may ask the next service on its path, once, and awaits it. *)
Inner(m) == [m EXCEPT !.hop = @ + 1]

ForgetsInnerSlip(m) ==
    /\ m \in working /\ m.hop < Len(Path(m))
    /\ working' = working \ {m} /\ resumed' = resumed \cup {m}
    /\ queue' = queue \cup {Inner(m)}
    /\ UNCHANGED <<route, calls, unacked, kept, waiting, replies, power, past>>

AskInner(m) ==
    /\ m \in working /\ m.hop < Len(Path(m))
    /\ working' = working \ {m} /\ waiting' = waiting \cup {m}
    /\ queue' = queue \cup {Inner(m)}
    /\ UNCHANGED <<route, calls, unacked, kept, resumed, replies, power, past>>

Resume(m) ==
    /\ m \in waiting
    /\ \E x \in replies :
          /\ x.m = Inner(m)
          /\ replies' = replies \ {x}
    /\ waiting' = waiting \ {m} /\ resumed' = resumed \cup {m}
    /\ UNCHANGED <<route, calls, broker, working, power, past>>

(* A handler returns or throws. *)
Finish(m) ==
    /\ m \in working \cup resumed
    /\ working' = working \ {m} /\ resumed' = resumed \ {m}
    /\ \E ok \in BOOLEAN :
          /\ replies' = replies \cup {[m |-> m, ok |-> ok]}
          /\ failed' = IF m.asks = "run" /\ m.hop = 1 /\ ~ok
                       THEN [failed EXCEPT ![m.call] = @ + 1] ELSE failed
    /\ UNCHANGED <<route, calls, broker, waiting, power, runs, lost>>

Died(s) ==
    /\ up[s] /\ crashes < MaxCrashes
    /\ up' = [up EXCEPT ![s] = FALSE] /\ crashes' = crashes + 1
    /\ unacked' = unacked \ Of(s, unacked)
    /\ kept' = kept \ Of(s, kept)
    /\ working' = working \ Of(s, working)
    /\ waiting' = waiting \ Of(s, waiting)
    /\ resumed' = resumed \ Of(s, resumed)
    /\ lost' = lost \cup {m.call : m \in Of(s, AtWork) \ kept}
    /\ UNCHANGED <<route, calls, replies, runs, failed>>

CrashDropsSlip(s) == Died(s) /\ UNCHANGED queue

(* A service dies: the broker will deliver again what it did not acknowledge, *)
(* and nobody knows any more what it was asked or waited for.                 *)
Crash(s) ==
    /\ Died(s)
    /\ queue' = queue \cup Of(s, unacked) \cup Of(s, kept)

Restart(s) ==
    /\ ~up[s]
    /\ up' = [up EXCEPT ![s] = TRUE]
    /\ UNCHANGED <<route, calls, broker, work, replies, crashes, past>>

--------------------------------------------------------------------------------
Gateway == \E c \in Calls : Guarded(c) \/ Decoded(c) \/ Routed(c)
Deliveries == \E m \in queue : Deliver(m)
Work == \/ \E m \in unacked : Start(m) \/ NoHandler(m)
        \/ \E m \in working : AskInner(m)
        \/ \E m \in waiting : Resume(m)
        \/ \E m \in working \cup resumed : Finish(m)

Next == \/ \E c \in Calls : Arrive(c)
        \/ Gateway \/ Deliveries \/ Work
        \/ \E s \in Services : Crash(s) \/ Restart(s)

Spec == Init /\ [][Next]_vars

(* Handlers return, the broker delivers, and a dead service is started again *)
(* by whoever runs it.                                                       *)
FairSpec == /\ Spec
            /\ WF_vars(Gateway) /\ WF_vars(Deliveries) /\ WF_vars(Work)
            /\ \A s \in Services : WF_vars(Restart(s))

--------------------------------------------------------------------------------
(* Properties *)

(* The gateway sends at most five messages for a call, one at a time, and   *)
(* reaches the route only after one question for each guard and one for the *)
(* user; a handler waits only for a service further on its path.            *)
TypeOK ==
    /\ route \in [Calls -> Route]
    /\ stage \in [Calls -> {"new", "guard", "user", "route", "answered"}]
    /\ passed \in [Calls -> 0 .. 2] /\ sent \in [Calls -> 0 .. 5]
    /\ caught \in [Calls -> BOOLEAN]
    /\ \A S \in {queue, unacked, kept, working, waiting, resumed} : S \subseteq Message
    /\ replies \subseteq [m : Message, ok : BOOLEAN]
    /\ up \in [Services -> BOOLEAN] /\ crashes \in 0 .. MaxCrashes
    /\ runs \in [Calls -> [Hops -> Nat]] /\ failed \in [Calls -> Nat] /\ lost \subseteq Calls
    /\ \A m \in queue \cup unacked \cup AtWork : m.hop <= Len(Path(m))
    /\ \A m \in waiting \cup resumed : m.hop < Len(Path(m))
    /\ \A c \in Calls : stage[c] = "route" =>
           sent[c] - route[c].guards - (IF route[c].decode THEN 1 ELSE 0) \in 1 .. 2

(* A handler that acknowledges is begun once for a call, whatever dies and  *)
(* is delivered again, and a second time only behind UserInterceptor after  *)
(* the route had replied an error; so is the handler it asks in turn:       *)
(* bookings, payments, bans and mails are not repeated by a crash.          *)
BegunOnce ==
    \A c \in Calls : route[c].pattern = "acks" =>
        \A h \in Hops : runs[c][h] <= IF route[c].decode /\ failed[c] > 0 THEN 2 ELSE 1

(* Once the client has its answer nothing that acknowledges is in a queue   *)
(* or at work for its call, in no service on its path: an answer, also an   *)
(* error, is the last word.                                                 *)
AnswerIsLast ==
    \A c \in Calls : stage[c] = "answered" =>
        \A m \in queue \cup unacked \cup AtWork : m.call = c => ~Acks(m)

(* Every call is answered, although services wait for each other in a       *)
(* circle, unless one died between acknowledging a message and replying to  *)
(* it; there is no time limit on an answer anywhere, so that this is also   *)
(* all that is promised.                                                    *)
AnsweredOrLost ==
    \A c \in Calls : stage[c] # "new" ~> (stage[c] = "answered" \/ c \in lost)
================================================================================
