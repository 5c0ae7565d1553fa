------------------------------- MODULE Rpc_proofs ------------------------------
(****************************************************************************)
(* For any number of calls, routes and crashes: the handlers of a call that *)
(* acknowledge are not repeated by a death or a redelivery, and none of     *)
(* them works any more once the client has its answer.  The invariant       *)
(* behind it says that what is asked of the services for a call is one      *)
(* question at a time, and under it one handler waiting for the next.       *)
(****************************************************************************)
EXTENDS Rpc, SequenceTheorems, TLAPS

Replied(m) == \E x \in replies : x.m = m
Live(m)    == m \in queue \cup unacked \cup AtWork
Present(m) == Live(m) \/ Replied(m)

(* Who at the gateway awaits the answer to a question. *)
Awaiting(q) == CASE q = "verify" -> "guard" [] q = "decode" -> "user" [] OTHER -> "route"

(* The messages a call needs before its route is asked for. *)
Before(c) == route[c].guards + (IF route[c].decode THEN 1 ELSE 0)

(* The times the route was asked for. *)
Tries(c) == IF stage[c] \in {"route", "answered"} /\ sent[c] > Before(c)
            THEN sent[c] - Before(c) ELSE 0

(* The gateway counts: a guard or the user interceptor is never skipped, and *)
(* the second message for a route is the one that catchError sends.         *)
Counted(c) ==
    /\ stage[c] = "new"   => sent[c] = 0
    /\ stage[c] = "guard" => sent[c] = passed[c] + 1 /\ passed[c] < route[c].guards
    /\ stage[c] = "user"  => sent[c] = Before(c) /\ route[c].decode /\ ~caught[c]
    /\ stage[c] = "route" => sent[c] - Before(c) \in 1 .. 2
    /\ stage[c] = "route" /\ sent[c] = Before(c) + 2 => route[c].decode /\ caught[c]
    /\ stage[c] = "answered" => sent[c] <= Before(c) + 2
    /\ stage[c] \in {"new", "guard", "user"} => ~caught[c]

(* Whatever is on its way for a call belongs to the question that is awaited, *)
(* unless it is a message that its handler never acknowledged.              *)
Located(m) ==
    /\ m.hop <= Len(Path(m)) /\ m.no <= sent[m.call]
    /\ Acks(m)  => m.no = sent[m.call] /\ stage[m.call] = Awaiting(m.asks)
    /\ ~Acks(m) => stage[m.call] \in {"route", "answered"}

Places ==
    /\ \A m \in queue \cup unacked \cup AtWork \cup kept : Located(m)
    /\ \A x \in replies : Located(x.m)
    /\ \A m \in kept : ~Acks(m)
    /\ \A m \in waiting \cup resumed : m.hop < Len(Path(m))

(* A message that is acknowledged is in one place. *)
Single(m) ==
    /\ m \in queue   => m \notin unacked \cup AtWork /\ ~Replied(m)
    /\ m \in unacked => m \notin AtWork /\ ~Replied(m)
    /\ m \in working => m \notin waiting \cup resumed /\ ~Replied(m)
    /\ m \in waiting => m \notin resumed /\ ~Replied(m)
    /\ m \in resumed => ~Replied(m)

(* Of two services at work for one question the first waits. *)
Chained(m, n) ==
    /\ m.call = n.call /\ m.hop < n.hop /\ Acks(m) /\ Acks(n) /\ Present(m) /\ Present(n)
    => m \in waiting

Chain == /\ \A m \in Message : Acks(m) => Single(m)
         /\ \A x, y \in replies : Acks(x.m) /\ x.m = y.m => x = y
         /\ \A m, n \in Message : Chained(m, n)

(* A handler that acknowledges and is still to be begun for a try of the    *)
(* route has not been begun for it.                                         *)
Budget ==
    \A c \in Calls : route[c].pattern = "acks" =>
        /\ \A h \in Hops : runs[c][h] <= Tries(c)
        /\ \A m \in queue \cup unacked \cup working : \A h \in Hops :
              /\ m.call = c /\ m.asks = "run"
              /\ m.hop <= h /\ (m \in working => m.hop < h)
              => runs[c][h] < Tries(c)
        /\ \A x \in replies : x.m.call = c /\ x.m.asks = "run" /\ x.m.hop = 1 /\ ~x.ok
              => failed[c] > 0
        /\ Tries(c) = 2 => route[c].decode /\ failed[c] > 0

--------------------------------------------------------------------------------
(* Messages *)

LEMMA MessageEq ==
    ASSUME NEW m \in Message, NEW n \in Message,
           m.call = n.call, m.no = n.no, m.hop = n.hop, m.asks = n.asks
    PROVE  m = n
    BY DEF Message

LEMMA InnerMessage ==
    ASSUME NEW m \in Message, m.hop + 1 \in Hops
    PROVE  /\ Inner(m) \in Message
           /\ Inner(m).call = m.call /\ Inner(m).no = m.no /\ Inner(m).asks = m.asks
           /\ Inner(m).hop = m.hop + 1
    BY DEF Message, Inner, Hops

LEMMA RouteFields ==
    ASSUME NEW x \in Route
    PROVE  /\ x.guards \in 0 .. 2 /\ x.decode \in BOOLEAN
           /\ x.pattern \in {"acks", "never", "missing"}
           /\ Len(x.path) \in Hops
<1>1. x.path \in UNION {[1 .. n -> Services] : n \in Hops}
    BY DEF Route
<1>2. PICK n \in Hops : x.path \in [1 .. n -> Services]
    BY <1>1
<1>3. x.path \in Seq(Services)
    BY <1>2, SeqDef DEF Hops
<1>4. Len(x.path) = n
    BY <1>2, <1>3, LenProperties DEF Hops
<1>5. QED  BY <1>4 DEF Route

LEMMA PathLen ==
    ASSUME route \in [Calls -> Route], NEW m \in Message
    PROVE  /\ Len(Path(m)) \in Hops
           /\ m.asks # "run" => Len(Path(m)) = 1
<1>1. m.call \in Calls
    BY DEF Message
<1>2. CASE m.asks = "run"
    BY <1>1, <1>2, RouteFields DEF Path
<1>3. CASE m.asks # "run"
    BY <1>3 DEF Path, Hops
<1>4. QED  BY <1>2, <1>3

(* A call keeps its route. *)
LEMMA RouteKept ==
    ASSUME UNCHANGED route
    PROVE  \A m : /\ Acks(m)' = Acks(m) /\ Handled(m)' = Handled(m)
                  /\ Path(m)' = Path(m) /\ Service(m)' = Service(m)
    BY DEF Acks, Handled, Path, Service

LEMMA LocatedStays ==
    ASSUME UNCHANGED <<route, stage, sent>>
    PROVE  \A m : Located(m)' = Located(m)
    BY DEF Located, Acks, Path, Awaiting

LEMMA TriesStay ==
    ASSUME UNCHANGED <<route, stage, sent>>
    PROVE  \A c : Tries(c)' = Tries(c)
    BY DEF Tries, Before
--------------------------------------------------------------------------------
(* Types, and what the gateway counts *)

TypeInv == TypeOK /\ \A c \in Calls : Counted(c)

LEMMA InitTypes == Init => TypeInv
<1> SUFFICES ASSUME Init PROVE TypeInv
    OBVIOUS
<1>1. route \in [Calls -> Route]
    BY RpcAssumption DEF Init
<1>2. TypeOK
    BY <1>1, RpcAssumption DEF Init, TypeOK, AtWork, Hops
<1>3. ASSUME NEW c \in Calls PROVE Counted(c)
    BY <1>3 DEF Init, Counted
<1>4. QED  BY <1>2, <1>3 DEF TypeInv

(* A question of the gateway is a message for the first service. *)
LEMMA Asked ==
    ASSUME TypeOK, NEW c \in Calls, NEW q \in {"verify", "decode", "run"}, sent[c] < 5,
           NEW m, m = [call |-> c, no |-> sent[c] + 1, hop |-> 1, asks |-> q]
    PROVE  m \in Message /\ m.hop <= Len(Path(m))
<1>0. sent[c] \in 0 .. 5 /\ route \in [Calls -> Route]
    BY DEF TypeOK
<1>1. sent[c] + 1 \in 1 .. 5
    BY <1>0
<1>2. m \in Message
    BY <1>1 DEF Message, Hops
<1>3. Len(Path(m)) \in Hops
    BY <1>0, <1>2, PathLen
<1>4. m.hop = 1
    OBVIOUS
<1>5. 1 <= Len(Path(m))
    BY <1>3 DEF Hops
<1>6. QED  BY <1>2, <1>4, <1>5

(* What a step of the gateway does to the counts, the queue and the replies. *)
Steps(c) ==
    /\ UNCHANGED <<route, unacked, kept, work, power, past>>
    /\ replies' \subseteq replies
    /\ stage' \in [Calls -> {"new", "guard", "user", "route", "answered"}]
    /\ passed' \in [Calls -> 0 .. 2] /\ caught' \in [Calls -> BOOLEAN]
    /\ \A d \in Calls \ {c} : /\ stage'[d] = stage[d] /\ passed'[d] = passed[d]
                              /\ caught'[d] = caught[d]
    /\ \/ UNCHANGED <<sent, queue>>
       \/ \E q \in {"verify", "decode", "run"} :
             /\ Ask(c, q) /\ sent[c] < 5 /\ stage'[c] = Awaiting(q)
             /\ q # "run" => stage[c] # "route"
    /\ Counted(c)'
    /\ stage[c] # "answered" /\ (stage[c] = "new" => sent'[c] # sent[c])
    /\ sent'[c] = sent[c] => stage'[c] = "answered"
    /\ sent'[c] # sent[c] /\ stage[c] = "route" => \E x \in Awaited(c) : ~x.ok

LEMMA ProceedSteps ==
    ASSUME TypeInv, NEW c \in Calls, NEW n \in 0 .. 2, n = sent[c],
           Proceed(c, n), n <= route[c].guards, ~caught[c], stage[c] \in {"new", "guard"},
           caught' = caught, replies' \subseteq replies,
           UNCHANGED <<route, unacked, kept, work, power, past>>
    PROVE  Steps(c)
<1> USE DEF TypeInv
<1>0. route[c] \in Route /\ route[c].guards \in 0 .. 2 /\ route[c].decode \in BOOLEAN
    BY RouteFields DEF TypeOK
<1>1. sent' = [sent EXCEPT ![c] = n + 1] /\ passed' = [passed EXCEPT ![c] = n]
    BY DEF Proceed, Ask
<1>2. sent'[c] = n + 1 /\ passed'[c] = n
    BY <1>1 DEF TypeOK
<1>3. PICK q \in {"verify", "decode", "run"} :
          /\ Ask(c, q) /\ stage' = [stage EXCEPT ![c] = Awaiting(q)]
          /\ q = "verify" => n < route[c].guards
          /\ q = "decode" => n = route[c].guards /\ route[c].decode
          /\ q = "run" => n = route[c].guards /\ ~route[c].decode
    BY DEF Proceed, Awaiting
<1>4. stage'[c] = Awaiting(q)
    BY <1>3 DEF TypeOK
<1>5. Counted(c)'
    BY <1>0, <1>2, <1>3, <1>4 DEF Counted, Before, Awaiting
<1>6. stage' \in [Calls -> {"new", "guard", "user", "route", "answered"}]
    BY <1>3 DEF TypeOK, Awaiting
<1>7. passed' \in [Calls -> 0 .. 2] /\ caught' \in [Calls -> BOOLEAN]
    BY <1>1 DEF TypeOK
<1>8. \A d \in Calls \ {c} : /\ stage'[d] = stage[d] /\ passed'[d] = passed[d]
                             /\ caught'[d] = caught[d]
    BY <1>1, <1>3 DEF TypeOK
<1>9. QED  BY <1>2, <1>3, <1>4, <1>5, <1>6, <1>7, <1>8 DEF Steps

LEMMA AnswerSteps ==
    ASSUME TypeInv, NEW c \in Calls, Answer(c), Counted(c)',
           stage[c] \notin {"new", "answered"}, replies' \subseteq replies,
           UNCHANGED <<route, passed, caught, sent, queue, unacked, kept, work, power, past>>
    PROVE  Steps(c)
<1>1. stage' = [stage EXCEPT ![c] = "answered"] /\ stage'[c] = "answered"
    BY DEF Answer, TypeInv, TypeOK
<1>2. stage' \in [Calls -> {"new", "guard", "user", "route", "answered"}]
    BY <1>1 DEF TypeInv, TypeOK
<1>3. passed' \in [Calls -> 0 .. 2] /\ caught' \in [Calls -> BOOLEAN]
    BY DEF TypeInv, TypeOK
<1>4. \A d \in Calls \ {c} : /\ stage'[d] = stage[d] /\ passed'[d] = passed[d]
                             /\ caught'[d] = caught[d]
    BY <1>1 DEF TypeInv, TypeOK
<1>5. /\ \/ UNCHANGED <<sent, queue>>
         \/ \E q \in {"verify", "decode", "run"} :
               /\ Ask(c, q) /\ sent[c] < 5 /\ stage'[c] = Awaiting(q)
               /\ q # "run" => stage[c] # "route"
      /\ sent'[c] = sent[c] /\ stage'[c] = "answered"
    BY <1>1
<1>6. QED  BY <1>2, <1>3, <1>4, <1>5 DEF Steps

LEMMA GatewaySteps ==
    ASSUME TypeInv, NEW c \in Calls, Arrive(c) \/ Guarded(c) \/ Decoded(c) \/ Routed(c)
    PROVE  Steps(c)
<1> USE DEF TypeInv
<1>0. /\ route[c] \in Route /\ route[c].guards \in 0 .. 2 /\ route[c].decode \in BOOLEAN
      /\ Counted(c) /\ sent[c] \in 0 .. 5 /\ passed[c] \in 0 .. 2
    BY RouteFields DEF TypeOK
<1>1. CASE Arrive(c)
    BY <1>0, <1>1, ProceedSteps DEF Arrive, Counted
<1>2. CASE Guarded(c)
  <2>1. PICK x \in Awaited(c) :
            /\ replies' = replies \ {x}
            /\ \/ x.ok /\ Proceed(c, passed[c] + 1)
               \/ Answer(c) /\ UNCHANGED <<passed, sent, queue>>
      BY <1>2 DEF Guarded
  <2>2. /\ stage[c] = "guard" /\ ~caught[c] /\ sent[c] = passed[c] + 1
        /\ passed[c] < route[c].guards
      BY <1>0, <1>2 DEF Guarded, Counted
  <2>3. CASE x.ok /\ Proceed(c, passed[c] + 1)
    <3>1. passed[c] + 1 \in 0 .. 2 /\ passed[c] + 1 <= route[c].guards
        BY <1>0, <2>2
    <3>2. QED  BY <1>2, <2>1, <2>2, <2>3, <3>1, ProceedSteps DEF Guarded
  <2>4. CASE Answer(c) /\ UNCHANGED <<passed, sent, queue>>
    <3>1. stage'[c] = "answered" /\ UNCHANGED <<route, caught, passed, sent>>
        BY <1>2, <2>4 DEF Guarded, Answer, TypeOK
    <3>2. Counted(c)'
        BY <1>0, <2>2, <3>1 DEF Counted, Before
    <3>3. QED  BY <1>2, <2>1, <2>2, <2>4, <3>1, <3>2, AnswerSteps DEF Guarded
  <2>5. QED  BY <2>1, <2>3, <2>4
<1>3. CASE Decoded(c)
  <2>1. PICK x \in Awaited(c) :
            /\ replies' = replies \ {x}
            /\ caught' = [caught EXCEPT ![c] = ~x.ok]
            /\ stage' = [stage EXCEPT ![c] = "route"]
            /\ Ask(c, "run")
      BY <1>3 DEF Decoded
  <2>2. stage[c] = "user" /\ sent[c] = Before(c) /\ sent[c] <= 3
      BY <1>0, <1>3 DEF Decoded, Counted, Before
  <2>3. sent' = [sent EXCEPT ![c] = sent[c] + 1] /\ sent'[c] = sent[c] + 1
      BY <2>1 DEF Ask, TypeOK
  <2>4. stage'[c] = "route" /\ route' = route
      BY <1>3, <2>1 DEF Decoded, TypeOK
  <2>5. Counted(c)'
      BY <1>0, <2>2, <2>3, <2>4 DEF Counted, Before
  <2>6. caught' \in [Calls -> BOOLEAN]
      BY <2>1 DEF TypeOK, Awaited
  <2>7. QED  BY <1>0, <1>3, <2>1, <2>2, <2>3, <2>4, <2>5, <2>6
             DEF Decoded, Steps, Awaiting, TypeOK
<1>4. CASE Routed(c)
  <2>1. PICK x \in Awaited(c) :
            /\ replies' = replies \ {x}
            /\ \/ /\ ~x.ok /\ route[c].decode /\ ~caught[c]
                  /\ caught' = [caught EXCEPT ![c] = TRUE]
                  /\ Ask(c, "run")
                  /\ UNCHANGED stage
               \/ /\ x.ok \/ ~route[c].decode \/ caught[c]
                  /\ Answer(c)
                  /\ UNCHANGED <<caught, sent, queue>>
      BY <1>4 DEF Routed
  <2>2. /\ stage[c] = "route" /\ sent[c] - Before(c) \in 1 .. 2
        /\ route' = route /\ passed' = passed
      BY <1>0, <1>4 DEF Routed, Counted
  <2>3. CASE /\ ~x.ok /\ route[c].decode /\ ~caught[c]
             /\ caught' = [caught EXCEPT ![c] = TRUE]
             /\ Ask(c, "run")
             /\ UNCHANGED stage
    <3>1. sent[c] = Before(c) + 1 /\ sent[c] < 5
        BY <1>0, <2>2, <2>3 DEF Counted, Before
    <3>2. sent'[c] = sent[c] + 1 /\ caught'[c]
        BY <2>3 DEF Ask, TypeOK
    <3>3. Counted(c)'
        BY <1>0, <2>2, <2>3, <3>1, <3>2 DEF Counted, Before
    <3>4. QED  BY <1>0, <1>4, <2>1, <2>2, <2>3, <3>1, <3>2, <3>3
               DEF Routed, Steps, Awaiting, TypeOK
  <2>4. CASE /\ x.ok \/ ~route[c].decode \/ caught[c]
             /\ Answer(c)
             /\ UNCHANGED <<caught, sent, queue>>
    <3>1. stage' = [stage EXCEPT ![c] = "answered"] /\ stage'[c] = "answered"
        BY <2>4 DEF Answer, TypeOK
    <3>2. Counted(c)'
        BY <1>0, <2>2, <2>4, <3>1 DEF Counted, Before
    <3>3. QED  BY <1>4, <2>1, <2>2, <2>4, <3>2, AnswerSteps DEF Routed
  <2>5. QED  BY <2>1, <2>3, <2>4
<1>5. QED  BY <1>1, <1>2, <1>3, <1>4
(* What a step leaves of the calls, and of the messages it moves. *)
Moves == /\ queue' \cup unacked' \cup kept' \cup working' \cup waiting' \cup resumed'
               \subseteq Message
         /\ replies' \subseteq [m : Message, ok : BOOLEAN]
         /\ \A m \in queue' \cup unacked' \cup working' \cup waiting' \cup resumed' :
               m.hop <= Len(Path(m))
         /\ \A m \in waiting' \cup resumed' : m.hop < Len(Path(m))

LEMMA MovesType ==
    ASSUME TypeInv, Moves, UNCHANGED <<route, calls>>,
           up' \in [Services -> BOOLEAN], crashes' \in 0 .. MaxCrashes,
           runs' \in [Calls -> [Hops -> Nat]], failed' \in [Calls -> Nat],
           lost' \subseteq Calls
    PROVE  TypeInv'
<1> USE DEF TypeInv
<1>1. \A m : Path(m)' = Path(m)
    BY RouteKept
<1>2. \A c \in Calls : Counted(c)'
    BY DEF Counted, Before, calls
<1>3. TypeOK'
    BY <1>1 DEF TypeOK, Moves, calls, AtWork
<1>4. QED  BY <1>2, <1>3

LEMMA GatewayTypes ==
    ASSUME TypeInv, NEW c \in Calls, Steps(c)
    PROVE  TypeInv'
<1> USE DEF TypeInv
<1>1. \A m : Path(m)' = Path(m)
    BY RouteKept DEF Steps
<1>2. sent' \in [Calls -> 0 .. 5] /\ \A d \in Calls \ {c} : sent'[d] = sent[d]
  <2>1. CASE UNCHANGED <<sent, queue>>
      BY <2>1 DEF TypeOK
  <2>2. CASE \E q : Ask(c, q) /\ sent[c] < 5
    <3>1. sent' = [sent EXCEPT ![c] = sent[c] + 1] /\ sent[c] < 5
        BY <2>2 DEF Ask
    <3>2. sent[c] \in 0 .. 5
        BY DEF TypeOK
    <3>3. sent[c] + 1 \in 0 .. 5
        BY <3>1, <3>2
    <3>4. QED  BY <3>1, <3>3 DEF TypeOK
  <2>3. QED  BY <2>1, <2>2 DEF Steps
<1>3. \A d \in Calls : Counted(d)'
  <2>1. SUFFICES ASSUME NEW d \in Calls \ {c} PROVE Counted(d)'
      BY DEF Steps
  <2>2. /\ Counted(d) /\ stage'[d] = stage[d] /\ passed'[d] = passed[d]
        /\ caught'[d] = caught[d] /\ sent'[d] = sent[d] /\ route' = route
      BY <1>2 DEF Steps
  <2>3. QED  BY <2>2 DEF Counted, Before
<1>4. queue' \subseteq Message /\ \A m \in queue' : m.hop <= Len(Path(m))
  <2>1. CASE UNCHANGED <<sent, queue>>
      BY <2>1 DEF TypeOK
  <2>2. CASE \E q \in {"verify", "decode", "run"} : Ask(c, q) /\ sent[c] < 5
      BY <2>2, Asked DEF Ask, TypeOK
  <2>3. QED  BY <2>1, <2>2 DEF Steps
<1>5. \A d \in Calls : stage'[d] = "route" =>
          sent'[d] - route[d].guards - (IF route[d].decode THEN 1 ELSE 0) \in 1 .. 2
  <2>1. SUFFICES ASSUME NEW d \in Calls, stage'[d] = "route"
                 PROVE  sent'[d] - route[d].guards - (IF route[d].decode THEN 1 ELSE 0)
                            \in 1 .. 2
      OBVIOUS
  <2>2. route' = route /\ sent'[d] - Before(d) \in 1 .. 2
      BY <1>3, <2>1 DEF Counted, Steps, Before
  <2>3. route[d].guards \in 0 .. 2 /\ sent'[d] \in 0 .. 5
      BY <1>2, RouteFields DEF TypeOK
  <2>4. QED  BY <2>2, <2>3 DEF Before
<1>6. /\ UNCHANGED <<route, unacked, kept, working, waiting, resumed, up, crashes,
                     runs, failed, lost>>
      /\ replies' \subseteq replies
      /\ stage' \in [Calls -> {"new", "guard", "user", "route", "answered"}]
      /\ passed' \in [Calls -> 0 .. 2] /\ caught' \in [Calls -> BOOLEAN]
    BY DEF Steps, work, power, past
<1>7. \A S \in {queue', unacked', kept', working', waiting', resumed'} : S \subseteq Message
    BY <1>4, <1>6 DEF TypeOK
<1>8. \A m \in queue' \cup unacked' \cup AtWork' : m.hop <= Len(Path(m)')
    BY <1>1, <1>4, <1>6 DEF TypeOK, AtWork
<1>9. \A m \in waiting' \cup resumed' : m.hop < Len(Path(m)')
    BY <1>1, <1>6 DEF TypeOK
<1>10. /\ replies' \subseteq [m : Message, ok : BOOLEAN] /\ route' \in [Calls -> Route]
       /\ up' \in [Services -> BOOLEAN] /\ crashes' \in 0 .. MaxCrashes
       /\ runs' \in [Calls -> [Hops -> Nat]] /\ failed' \in [Calls -> Nat]
       /\ lost' \subseteq Calls
    BY <1>6 DEF TypeOK
<1>11. TypeOK'
    BY <1>2, <1>5, <1>6, <1>7, <1>8, <1>9, <1>10 DEF TypeOK
<1>12. QED  BY <1>3, <1>11

(* Messages of the type invariant. *)
LEMMA TypedMessages ==
    ASSUME TypeOK
    PROVE  /\ \A m \in queue \cup unacked \cup AtWork \cup kept : m \in Message
           /\ \A x \in replies : x.m \in Message /\ x.ok \in BOOLEAN
           /\ \A m \in Message : /\ m.call \in Calls /\ m.hop \in Hops /\ m.no \in Int
                                 /\ m.asks \in {"verify", "decode", "run"}
    BY DEF TypeOK, AtWork, Message, Hops

LEMMA NextHop ==
    ASSUME NEW h \in Hops, NEW n \in Hops, h < n
    PROVE  h + 1 \in Hops /\ h + 1 <= n /\ n # 1
    BY DEF Hops

(* A waiting handler has a service to ask. *)
LEMMA InnerHop ==
    ASSUME TypeOK, NEW m \in Message, m.hop < Len(Path(m))
    PROVE  /\ Inner(m) \in Message /\ m.asks = "run"
           /\ Inner(m).call = m.call /\ Inner(m).no = m.no /\ Inner(m).asks = m.asks
           /\ Inner(m).hop = m.hop + 1
           /\ Path(Inner(m)) = Path(m) /\ Acks(Inner(m)) = Acks(m)
           /\ Inner(m).hop <= Len(Path(m))
<1>1. Len(Path(m)) \in Hops /\ (m.asks # "run" => Len(Path(m)) = 1)
    BY PathLen DEF TypeOK
<1>2. m.hop \in Hops
    BY DEF Message
<1>3. m.hop + 1 \in Hops /\ m.hop + 1 <= Len(Path(m)) /\ m.asks = "run"
    BY <1>1, <1>2, NextHop
<1>4. QED  BY <1>3, InnerMessage DEF Path, Acks
LEMMA DeliverTypes == ASSUME TypeInv, NEW m \in queue, Deliver(m) PROVE TypeInv'
<1>1. Moves
    BY DEF Deliver, Moves, TypeInv, TypeOK, AtWork, work
<1>2. QED  BY <1>1, MovesType DEF Deliver, calls, power, past, TypeInv, TypeOK

LEMMA StartTypes == ASSUME TypeInv, NEW m \in unacked, Start(m) PROVE TypeInv'
<1>1. Moves
    BY DEF Start, Moves, TypeInv, TypeOK, AtWork
<1>2. m.call \in Calls /\ m.hop \in Hops
    BY DEF TypeInv, TypeOK, Message
<1>3. runs' \in [Calls -> [Hops -> Nat]]
    BY <1>2 DEF Start, Begun, TypeInv, TypeOK
<1>4. QED  BY <1>1, <1>3, MovesType DEF Start, calls, power, TypeInv, TypeOK

LEMMA NoHandlerTypes == ASSUME TypeInv, NEW m \in unacked, NoHandler(m) PROVE TypeInv'
<1>1. m \in Message /\ [m |-> m, ok |-> FALSE] \in [m : Message, ok : BOOLEAN]
    BY DEF TypeInv, TypeOK
<1>2. Moves
    BY <1>1 DEF NoHandler, Moves, TypeInv, TypeOK, AtWork, work
<1>3. QED  BY <1>2, MovesType DEF NoHandler, calls, power, past, TypeInv, TypeOK

LEMMA AskInnerTypes == ASSUME TypeInv, NEW m \in working, AskInner(m) PROVE TypeInv'
<1>1. m \in Message /\ m.hop < Len(Path(m))
    BY DEF TypeInv, TypeOK, AskInner
<1>2. Inner(m) \in Message /\ Inner(m).hop <= Len(Path(Inner(m)))
    BY <1>1, InnerHop DEF TypeInv
<1>3. Moves
    BY <1>1, <1>2 DEF AskInner, Moves, TypeInv, TypeOK, AtWork
<1>4. QED  BY <1>3, MovesType DEF AskInner, calls, power, past, TypeInv, TypeOK

LEMMA ResumeTypes == ASSUME TypeInv, NEW m \in waiting, Resume(m) PROVE TypeInv'
<1>1. Moves
    BY DEF Resume, Moves, TypeInv, TypeOK, AtWork, broker
<1>2. QED  BY <1>1, MovesType DEF Resume, calls, power, past, TypeInv, TypeOK

LEMMA FinishTypes == ASSUME TypeInv, NEW m \in working \cup resumed, Finish(m) PROVE TypeInv'
<1>1. PICK ok \in BOOLEAN :
          /\ replies' = replies \cup {[m |-> m, ok |-> ok]}
          /\ failed' = IF m.asks = "run" /\ m.hop = 1 /\ ~ok
                       THEN [failed EXCEPT ![m.call] = @ + 1] ELSE failed
    BY DEF Finish
<1>2. m \in Message /\ m.call \in Calls
    BY DEF TypeInv, TypeOK, Message
<1>3. failed' \in [Calls -> Nat]
    BY <1>1, <1>2 DEF TypeInv, TypeOK
<1>4. Moves
    BY <1>1, <1>2 DEF Finish, Moves, TypeInv, TypeOK, AtWork, broker
<1>5. QED  BY <1>3, <1>4, MovesType DEF Finish, calls, power, TypeInv, TypeOK

LEMMA CrashTypes ==
    ASSUME TypeInv, \A m \in kept : Located(m), NEW s \in Services, Crash(s)
    PROVE  TypeInv'
<1>1. Moves
    BY DEF Crash, Died, Of, Moves, TypeInv, TypeOK, AtWork, Located
<1>2. up' \in [Services -> BOOLEAN] /\ crashes' \in 0 .. MaxCrashes
    BY RpcAssumption DEF Crash, Died, TypeInv, TypeOK
<1>3. lost' \subseteq Calls
    BY DEF Crash, Died, Of, TypeInv, TypeOK, AtWork, Message
<1>4. QED  BY <1>1, <1>2, <1>3, MovesType DEF Crash, Died, calls, TypeInv, TypeOK

LEMMA RestartTypes == ASSUME TypeInv, NEW s \in Services, Restart(s) PROVE TypeInv'
<1>1. Moves
    BY DEF Restart, Moves, TypeInv, TypeOK, AtWork, broker, work
<1>2. QED  BY <1>1, MovesType DEF Restart, calls, past, TypeInv, TypeOK
--------------------------------------------------------------------------------
(* A step of the gateway *)

(* Once the answer a call awaits is there, nobody who acknowledged works for *)
(* the call any more.                                                       *)
LEMMA Quiet ==
    ASSUME TypeInv, Places, Chain, NEW c \in Calls, NEW x \in Awaited(c),
           stage[c] \in {"guard", "user", "route"},
           NEW m \in Message, m.call = c, Acks(m)
    PROVE  ~Live(m) /\ \A y \in replies : y.m = m => y = x
<1> SUFFICES ASSUME Present(m)
             PROVE  ~Live(m) /\ \A y \in replies : y.m = m => y = x
    BY DEF Present, Replied
<1>0. x.m \in Message /\ m.asks \in {"verify", "decode", "run"} /\ m.hop \in Hops
      /\ x.m.asks \in {"verify", "decode", "run"}
    BY TypedMessages DEF TypeInv, Awaited
<1>1. /\ x \in replies /\ x.m.call = c /\ x.m.no = sent[c] /\ x.m.hop = 1 /\ Located(x.m)
    BY DEF Awaited, Places
<1>2. m.no = sent[c] /\ stage[c] = Awaiting(m.asks)
    BY DEF Present, Live, Replied, Places, Located
<1>3. Acks(x.m)
  <2>1. SUFFICES ASSUME ~Acks(x.m) PROVE FALSE
      OBVIOUS
  <2>2. stage[c] = "route" /\ route[c].pattern # "acks"
      BY <1>1, <2>1 DEF Located, Acks
  <2>3. QED  BY <1>0, <1>2, <2>2 DEF Awaiting, Acks
<1>4. x.m.asks = m.asks
    BY <1>0, <1>1, <1>2, <1>3 DEF Located, Awaiting
<1>5. Single(x.m) /\ Replied(x.m)
    BY <1>0, <1>1, <1>3 DEF Chain, Replied
<1>6. CASE m.hop = 1
  <2>1. m = x.m
      BY <1>0, <1>1, <1>2, <1>4, <1>6, MessageEq
  <2>2. ~Live(m)
      BY <1>5, <2>1 DEF Single, Live, AtWork
  <2>3. \A y \in replies : y.m = m => y = x
      BY <1>1, <1>3, <2>1 DEF Chain
  <2>4. QED  BY <2>2, <2>3
<1>7. CASE m.hop # 1
  <2>1. Chained(x.m, m) /\ Present(x.m) /\ x.m.hop < m.hop
      BY <1>0, <1>1, <1>5, <1>7 DEF Chain, Present, Hops
  <2>2. x.m \in waiting
      BY <1>1, <1>3, <2>1 DEF Chained
  <2>3. QED  BY <1>5, <2>2 DEF Single
<1>8. QED  BY <1>6, <1>7

(* Nothing that acknowledges is left of the call but what the step asks. *)
Silent(c) == \A m \in Message : m.call = c /\ Acks(m)
                 => ~Live(m) /\ \A y \in replies' : y.m # m

LEMMA GatewaySilent ==
    ASSUME TypeInv, Places, Chain, NEW c \in Calls,
           Arrive(c) \/ Guarded(c) \/ Decoded(c) \/ Routed(c)
    PROVE  Silent(c)
<1>1. CASE Arrive(c)
  <2>1. stage[c] = "new" /\ replies' = replies
      BY <1>1 DEF Arrive
  <2>2. QED  BY <2>1 DEF Silent, Places, Located, Awaiting, Live
<1>2. CASE Guarded(c) \/ Decoded(c) \/ Routed(c)
  <2>1. PICK x \in Awaited(c) : replies' = replies \ {x}
      BY <1>2 DEF Guarded, Decoded, Routed
  <2>2. stage[c] \in {"guard", "user", "route"}
      BY <1>2 DEF Guarded, Decoded, Routed
  <2>3. QED  BY <2>1, <2>2, Quiet DEF Silent
<1>3. QED  BY <1>1, <1>2

LEMMA TriesStep ==
    ASSUME TypeInv, NEW c \in Calls, Steps(c)
    PROVE  /\ Tries(c) \in Nat /\ Tries(c)' \in Nat /\ Tries(c) <= Tries(c)'
           /\ stage'[c] = "route" => Tries(c) < Tries(c)'
           /\ Tries(c)' = 2 => \/ Tries(c) = 2
                               \/ /\ stage[c] = "route" /\ sent'[c] # sent[c]
                                  /\ route[c].decode
<1>1. /\ route[c].guards \in 0 .. 2 /\ sent[c] \in 0 .. 5 /\ passed[c] \in 0 .. 2
      /\ stage[c] \in {"new", "guard", "user", "route", "answered"}
      /\ Counted(c) /\ Counted(c)' /\ Before(c) \in 0 .. 3
    BY RouteFields DEF TypeInv, TypeOK, Steps, Before
<1>2. route' = route /\ Before(c)' = Before(c)
    BY DEF Steps, Before
<1>3. /\ sent'[c] \in 0 .. 5 /\ stage[c] # "answered"
      /\ stage'[c] \in {"new", "guard", "user", "route", "answered"}
      /\ sent'[c] # sent[c] => /\ sent'[c] = sent[c] + 1 /\ stage'[c] # "answered"
                               /\ stage[c] = "route" => stage'[c] = "route"
      /\ sent'[c] = sent[c] => stage'[c] = "answered"
      /\ stage[c] = "new" => sent'[c] # sent[c]
  <2>1. sent'[c] \in 0 .. 5
      BY GatewayTypes DEF TypeInv, TypeOK
  <2>2. sent'[c] # sent[c] => sent'[c] = sent[c] + 1
      BY DEF Steps, Ask, TypeInv, TypeOK
  <2>3. sent'[c] # sent[c] => /\ stage'[c] # "answered"
                              /\ stage[c] = "route" => stage'[c] = "route"
      BY DEF Steps, Awaiting
  <2>4. QED  BY <2>1, <2>2, <2>3 DEF Steps
<1>4. Tries(c) \in Nat /\ Tries(c)' \in Nat
    BY <1>1, <1>2, <1>3 DEF Tries
<1>5. stage[c] \in {"new", "guard", "user"} => sent[c] <= Before(c) /\ Tries(c) = 0
    BY <1>1 DEF Counted, Tries, Before
<1>6. CASE sent'[c] = sent[c]
    BY <1>1, <1>2, <1>3, <1>4, <1>5, <1>6 DEF Tries
<1>7. CASE sent'[c] = sent[c] + 1
  <2>1. stage'[c] # "answered"
      BY <1>1, <1>3, <1>7
  <2>2. CASE stage[c] = "route"
    <3>1. stage'[c] = "route" /\ sent'[c] # sent[c]
        BY <1>1, <1>3, <1>7, <2>2
    <3>2. sent[c] - Before(c) \in 1 .. 2 /\ sent'[c] - Before(c) \in 1 .. 2
        BY <1>1, <1>2, <2>2, <3>1 DEF Counted
    <3>3. sent'[c] - Before(c) = 2 => route[c].decode
        BY <1>1, <1>2, <1>3, <3>1 DEF Counted
    <3>4. Tries(c) = sent[c] - Before(c) /\ Tries(c)' = sent'[c] - Before(c)
        BY <1>1, <1>2, <1>3, <2>2, <3>1, <3>2 DEF Tries
    <3>5. QED  BY <1>1, <1>3, <1>7, <2>2, <3>1, <3>2, <3>3, <3>4
  <2>3. CASE stage[c] # "route"
    <3>1. Tries(c) = 0 /\ sent[c] <= Before(c)
        BY <1>1, <1>3, <1>5, <2>3
    <3>2. stage'[c] = "route" => sent'[c] - Before(c) = 1
        BY <1>1, <1>2, <1>7, <3>1 DEF Counted
    <3>3. Tries(c)' = IF stage'[c] = "route" THEN 1 ELSE 0
        BY <1>1, <1>2, <1>3, <2>1, <3>2 DEF Tries
    <3>4. QED  BY <3>1, <3>3
  <2>4. QED  BY <2>2, <2>3
<1>8. QED  BY <1>3, <1>6, <1>7
(* Every message after a step of the gateway was there, or is what it asks. *)
LEMMA NewMessage ==
    ASSUME TypeInv, NEW c \in Calls, Steps(c)
    PROVE  \/ UNCHANGED <<sent, queue>> /\ stage'[c] = "answered"
           \/ \E m \in Message :
                 /\ queue' = queue \cup {m}
                 /\ m.call = c /\ m.no = sent'[c] /\ m.hop = 1 /\ m.hop <= Len(Path(m))
                 /\ stage'[c] = Awaiting(m.asks)
                 /\ stage[c] = "route" => m.asks = "run"
                 /\ sent' = [sent EXCEPT ![c] = @ + 1] /\ sent'[c] = sent[c] + 1
<1>1. CASE UNCHANGED <<sent, queue>>
    BY <1>1 DEF Steps
<1>2. CASE ~UNCHANGED <<sent, queue>>
  <2>1. PICK q \in {"verify", "decode", "run"} :
            /\ Ask(c, q) /\ sent[c] < 5 /\ stage'[c] = Awaiting(q)
            /\ q # "run" => stage[c] # "route"
      BY <1>2 DEF Steps
  <2> DEFINE m == [call |-> c, no |-> sent[c] + 1, hop |-> 1, asks |-> q]
  <2>2. m \in Message /\ m.hop <= Len(Path(m))
      BY <2>1, Asked DEF TypeInv
  <2>3. queue' = queue \cup {m} /\ sent' = [sent EXCEPT ![c] = sent[c] + 1]
        /\ sent'[c] = sent[c] + 1
      BY <2>1 DEF Ask, TypeInv, TypeOK
  <2>4. m.call = c /\ m.no = sent'[c] /\ m.hop = 1 /\ m.asks = q
      BY <2>3
  <2>5. QED  BY <2>1, <2>2, <2>3, <2>4
<1>3. QED  BY <1>1, <1>2

LEMMA SentStep ==
    ASSUME TypeInv, NEW c \in Calls, Steps(c)
    PROVE  /\ sent[c] \in Int /\ sent'[c] \in Int /\ sent[c] <= sent'[c]
           /\ \A d \in Calls \ {c} : stage'[d] = stage[d] /\ sent'[d] = sent[d]
<1>1. sent \in [Calls -> 0 .. 5]
    BY DEF TypeInv, TypeOK
<1>2. CASE UNCHANGED <<sent, queue>>
    BY <1>1, <1>2 DEF Steps
<1>3. CASE sent' = [sent EXCEPT ![c] = @ + 1]
    BY <1>1, <1>3 DEF Steps
<1>4. QED  BY <1>2, <1>3, NewMessage

LEMMA GatewayPlaces ==
    ASSUME TypeInv, Places, NEW c \in Calls, Steps(c), Silent(c)
    PROVE  Places'
<1>0. /\ UNCHANGED <<route, unacked, kept, working, waiting, resumed>>
      /\ replies' \subseteq replies /\ AtWork' = AtWork
    BY DEF Steps, work, AtWork
<1>1. \A n : Acks(n)' = Acks(n) /\ Path(n)' = Path(n)
    BY <1>0, RouteKept
<1>2. \A d \in Calls \ {c} : stage'[d] = stage[d] /\ sent'[d] = sent[d]
    BY SentStep
<1>3. sent[c] \in Int /\ sent'[c] \in Int /\ sent[c] <= sent'[c]
    BY SentStep
<1>4. ASSUME NEW n \in Message, Located(n), n.call # c
      PROVE  Located(n)'
    BY <1>1, <1>2, <1>4, TypedMessages DEF Located, TypeInv
<1>5. ASSUME NEW n \in Message, Located(n), n.call = c, ~Acks(n)
      PROVE  Located(n)'
  <2>1. stage[c] = "route" /\ stage'[c] \in {"route", "answered"}
      BY <1>5, NewMessage DEF Located, Steps, Awaiting
  <2>2. n.no \in Int /\ n.no <= sent'[c]
      BY <1>3, <1>5, TypedMessages DEF Located, TypeInv
  <2>3. QED  BY <1>1, <1>5, <2>1, <2>2 DEF Located
<1>6. ASSUME NEW n \in queue' \ queue
      PROVE  Located(n)'
  <2>1. /\ n \in Message /\ n.call = c /\ n.no = sent'[c] /\ n.hop <= Len(Path(n))
        /\ stage'[c] = Awaiting(n.asks)
      BY <1>6, NewMessage
  <2>2. ~Acks(n) => stage'[c] = "route"
      BY <2>1 DEF Acks, Awaiting
  <2>3. n.no <= sent'[c]
      BY <1>3, <2>1
  <2>4. QED  BY <1>1, <2>1, <2>2, <2>3 DEF Located
<1>7. \A n \in queue' \cup unacked' \cup AtWork' \cup kept' : Located(n)'
  <2>1. SUFFICES ASSUME NEW n \in queue \cup unacked \cup AtWork \cup kept
                 PROVE  Located(n)'
      BY <1>0, <1>6, NewMessage
  <2>2. n \in Message /\ Located(n) /\ (n \in kept => ~Acks(n))
      BY TypedMessages DEF TypeInv, Places
  <2>3. n.call = c => ~Acks(n)
      BY <2>2 DEF Silent, Live
  <2>4. QED  BY <1>4, <1>5, <2>2, <2>3
<1>8. \A x \in replies' : Located(x.m)'
  <2>1. SUFFICES ASSUME NEW x \in replies' PROVE Located(x.m)'
      OBVIOUS
  <2>2. x.m \in Message /\ Located(x.m)
      BY <1>0, TypedMessages DEF TypeInv, Places
  <2>3. x.m.call = c => ~Acks(x.m)
      BY <2>2 DEF Silent
  <2>4. QED  BY <1>4, <1>5, <2>2, <2>3
<1>9. QED  BY <1>0, <1>1, <1>7, <1>8 DEF Places

LEMMA GatewayChain ==
    ASSUME TypeInv, Places, Chain, NEW c \in Calls, Steps(c), Silent(c)
    PROVE  Chain'
<1>0. /\ UNCHANGED <<route, unacked, kept, working, waiting, resumed>>
      /\ replies' \subseteq replies /\ AtWork' = AtWork
    BY DEF Steps, work, AtWork
<1>1. \A n : Acks(n)' = Acks(n)
    BY <1>0, RouteKept
<1>2. \A n : Replied(n)' => Replied(n)
    BY <1>0 DEF Replied
<1>3. \A n \in Message : n.call # c => (n \in queue' <=> n \in queue)
    BY NewMessage
<1>4. \A n \in Message : n.call = c /\ Acks(n) =>
          /\ n \notin unacked' \cup AtWork' /\ ~Replied(n)'
          /\ n \in queue' => n.hop = 1
    BY <1>0, NewMessage DEF Silent, Live, Replied
<1>5. ASSUME NEW n \in Message, Acks(n)
      PROVE  Single(n)'
  <2>1. CASE n.call # c
      BY <1>0, <1>2, <1>3, <1>5, <2>1 DEF Single, Chain
  <2>2. CASE n.call = c
      BY <1>0, <1>4, <1>5, <2>2 DEF Single, AtWork
  <2>3. QED  BY <2>1, <2>2
<1>6. ASSUME NEW m \in Message, NEW n \in Message
      PROVE  Chained(m, n)'
  <2>1. SUFFICES ASSUME m.call = n.call, m.hop < n.hop, Acks(m), Acks(n),
                        Present(m)', Present(n)'
                 PROVE  m \in waiting
      BY <1>0, <1>1 DEF Chained
  <2>2. CASE n.call = c
    <3>1. m.hop = 1 /\ n.hop = 1
        BY <1>0, <1>4, <2>1, <2>2 DEF Present, Live
    <3>2. QED  BY <2>1, <3>1
  <2>3. CASE n.call # c
    <3>1. Present(m) /\ Present(n)
        BY <1>0, <1>2, <1>3, <2>1, <2>3 DEF Present, Live
    <3>2. QED  BY <2>1, <3>1 DEF Chain, Chained
  <2>4. QED  BY <2>2, <2>3
<1>7. QED  BY <1>0, <1>1, <1>5, <1>6 DEF Chain

LEMMA GatewayBudget ==
    ASSUME TypeInv, Places, Chain, Budget, NEW c \in Calls, Steps(c), Silent(c)
    PROVE  Budget'
<1>0. /\ UNCHANGED <<route, unacked, working, waiting, resumed, runs, failed>>
      /\ replies' \subseteq replies
    BY DEF Steps, work, past
<1>1. SUFFICES ASSUME NEW d \in Calls, route[d].pattern = "acks"
               PROVE  /\ \A h \in Hops : runs[d][h] <= Tries(d)'
                      /\ \A m \in queue' \cup unacked \cup working : \A h \in Hops :
                            /\ m.call = d /\ m.asks = "run"
                            /\ m.hop <= h /\ (m \in working => m.hop < h)
                            => runs[d][h] < Tries(d)'
                      /\ \A x \in replies' : x.m.call = d /\ x.m.asks = "run"
                                             /\ x.m.hop = 1 /\ ~x.ok
                            => failed[d] > 0
                      /\ Tries(d)' = 2 => route[d].decode /\ failed[d] > 0
    BY <1>0 DEF Budget
<1>2. /\ \A h \in Hops : runs[d][h] \in Nat /\ runs[d][h] <= Tries(d)
      /\ \A x \in replies : x.m.call = d /\ x.m.asks = "run" /\ x.m.hop = 1 /\ ~x.ok
            => failed[d] > 0
      /\ Tries(d) = 2 => route[d].decode /\ failed[d] > 0
    BY <1>1 DEF Budget, TypeInv, TypeOK
<1>3. CASE d # c
  <2>1. Tries(d)' = Tries(d)
      BY <1>0, <1>3, SentStep DEF Tries, Before
  <2>2. \A m \in queue' : m.call = d => m \in queue
      BY <1>3, NewMessage
  <2>3. QED  BY <1>0, <1>1, <1>2, <2>1, <2>2 DEF Budget
<1>4. CASE d = c
  <2>1. /\ Tries(c) \in Nat /\ Tries(c)' \in Nat /\ Tries(c) <= Tries(c)'
        /\ stage'[c] = "route" => Tries(c) < Tries(c)'
      BY TriesStep
  <2>2. \A m \in queue' \cup unacked \cup working :
            m.call = c /\ m.asks = "run" => stage'[c] = "route"
    <3>1. SUFFICES ASSUME NEW m \in queue' \cup unacked \cup working,
                          m.call = c, m.asks = "run"
                   PROVE  stage'[c] = "route"
        OBVIOUS
    <3>2. Acks(m)
        BY <1>1, <1>4, <3>1 DEF Acks
    <3>3. m \notin queue \cup unacked \cup working
        BY <3>1, <3>2, TypedMessages DEF Silent, Live, AtWork, TypeInv
    <3>4. QED  BY <3>1, <3>3, NewMessage DEF Awaiting
  <2>3. Tries(c)' = 2 => route[c].decode /\ failed[c] > 0
    <3>1. CASE Tries(c) = 2
        BY <1>2, <1>4, <3>1
    <3>2. CASE stage[c] = "route" /\ sent'[c] # sent[c] /\ route[c].decode
      <4>1. PICK x \in Awaited(c) : ~x.ok
          BY <3>2 DEF Steps
      <4>2. x \in replies /\ x.m.call = c /\ x.m.hop = 1 /\ Located(x.m)
            /\ x.m.asks \in {"verify", "decode", "run"}
          BY TypedMessages DEF Awaited, Places, TypeInv
      <4>3. x.m.asks = "run"
          BY <3>2, <4>2 DEF Located, Acks, Awaiting
      <4>4. QED  BY <1>2, <1>4, <3>2, <4>1, <4>2, <4>3
    <3>3. QED  BY <3>1, <3>2, TriesStep
  <2>4. QED  BY <1>0, <1>2, <1>4, <2>1, <2>2, <2>3
<1>5. QED  BY <1>3, <1>4
--------------------------------------------------------------------------------
(* A step of a service or of the broker *)

Rest == Places /\ Chain /\ Budget

(* What such a step leaves alone. *)
LEMMA Aside ==
    ASSUME UNCHANGED <<route, calls>>
    PROVE  \A m : /\ Acks(m)' = Acks(m) /\ Path(m)' = Path(m) /\ Located(m)' = Located(m)
    BY RouteKept, LocatedStays DEF calls

LEMMA TriesAside ==
    ASSUME UNCHANGED <<route, calls>>
    PROVE  \A c : Tries(c)' = Tries(c)
    BY TriesStay DEF calls

LEMMA TriesNat ==
    ASSUME TypeInv, NEW c \in Calls
    PROVE  Tries(c) \in Nat
<1>1. route[c].guards \in 0 .. 2 /\ sent[c] \in 0 .. 5
    BY RouteFields DEF TypeInv, TypeOK
<1>2. QED  BY <1>1 DEF Tries, Before

(* A message moves on: to its service, or to the handler, or is put back. *)
LEMMA DeliverRest == ASSUME TypeInv, Rest, NEW m \in queue, Deliver(m) PROVE Rest'
<1> USE DEF Rest
<1>0. /\ UNCHANGED <<route, calls, kept, working, waiting, resumed, replies, runs, failed>>
      /\ queue' = queue \ {m} /\ unacked' = unacked \cup {m} /\ m \in queue
      /\ AtWork' = AtWork
    BY DEF Deliver, work, past, AtWork
<1>1. \A n : Acks(n)' = Acks(n) /\ Path(n)' = Path(n) /\ Located(n)' = Located(n)
    BY <1>0, Aside
<1>2. Places'
    BY <1>0, <1>1 DEF Places
<1>3. \A n : Present(n)' = Present(n) /\ Replied(n)' = Replied(n)
    BY <1>0 DEF Present, Live, Replied
<1>4. Chain'
    BY <1>0, <1>1, <1>3 DEF Chain, Single, Chained
<1>5. Budget'
    BY <1>0, TriesAside DEF Budget
<1>6. QED  BY <1>2, <1>4, <1>5

LEMMA StartRest == ASSUME TypeInv, Rest, NEW m \in unacked, Start(m) PROVE Rest'
<1> USE DEF Rest
<1>0. /\ UNCHANGED <<route, calls, queue, waiting, resumed, replies, failed>>
      /\ unacked' = unacked \ {m} /\ working' = working \cup {m}
      /\ kept' = IF Acks(m) THEN kept ELSE kept \cup {m}
      /\ m \in Message
    BY DEF Start, TypeInv, TypeOK
<1>1. \A n : Acks(n)' = Acks(n) /\ Path(n)' = Path(n) /\ Located(n)' = Located(n)
    BY <1>0, Aside
<1>2. Places'
    BY <1>0, <1>1 DEF Places, AtWork
<1>3. \A n : Present(n)' = Present(n) /\ Replied(n)' = Replied(n)
    BY <1>0 DEF Present, Live, Replied, AtWork
<1>4. Chain'
    BY <1>0, <1>1, <1>3 DEF Chain, Single, Chained, AtWork
<1>5. Budget'
  <2>1. SUFFICES ASSUME NEW c \in Calls, route[c].pattern = "acks"
                 PROVE  /\ \A h \in Hops : runs'[c][h] <= Tries(c)
                        /\ \A n \in queue' \cup unacked' \cup working' : \A h \in Hops :
                              /\ n.call = c /\ n.asks = "run"
                              /\ n.hop <= h /\ (n \in working' => n.hop < h)
                              => runs'[c][h] < Tries(c)
      BY <1>0, TriesAside DEF Budget
  <2>2. \A h \in Hops : runs[c][h] \in Nat /\ runs[c][h] <= Tries(c)
      BY <2>1 DEF Budget, TypeInv, TypeOK
  <2>3. m.call \in Calls /\ m.hop \in Hops
      BY <1>0 DEF Message
  <2>4. CASE m.call = c /\ m.asks = "run"
    <3>1. /\ \A h \in Hops : runs'[c][h] = IF h = m.hop THEN runs[c][h] + 1 ELSE runs[c][h]
          /\ runs[c][m.hop] < Tries(c) /\ Acks(m) /\ m \notin working
      BY <1>0, <2>1, <2>3, <2>4 DEF Start, Begun, Budget, Acks, TypeInv, TypeOK, Hops,
                                    Chain, Single, AtWork
    <3>2. \A n \in queue' \cup unacked' \cup working' :
              n.call = c /\ n.asks = "run" => n = m
      <4>1. SUFFICES ASSUME NEW n \in queue \cup unacked \cup working,
                            n.call = c, n.asks = "run"
                     PROVE  n = m
          BY <1>0
      <4>2. /\ n \in Message /\ n.hop \in Hops /\ Acks(n) /\ n.no = m.no
            /\ Present(n) /\ Present(m)
          BY <1>0, <2>4, <3>1, <4>1, TypedMessages
             DEF TypeInv, Acks, Places, Located, Present, Live, AtWork
      <4>3. m \notin waiting /\ n \notin waiting
          BY <1>0, <3>1, <4>1, <4>2 DEF Chain, Single, AtWork
      <4>4. ~(m.hop < n.hop) /\ ~(n.hop < m.hop)
          BY <1>0, <2>4, <3>1, <4>1, <4>2, <4>3 DEF Chain, Chained
      <4>5. m.hop = n.hop
          BY <2>3, <4>2, <4>4 DEF Hops
      <4>6. QED  BY <1>0, <2>4, <4>1, <4>2, <4>5, MessageEq
    <3>3. \A h \in Hops : m.hop < h => runs[c][h] < Tries(c)
        BY <2>1, <2>3, <2>4, <3>1 DEF Budget, Hops
    <3>4. \A h \in Hops : runs'[c][h] <= Tries(c)
        BY <2>2, <3>1, TriesNat
    <3>5. m \in working' /\ \A h \in Hops : m.hop < h => runs'[c][h] < Tries(c)
        BY <1>0, <2>3, <3>1, <3>3 DEF Hops
    <3>6. QED  BY <3>2, <3>4, <3>5
  <2>5. CASE ~(m.call = c /\ m.asks = "run")
    <3>1. runs'[c] = runs[c]
        BY <2>3, <2>5 DEF Start, Begun, TypeInv, TypeOK
    <3>2. \A n \in queue' \cup unacked' \cup working' : n.call = c /\ n.asks = "run" =>
              n \in queue \cup unacked \cup working /\ (n \in working => n \in working')
        BY <1>0, <2>5
    <3>3. QED  BY <1>0, <2>1, <2>2, <3>1, <3>2 DEF Budget
  <2>6. QED  BY <2>4, <2>5
<1>6. QED  BY <1>2, <1>4, <1>5

LEMMA NoHandlerRest == ASSUME TypeInv, Rest, NEW m \in unacked, NoHandler(m) PROVE Rest'
<1> USE DEF Rest
<1>0. /\ UNCHANGED <<route, calls, queue, working, waiting, resumed, runs, failed>>
      /\ unacked' = unacked \ {m} /\ kept' = kept \cup {m} /\ AtWork' = AtWork
      /\ replies' = replies \cup {[m |-> m, ok |-> FALSE]}
      /\ ~Acks(m) /\ Located(m) /\ m.asks = "run" /\ route[m.call].pattern = "missing"
    BY DEF NoHandler, work, past, AtWork, Handled, Acks, Places
<1>1. \A n : Acks(n)' = Acks(n) /\ Path(n)' = Path(n) /\ Located(n)' = Located(n)
    BY <1>0, Aside
<1>2. Places'
    BY <1>0, <1>1 DEF Places
<1>3. \A n : Acks(n) => Present(n)' = Present(n) /\ Replied(n)' = Replied(n)
    BY <1>0 DEF Present, Live, Replied
<1>4. Chain'
    BY <1>0, <1>1, <1>3 DEF Chain, Single, Chained
<1>5. Budget'
    BY <1>0, TriesAside DEF Budget
<1>6. QED  BY <1>2, <1>4, <1>5
LEMMA AskInnerRest == ASSUME TypeInv, Rest, NEW m \in working, AskInner(m) PROVE Rest'
<1> USE DEF Rest
<1>0. /\ UNCHANGED <<route, calls, unacked, kept, resumed, replies, runs, failed>>
      /\ queue' = queue \cup {Inner(m)}
      /\ working' = working \ {m} /\ waiting' = waiting \cup {m}
      /\ m \in Message /\ m \in working /\ Located(m) /\ m.hop < Len(Path(m))
      /\ m.hop \in Hops
    BY TypedMessages DEF AskInner, past, TypeInv, TypeOK, AtWork, Places
<1>1. \A n : Acks(n)' = Acks(n) /\ Path(n)' = Path(n) /\ Located(n)' = Located(n)
    BY <1>0, Aside
<1>2. /\ Inner(m) \in Message /\ m.asks = "run"
      /\ Inner(m).call = m.call /\ Inner(m).no = m.no /\ Inner(m).asks = m.asks
      /\ Inner(m).hop = m.hop + 1
      /\ Path(Inner(m)) = Path(m) /\ Acks(Inner(m)) = Acks(m)
      /\ Inner(m).hop <= Len(Path(m))
    BY <1>0, InnerHop DEF TypeInv
<1>3. Places'
    BY <1>0, <1>1, <1>2 DEF Places, AtWork, Located
<1>4. ASSUME Acks(m), NEW n \in Message, n.call = m.call, Acks(n), m.hop < n.hop
      PROVE  ~Present(n)
  <2>1. m \notin waiting /\ Present(m)
      BY <1>0, <1>4 DEF Chain, Single, Present, Live, AtWork
  <2>2. QED  BY <1>0, <1>4, <2>1 DEF Chain, Chained
<1>5. Acks(m) => ~Present(Inner(m))
  <2>1. m.hop < Inner(m).hop
      BY <1>0, <1>2 DEF Hops
  <2>2. QED  BY <1>2, <1>4, <2>1
<1>6. \A n : n # Inner(m) => Present(n)' = Present(n)
    BY <1>0 DEF Present, Live, Replied, AtWork
<1>7. \A n : Replied(n)' = Replied(n)
    BY <1>0 DEF Replied
<1>8. ASSUME NEW n \in Message, Acks(n)
      PROVE  Single(n)'
  <2>1. CASE n = Inner(m)
      BY <1>0, <1>2, <1>5, <1>7, <1>8, <2>1 DEF Single, Present, Live, AtWork, Hops
  <2>2. CASE n # Inner(m)
      BY <1>0, <1>7, <1>8, <2>2 DEF Single, Chain, AtWork
  <2>3. QED  BY <2>1, <2>2
<1>9. ASSUME NEW n \in Message, NEW o \in Message
      PROVE  Chained(n, o)'
  <2>1. SUFFICES ASSUME n.call = o.call, n.hop < o.hop, Acks(n), Acks(o),
                        Present(n)', Present(o)'
                 PROVE  n \in waiting \cup {m}
      BY <1>0, <1>1 DEF Chained
  <2>2. n.hop \in Hops /\ o.hop \in Hops
      BY DEF Message
  <2>3. CASE n = Inner(m)
    <3>1. m.hop < o.hop /\ o.call = m.call /\ o # Inner(m) /\ Acks(m)
        BY <1>0, <1>2, <2>1, <2>2, <2>3 DEF Hops
    <3>2. QED  BY <1>4, <1>6, <2>1, <3>1
  <2>4. CASE n # Inner(m) /\ o # Inner(m)
      BY <1>6, <2>1, <2>4 DEF Chain, Chained
  <2>5. CASE n # Inner(m) /\ o = Inner(m)
    <3>1. n.call = m.call /\ Acks(m) /\ Present(n) /\ Present(m) /\ n.hop <= m.hop
        BY <1>0, <1>2, <1>6, <2>1, <2>2, <2>5 DEF Present, Live, AtWork, Hops
    <3>2. CASE n.hop < m.hop
        BY <1>0, <2>1, <3>1, <3>2 DEF Chain, Chained
    <3>3. CASE n.hop = m.hop
      <4>1. n.no = m.no /\ n.asks = m.asks
        <5>1. Located(n) /\ n.asks \in {"verify", "decode", "run"}
            BY <3>1, TypedMessages DEF TypeInv, Places, Present, Live, Replied
        <5>2. QED  BY <1>0, <1>2, <2>1, <3>1, <5>1 DEF Located, Awaiting
      <4>2. QED  BY <1>0, <3>1, <3>3, <4>1, MessageEq
    <3>4. QED  BY <1>0, <2>2, <3>1, <3>2, <3>3 DEF Hops
  <2>6. QED  BY <2>3, <2>4, <2>5
<1>10. Chain'
    BY <1>0, <1>1, <1>8, <1>9 DEF Chain
<1>11. Budget'
  <2>1. \A c \in Calls : route[c].pattern = "acks" => \A h \in Hops :
            Inner(m).call = c /\ Inner(m).hop <= h => runs[c][h] < Tries(c)
    <3>1. \A h \in Hops : Inner(m).hop <= h => m.hop <= h /\ m.hop < h
        BY <1>0, <1>2 DEF Hops
    <3>2. QED  BY <1>0, <1>2, <3>1 DEF Budget
  <2>2. \A c \in Calls : Tries(c)' = Tries(c)
      BY <1>0, TriesAside
  <2>3. SUFFICES ASSUME NEW c \in Calls, route[c].pattern = "acks",
                        NEW n \in queue' \cup unacked' \cup working', NEW h \in Hops,
                        n.call = c, n.asks = "run", n.hop <= h,
                        n \in working' => n.hop < h
                 PROVE  runs[c][h] < Tries(c)
      BY <1>0, <2>2 DEF Budget
  <2>4. CASE n = Inner(m)
      BY <2>1, <2>3, <2>4
  <2>5. CASE n # Inner(m)
    <3>1. n \in queue \cup unacked => n \notin working
        BY <2>3, TypedMessages DEF Chain, Single, AtWork, Acks, TypeInv
    <3>2. n \in queue \cup unacked \cup working /\ (n \in working => n \in working')
        BY <1>0, <2>3, <2>5, <3>1
    <3>3. QED  BY <2>3, <3>2 DEF Budget
  <2>6. QED  BY <2>4, <2>5
<1>12. QED  BY <1>3, <1>10, <1>11
LEMMA ResumeRest == ASSUME TypeInv, Rest, NEW m \in waiting, Resume(m) PROVE Rest'
<1> USE DEF Rest
<1>1. PICK x \in replies : x.m = Inner(m) /\ replies' = replies \ {x}
    BY DEF Resume
<1>2. /\ UNCHANGED <<route, calls, queue, unacked, kept, working, runs, failed>>
      /\ waiting' = waiting \ {m} /\ resumed' = resumed \cup {m} /\ AtWork' = AtWork
      /\ m \in Message /\ m \in waiting /\ m.hop < Len(Path(m)) /\ m.hop \in Hops
    BY TypedMessages DEF Resume, broker, past, TypeInv, TypeOK, AtWork, Places
<1>3. \A n : Acks(n)' = Acks(n) /\ Path(n)' = Path(n) /\ Located(n)' = Located(n)
    BY <1>2, Aside
<1>4. /\ Inner(m) \in Message /\ Inner(m).call = m.call /\ Inner(m).hop = m.hop + 1
      /\ Inner(m).no = m.no /\ Inner(m).asks = m.asks /\ Acks(Inner(m)) = Acks(m)
    BY <1>2, InnerHop DEF TypeInv
<1>5. Places'
    BY <1>1, <1>2, <1>3 DEF Places
<1>6. \A n : (Replied(n)' => Replied(n)) /\ (Present(n)' => Present(n))
    BY <1>1, <1>2 DEF Replied, Present, Live
<1>7. ASSUME NEW n \in Message, Acks(n)
      PROVE  Single(n)'
    BY <1>2, <1>6, <1>7 DEF Single, Chain, AtWork
<1>8. ASSUME NEW o \in Message, o.call = m.call, m.hop < o.hop, Acks(m), Acks(o)
      PROVE  ~Present(o)'
  <2>1. Replied(Inner(m)) /\ Present(Inner(m)) /\ Acks(Inner(m))
      BY <1>1, <1>4, <1>8 DEF Replied, Present
  <2>2. ~Live(Inner(m)) /\ ~Replied(Inner(m))'
      BY <1>1, <1>4, <2>1 DEF Chain, Single, Live, AtWork, Replied
  <2>3. CASE o.hop = m.hop + 1
    <3>1. SUFFICES ASSUME Present(o)' PROVE FALSE
        OBVIOUS
    <3>2. o.no = m.no /\ o.asks = m.asks
      <4>1. Located(o) /\ Located(m) /\ o.asks \in {"verify", "decode", "run"}
            /\ m.asks \in {"verify", "decode", "run"}
          BY <1>2, <1>6, <3>1, TypedMessages
             DEF TypeInv, Places, Present, Live, Replied, AtWork
      <4>2. QED  BY <1>8, <4>1 DEF Located, Awaiting
    <3>3. o = Inner(m)
        BY <1>4, <1>8, <2>3, <3>2, MessageEq
    <3>4. QED  BY <1>2, <2>2, <3>1, <3>3 DEF Present, Live
  <2>4. CASE o.hop # m.hop + 1
    <3>1. Inner(m).hop < o.hop
        BY <1>2, <1>4, <1>8, <2>4, TypedMessages DEF TypeInv, Hops
    <3>2. Inner(m) \in waiting \/ ~Present(o)
        BY <1>4, <1>8, <2>1, <3>1 DEF Chain, Chained
    <3>3. QED  BY <1>6, <2>2, <3>2 DEF Live, AtWork
  <2>5. QED  BY <2>3, <2>4
<1>9. ASSUME NEW n \in Message, NEW o \in Message
      PROVE  Chained(n, o)'
    BY <1>2, <1>3, <1>6, <1>8 DEF Chain, Chained
<1>10. Chain'
    BY <1>1, <1>3, <1>7, <1>9 DEF Chain
<1>11. Budget'
    BY <1>1, <1>2, TriesAside DEF Budget
<1>12. QED  BY <1>5, <1>10, <1>11

LEMMA FinishRest ==
    ASSUME TypeInv, Rest, NEW m \in working \cup resumed, Finish(m)
    PROVE  Rest'
<1> USE DEF Rest
<1>1. PICK ok \in BOOLEAN :
          /\ replies' = replies \cup {[m |-> m, ok |-> ok]}
          /\ failed' = IF m.asks = "run" /\ m.hop = 1 /\ ~ok
                       THEN [failed EXCEPT ![m.call] = @ + 1] ELSE failed
    BY DEF Finish
<1>2. /\ UNCHANGED <<route, calls, queue, unacked, kept, waiting, runs>>
      /\ working' = working \ {m} /\ resumed' = resumed \ {m}
      /\ m \in Message /\ m.call \in Calls /\ Located(m)
    BY TypedMessages DEF Finish, broker, TypeInv, TypeOK, AtWork, Places
<1>3. \A n : Acks(n)' = Acks(n) /\ Path(n)' = Path(n) /\ Located(n)' = Located(n)
    BY <1>2, Aside
<1>4. Places'
    BY <1>1, <1>2, <1>3 DEF Places, AtWork
<1>5. /\ \A n : Replied(n)' => (Replied(n) \/ n = m)
      /\ \A n : Replied(n) => Replied(n)'
    BY <1>1 DEF Replied
<1>6. \A n : Present(n)' => Present(n)
    BY <1>2, <1>5 DEF Present, Live, AtWork
<1>7. Acks(m) => m \notin queue \cup unacked \cup waiting /\ ~Replied(m)
    BY <1>2 DEF Chain, Single, AtWork
<1>8. ASSUME NEW n \in Message, Acks(n)
      PROVE  Single(n)'
    BY <1>2, <1>5, <1>7, <1>8 DEF Single, Chain, AtWork
<1>9. \A x, y \in replies' : Acks(x.m) /\ x.m = y.m => x = y
    BY <1>1, <1>7 DEF Chain, Replied
<1>10. Chain'
    BY <1>2, <1>3, <1>6, <1>8, <1>9 DEF Chain, Chained
<1>11. Budget'
  <2>1. /\ \A c \in Calls : failed[c] \in Nat /\ failed'[c] \in Nat /\ failed[c] <= failed'[c]
        /\ m.asks = "run" /\ m.hop = 1 /\ ~ok => failed'[m.call] > 0
      BY <1>1, <1>2 DEF TypeInv, TypeOK
  <2>2. /\ runs' = runs /\ route' = route /\ working' \subseteq working
        /\ queue' = queue /\ unacked' = unacked
        /\ \A c \in Calls : Tries(c)' = Tries(c)
      BY <1>2, TriesAside
  <2>3. ASSUME NEW c \in Calls, NEW x \in replies', route[c].pattern = "acks",
               x.m.call = c, x.m.asks = "run", x.m.hop = 1, ~x.ok
        PROVE  failed'[c] > 0
    <3>1. CASE x \in replies
      <4>1. failed[c] > 0
          BY <2>3, <3>1 DEF Budget
      <4>2. QED  BY <2>1, <4>1
    <3>2. CASE x = [m |-> m, ok |-> ok]
        BY <2>1, <2>3, <3>2
    <3>3. QED  BY <1>1, <3>1, <3>2
  <2>4. ASSUME NEW c \in Calls, failed[c] > 0
        PROVE  failed'[c] > 0
      BY <2>1, <2>4
  <2>5. ASSUME NEW c \in Calls, route[c].pattern = "acks"
        PROVE  /\ \A h \in Hops : runs'[c][h] <= Tries(c)'
               /\ \A n \in queue' \cup unacked' \cup working' : \A h \in Hops :
                     /\ n.call = c /\ n.asks = "run"
                     /\ n.hop <= h /\ (n \in working' => n.hop < h)
                     => runs'[c][h] < Tries(c)'
    <3>1. Tries(c)' = Tries(c)
        BY <2>2
    <3>2. \A h \in Hops : runs[c][h] <= Tries(c)
        BY <2>5 DEF Budget
    <3>3. ASSUME NEW n \in queue \cup unacked \cup working, NEW h \in Hops,
                 n.call = c, n.asks = "run", n.hop <= h, n \in working' => n.hop < h,
                 n \in queue' \cup unacked' \cup working'
          PROVE  runs[c][h] < Tries(c)
      <4>1. n \in working => n \in working' \/ n = m
          BY <1>2
      <4>2. ~Acks(m) \/ m \notin queue \cup unacked
          BY <1>7
      <4>3. n = m => Acks(m)
          BY <2>5, <3>3 DEF Acks
      <4>4. n \in working => n.hop < h
          BY <1>2, <2>2, <3>3, <4>1, <4>2, <4>3
      <4>5. QED  BY <2>5, <3>3, <4>4 DEF Budget
    <3>4. QED  BY <2>2, <3>1, <3>2, <3>3
  <2>6. ASSUME NEW c \in Calls, route[c].pattern = "acks", Tries(c)' = 2
        PROVE  route[c].decode /\ failed[c] > 0
      BY <2>2, <2>6 DEF Budget
  <2>7. QED  BY <2>2, <2>3, <2>4, <2>5, <2>6 DEF Budget
<1>12. QED  BY <1>4, <1>10, <1>11

LEMMA CrashRest == ASSUME TypeInv, Rest, NEW s \in Services, Crash(s) PROVE Rest'
<1> USE DEF Rest
<1>0. /\ UNCHANGED <<route, calls, replies, runs, failed>>
      /\ queue' = queue \cup Of(s, unacked) \cup Of(s, kept)
      /\ unacked' = unacked \ Of(s, unacked) /\ kept' = kept \ Of(s, kept)
      /\ working' = working \ Of(s, working) /\ waiting' = waiting \ Of(s, waiting)
      /\ resumed' = resumed \ Of(s, resumed)
    BY DEF Crash, Died
<1>1. \A n : Acks(n)' = Acks(n) /\ Path(n)' = Path(n) /\ Located(n)' = Located(n)
    BY <1>0, Aside
<1>2. \A S : Of(s, S) = {n \in S : Service(n) = s}
    BY DEF Of
<1>3. Places'
    BY <1>0, <1>1, <1>2 DEF Places, AtWork
<1>4. \A n : Acks(n) => /\ Replied(n)' = Replied(n) /\ (Present(n)' => Present(n))
                        /\ n \in queue' => n \in queue \/ n \in unacked \ unacked'
    BY <1>0, <1>2 DEF Present, Live, Replied, AtWork, Places
<1>5. ASSUME NEW n \in Message, Acks(n)
      PROVE  Single(n)'
    BY <1>0, <1>4, <1>5 DEF Single, Chain, AtWork
<1>6. ASSUME NEW n \in Message, NEW o \in Message
      PROVE  Chained(n, o)'
  <2>1. SUFFICES ASSUME n.call = o.call, n.hop < o.hop, Acks(n), Acks(o),
                        Present(n)', Present(o)'
                 PROVE  n \in waiting'
      BY <1>1 DEF Chained
  <2>2. n \in waiting
      BY <1>4, <2>1 DEF Chain, Chained
  <2>3. n \notin queue \cup unacked \cup working \cup resumed /\ ~Replied(n)
      BY <2>1, <2>2 DEF Chain, Single, AtWork
  <2>4. QED  BY <1>0, <1>4, <2>1, <2>2, <2>3 DEF Present, Live, AtWork
<1>7. Chain'
    BY <1>0, <1>1, <1>5, <1>6 DEF Chain
<1>8. ASSUME NEW n \in queue' \cup unacked' \cup working', n.asks = "run",
             route[n.call].pattern = "acks"
      PROVE  /\ n \in queue \cup unacked \cup working
             /\ n \in working => n \in working'
  <2>1. Acks(n)
      BY <1>8 DEF Acks
  <2>2. n \in queue \cup unacked \cup working
      BY <1>0, <1>2, <1>4, <1>8, <2>1
  <2>3. n \in queue \cup unacked => n \notin working
      BY <2>1, <2>2, TypedMessages DEF Chain, Single, AtWork, TypeInv
  <2>4. QED  BY <1>0, <1>2, <1>4, <1>8, <2>1, <2>2, <2>3
<1>9. Budget'
    BY <1>0, <1>8, TriesAside DEF Budget
<1>10. QED  BY <1>3, <1>7, <1>9

LEMMA RestartRest == ASSUME TypeInv, Rest, NEW s \in Services, Restart(s) PROVE Rest'
<1> USE DEF Rest
<1>0. UNCHANGED <<route, calls, queue, unacked, kept, working, waiting, resumed, replies,
                  runs, failed>>
    BY DEF Restart, broker, work, past
<1>1. \A n : /\ Acks(n)' = Acks(n) /\ Path(n)' = Path(n) /\ Located(n)' = Located(n)
             /\ Replied(n)' = Replied(n) /\ Present(n)' = Present(n)
    BY <1>0, Aside DEF Replied, Present, Live, AtWork
<1>2. Places' /\ Chain'
    BY <1>0, <1>1 DEF Places, Chain, Single, Chained, AtWork
<1>3. Budget'
    BY <1>0, TriesAside DEF Budget
<1>4. QED  BY <1>2, <1>3

--------------------------------------------------------------------------------
RpcInv == TypeInv /\ Rest

LEMMA InitRpc == Init => RpcInv
<1> SUFFICES ASSUME Init PROVE RpcInv
    OBVIOUS
<1>1. TypeInv
    BY InitTypes
<1>2. /\ queue = {} /\ unacked = {} /\ AtWork = {} /\ kept = {} /\ replies = {}
      /\ working = {} /\ waiting = {} /\ resumed = {}
    BY DEF Init, AtWork
<1>3. Places /\ Chain
    BY <1>2 DEF Places, Chain, Single, Chained, Present, Live, Replied
<1>4. ASSUME NEW c \in Calls
      PROVE  Tries(c) = 0 /\ \A h \in Hops : runs[c][h] = 0
    BY DEF Init, Tries
<1>5. Budget
    BY <1>2, <1>4 DEF Budget
<1>6. QED  BY <1>1, <1>3, <1>5 DEF RpcInv, Rest

LEMMA RpcStep == ASSUME RpcInv, [Next]_vars PROVE RpcInv'
<1> USE DEF RpcInv
<1>1. ASSUME NEW c \in Calls, Arrive(c) \/ Guarded(c) \/ Decoded(c) \/ Routed(c)
      PROVE  RpcInv'
  <2>1. Steps(c) /\ Silent(c)
      BY <1>1, GatewaySteps, GatewaySilent DEF Rest
  <2>2. QED  BY <2>1, GatewayTypes, GatewayPlaces, GatewayChain, GatewayBudget DEF Rest
<1>2. ASSUME NEW m \in queue, Deliver(m) PROVE RpcInv'
    BY <1>2, DeliverTypes, DeliverRest
<1>3. ASSUME NEW m \in unacked, Start(m) PROVE RpcInv'
    BY <1>3, StartTypes, StartRest
<1>4. ASSUME NEW m \in unacked, NoHandler(m) PROVE RpcInv'
    BY <1>4, NoHandlerTypes, NoHandlerRest
<1>5. ASSUME NEW m \in working, AskInner(m) PROVE RpcInv'
    BY <1>5, AskInnerTypes, AskInnerRest
<1>6. ASSUME NEW m \in waiting, Resume(m) PROVE RpcInv'
    BY <1>6, ResumeTypes, ResumeRest
<1>7. ASSUME NEW m \in working \cup resumed, Finish(m) PROVE RpcInv'
    BY <1>7, FinishTypes, FinishRest
<1>8. ASSUME NEW s \in Services, Crash(s) PROVE RpcInv'
    BY <1>8, CrashTypes, CrashRest DEF Rest, Places
<1>9. ASSUME NEW s \in Services, Restart(s) PROVE RpcInv'
    BY <1>9, RestartTypes, RestartRest
<1>10. CASE UNCHANGED vars
  <2>1. /\ UNCHANGED <<route, calls, queue, unacked, kept, working, waiting, resumed, replies,
                       runs, failed, lost, up, crashes>>
      BY <1>10 DEF vars, broker, work, power, past
  <2>2. \A n : /\ Acks(n)' = Acks(n) /\ Path(n)' = Path(n) /\ Located(n)' = Located(n)
               /\ Replied(n)' = Replied(n) /\ Present(n)' = Present(n)
      BY <2>1, Aside DEF Replied, Present, Live, AtWork
  <2>3. Places' /\ Chain' /\ Budget'
      BY <2>1, <2>2, TriesAside DEF Rest, Places, Chain, Single, Chained, Budget, AtWork
  <2>4. TypeInv'
      BY <2>1, MovesType DEF Moves, TypeInv, TypeOK, AtWork
  <2>5. QED  BY <2>3, <2>4 DEF Rest
<1>11. QED
    BY <1>1, <1>2, <1>3, <1>4, <1>5, <1>6, <1>7, <1>8, <1>9, <1>10
       DEF Next, Gateway, Deliveries, Work

(* The inductive invariant holds in every reachable state: the gateway's     *)
(* counts, the one place of each acknowledged message, the chain of handlers *)
(* waiting for each other and the budget of beginnings.                      *)
THEOREM RpcHolds == Spec => []RpcInv
    BY InitRpc, RpcStep, PTL DEF Spec

(* The gateway sends at most five messages for a call and asks every guard, *)
(* for any routes, calls and crashes.                                       *)
THEOREM GatewayCounts == Spec => []TypeOK
<1>1. RpcInv => TypeOK
    BY DEF RpcInv, TypeInv
<1>2. QED  BY <1>1, RpcHolds, PTL

(* An answer to the client is the last word: nothing that acknowledges is   *)
(* left at work or in a queue for the call.                                 *)
THEOREM NothingAfterAnswer == Spec => []AnswerIsLast
<1>1. RpcInv => AnswerIsLast
    BY DEF RpcInv, Rest, Places, Located, Awaiting, AnswerIsLast
<1>2. QED  BY <1>1, RpcHolds, PTL

(* However often services die and messages are delivered again, a handler   *)
(* that acknowledges is begun once, and a second time only when catchError  *)
(* runs a route again that had replied an error.                            *)
THEOREM NothingTwice == Spec => []BegunOnce
<1>1. ASSUME RpcInv, NEW c \in Calls, route[c].pattern = "acks", NEW h \in Hops
      PROVE  runs[c][h] <= IF route[c].decode /\ failed[c] > 0 THEN 2 ELSE 1
  <2>1. /\ runs[c][h] \in Nat /\ runs[c][h] <= Tries(c) /\ Tries(c) \in Nat
        /\ Tries(c) = 2 => route[c].decode /\ failed[c] > 0
      BY <1>1, TriesNat DEF RpcInv, Rest, Budget, TypeInv, TypeOK
  <2>2. Tries(c) <= 2
    <3>1. /\ route[c].guards \in 0 .. 2 /\ sent[c] \in 0 .. 5 /\ Counted(c)
          /\ Before(c) \in 0 .. 3
        BY <1>1, RouteFields DEF RpcInv, TypeInv, TypeOK, Before
    <3>2. QED  BY <3>1 DEF Tries, Counted
  <2>3. QED  BY <2>1, <2>2
<1>2. RpcInv => BegunOnce
    BY <1>1 DEF BegunOnce
<1>3. QED  BY <1>2, RpcHolds, PTL
================================================================================
