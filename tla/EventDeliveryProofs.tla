------------------------- MODULE EventDeliveryProofs -------------------------
(***************************************************************************)
(* The safety of event delivery, for every set of requests, events and      *)
(* types, every content of the settings and every configuration. The        *)
(* invariant says, of each event, what its place implies about the channels *)
(* that accepted it, the ones that were given it and its posts; and, of each *)
(* post, what its state implies about its counters.                         *)
(***************************************************************************)
EXTENDS EventDelivery, InstanceSettingsProofs

\* Of an event of settings s and type t, at place p, accepted by a, given to r.
RouteOK(s, t, p, a, r) ==
  /\ p \in {"none", "unasked"} => a = {} /\ r \cap Channels = {}
  /\ p \notin {"none", "unasked"} => Subscribed(s, t)
  /\ p \in Channels => Enabled(s, p)
  /\ \A c \in a : Enabled(s, c)
  /\ \A c \in a \cup ({p} \cap Channels) : \A d \in Earlier(c) : Enabled(s, d) => d \in a
  /\ r \cap Channels \subseteq a
  /\ "rabbit" \in r => s.rabbit = "enabled"
  /\ "webhook" \in a => p = "done"
  /\ p = "done" => \A c \in Channels : Enabled(s, c) => c \in a

\* Of the queues of the server, for an event at place p of its own and g of theirs.
GlobalOK(t, p, g, r) ==
  /\ p = "none" => g = "none" /\ r = {}
  /\ "global rabbit" \in r => config.amqp /\ (config.specific # {} => t \in config.specific)
  /\ "global nats" \in r => GroupOf(t) \in config.natsGroups

\* Of a goroutine of sendWebhookWithRetry with n failed requests and m copies received.
PostOK(pc, n, m) ==
  /\ pc = "none" => n = 0 /\ m = 0
  /\ pc = "try" => n < MaxAttempts /\ m <= n
  /\ pc \in {"wait", "ok"} => n < MaxAttempts /\ m <= n + 1 /\ 0 < m
  /\ pc = "gaveup" => n = MaxAttempts
  /\ m <= MaxAttempts

RoutesOK ==
  \A e \in Event :
    /\ RouteOK(Of(e), kind[e], place[e], accepted[e], reached[e])
    /\ GlobalOK(kind[e], place[e], global[e], reached[e])

PostsAccepted ==
  \A e \in Event, u \in Url : post[<<e, u>>] # "none" => "webhook" \in accepted[e]

PostsOK == \A p \in Post : PostOK(post[p], tries[p], copies[p])

DeliveryInv == TypeOK /\ SyncInv /\ RoutesOK /\ PostsAccepted /\ PostsOK

-----------------------------------------------------------------------------
(***************************************************************************)
(* The channels in their order: what one step does to the place of an event *)
(***************************************************************************)
\* The channels and the places are distinct names.
LEMMA FromWhere ==
  ASSUME NEW s
  PROVE  /\ FromWebhook(s) = IF s.webhook THEN "webhook" ELSE "done"
         /\ FromWebsocket(s) = IF s.websocket THEN "websocket" ELSE FromWebhook(s)
         /\ FromNats(s) = IF s.nats # "off" THEN "nats" ELSE FromWebsocket(s)
         /\ FromRabbit(s) = IF s.rabbit # "off" THEN "rabbit" ELSE FromNats(s)
         /\ {FromWebhook(s), FromWebsocket(s), FromNats(s), FromRabbit(s)}
              \subseteq Channels \cup {"done"}
  BY DEF FromWebhook, FromWebsocket, FromNats, FromRabbit, Channels

\* What the channels need and what comes before them.
LEMMA ChannelFacts ==
  ASSUME NEW s
  PROVE  /\ Enabled(s, "rabbit") <=> s.rabbit # "off"
         /\ Enabled(s, "nats") <=> s.nats # "off"
         /\ Enabled(s, "websocket") <=> s.websocket
         /\ Enabled(s, "webhook") <=> s.webhook
         /\ Earlier("rabbit") = {} /\ Earlier("nats") = {"rabbit"}
         /\ Earlier("websocket") = {"rabbit", "nats"}
         /\ Earlier("webhook") = {"rabbit", "nats", "websocket"}
  BY DEF Enabled, Earlier

LEMMA NotYetTaken ==
  ASSUME NEW s, NEW t, NEW r, Subscribed(s, t), RouteOK(s, t, "none", {}, r)
  PROVE  RouteOK(s, t, FromRabbit(s), {}, r)
  BY FromWhere, ChannelFacts DEF RouteOK, Channels

LEMMA AfterRabbit ==
  ASSUME NEW s, NEW t, NEW a \in SUBSET Channels, NEW r, NEW q,
         RouteOK(s, t, "rabbit", a, r),
         q = r \/ (q = r \cup {"rabbit"} /\ s.rabbit = "enabled")
  PROVE  RouteOK(s, t, FromNats(s), a \cup {"rabbit"}, q)
  BY FromWhere, ChannelFacts DEF RouteOK, Channels

LEMMA AfterNats ==
  ASSUME NEW s, NEW t, NEW a \in SUBSET Channels, NEW r, NEW q,
         RouteOK(s, t, "nats", a, r), q = r \/ q = r \cup {"nats"}
  PROVE  RouteOK(s, t, FromWebsocket(s), a \cup {"nats"}, q)
  BY FromWhere, ChannelFacts DEF RouteOK, Channels

LEMMA AfterWebsocket ==
  ASSUME NEW s, NEW t, NEW a \in SUBSET Channels, NEW r, NEW q,
         RouteOK(s, t, "websocket", a, r), q = r \/ q = r \cup {"websocket"}
  PROVE  RouteOK(s, t, FromWebhook(s), a \cup {"websocket"}, q)
  BY FromWhere, ChannelFacts DEF RouteOK, Channels

LEMMA AfterWebhook ==
  ASSUME NEW s, NEW t, NEW a \in SUBSET Channels, NEW r, RouteOK(s, t, "webhook", a, r)
  PROVE  RouteOK(s, t, "done", a \cup {"webhook"}, r)
  BY ChannelFacts DEF RouteOK, Channels

LEMMA AfterError ==
  ASSUME NEW s, NEW t, NEW a \in SUBSET Channels, NEW r, NEW p \in Channels,
         RouteOK(s, t, p, a, r)
  PROVE  RouteOK(s, t, "failed", a, r) /\ RouteOK(s, t, "lost", a, r)
  BY DEF RouteOK, Channels

-----------------------------------------------------------------------------
(***************************************************************************)
(* The steps of a goroutine of CallWebhook                                 *)
(***************************************************************************)
RouteTypes ==
  /\ config \in Configs
  /\ kind \in [Event -> Type]
  /\ used \in [Event -> Version]
  /\ place \in [Event -> Places]
  /\ accepted \in [Event -> SUBSET Channels]
  /\ global \in [Event -> {"none", "amqp", "nats", "done", "lost"}]
  /\ reached \in [Event -> SUBSET (Channels \cup GlobalQueues)]

LEMMA TypesTogether == TypeOK <=> TypeOKSettings /\ TypeOKPosts /\ RouteTypes
  BY DEF TypeOK, RouteTypes

\* The event e is now at p, accepted by a and given to r.
Becomes(e, p, a, r) ==
  /\ place' = [place EXCEPT ![e] = p]
  /\ accepted' = [accepted EXCEPT ![e] = a]
  /\ reached' = [reached EXCEPT ![e] = r]

LEMMA RouteMoves ==
  ASSUME RouteTypes, RoutesOK, NEW e \in Event, place[e] \in Channels,
         NEW p \in Places \ {"none"}, NEW a \in SUBSET Channels,
         NEW r \in SUBSET (Channels \cup GlobalQueues),
         Becomes(e, p, a, r), UNCHANGED <<config, kind, used, global>>,
         RouteOK(Of(e), kind[e], p, a, r),
         r \cap GlobalQueues = reached[e] \cap GlobalQueues
  PROVE  RouteTypes' /\ RoutesOK'
  <1>1. RouteTypes'
    BY DEF RouteTypes, Becomes
  <1>2. ASSUME NEW f \in Event
        PROVE  /\ RouteOK(Of(f), kind[f], place[f], accepted[f], reached[f])'
               /\ GlobalOK(kind[f], place[f], global[f], reached[f])'
    <2>1. Of(f)' = Of(f) /\ kind'[f] = kind[f] /\ global'[f] = global[f] /\ config' = config
      BY DEF Of
    <2>2. CASE f = e
      <3>1. place'[f] = p /\ accepted'[f] = a /\ reached'[f] = r
        BY <2>2 DEF RouteTypes, Becomes
      <3>2. GlobalOK(kind[e], place[e], global[e], reached[e])
        BY DEF RoutesOK
      <3>3. GlobalOK(kind[f], place[f], global[f], reached[f])'
        BY <2>1, <2>2, <3>1, <3>2 DEF GlobalOK, GlobalQueues
      <3>4. RouteOK(Of(f), kind[f], place[f], accepted[f], reached[f])'
        BY <2>1, <2>2, <3>1 DEF RouteOK
      <3> QED
        BY <3>3, <3>4
    <2>3. CASE f # e
      <3>1. place'[f] = place[f] /\ accepted'[f] = accepted[f] /\ reached'[f] = reached[f]
        BY <2>3 DEF RouteTypes, Becomes
      <3>2. /\ RouteOK(Of(f), kind[f], place[f], accepted[f], reached[f])
            /\ GlobalOK(kind[f], place[f], global[f], reached[f])
        BY DEF RoutesOK
      <3> QED
        BY <2>1, <3>1, <3>2 DEF RouteOK, GlobalOK
    <2> QED
      BY <2>2, <2>3
  <1> QED
    BY <1>1, <1>2 DEF RoutesOK

LEMMA SettingType ==
  ASSUME RouteTypes, NEW e \in Event
  PROVE  Of(e) \in SettingRec /\ kind[e] \in Type
  BY DeliveryAssumption DEF RouteTypes, Of, DeliveryAssumption

LEMMA RouteStepKeeps ==
  ASSUME RouteTypes, RoutesOK, NEW e \in Event, RouteStep(e)
  PROVE  RouteTypes' /\ RoutesOK' /\ accepted[e] \subseteq accepted'[e]
           /\ \A f \in Event \ {e} : accepted'[f] = accepted[f]
  <1> DEFINE s == Of(e)
             t == kind[e]
             a == accepted[e]
             r == reached[e]
  <1>1. a \in SUBSET Channels /\ r \in SUBSET (Channels \cup GlobalQueues)
    BY DEF RouteTypes
  <1>2. RouteOK(s, t, place[e], a, r)
    BY DEF RoutesOK
  <1>3. UNCHANGED <<config, kind, used, global>> /\ place[e] \in Channels
    BY DEF RouteStep, ProduceRabbit, ProduceNats, ProduceWebsocket, ProduceWebhook, otherRoutes,
           Channels
  <1>4. {FromWebhook(s), FromWebsocket(s), FromNats(s)} \subseteq Places \ {"none"}
    BY FromWhere DEF Places, Channels
  <1> HIDE DEF s, t, a, r
  <1>5. ASSUME NEW p \in Places \ {"none"}, NEW b \in SUBSET Channels,
               NEW q \in SUBSET (Channels \cup GlobalQueues), Becomes(e, p, b, q),
               RouteOK(s, t, p, b, q), q \cap GlobalQueues = r \cap GlobalQueues,
               a \subseteq b
        PROVE  RouteTypes' /\ RoutesOK' /\ accepted[e] \subseteq accepted'[e]
                 /\ \A f \in Event \ {e} : accepted'[f] = accepted[f]
    <2>1. RouteTypes' /\ RoutesOK'
      BY <1>3, <1>5, RouteMoves DEF s, t, r
    <2>2. accepted'[e] = b /\ \A f \in Event \ {e} : accepted'[f] = accepted[f]
      BY <1>5 DEF Becomes, RouteTypes
    <2> QED
      BY <1>5, <2>1, <2>2 DEF a
  <1>6. ASSUME Refuse(e)
        PROVE  RouteTypes' /\ RoutesOK' /\ accepted[e] \subseteq accepted'[e]
                 /\ \A f \in Event \ {e} : accepted'[f] = accepted[f]
    <2>1. Becomes(e, "failed", a, r)
      BY <1>6 DEF Refuse, Becomes, RouteTypes, a, r
    <2>2. RouteOK(s, t, "failed", a, r)
      BY <1>1, <1>2, <1>3, AfterError
    <2>3. "failed" \in Places \ {"none"}
      BY DEF Places
    <2> QED
      BY <1>1, <1>5, <2>1, <2>2, <2>3
  <1>7. ASSUME ProduceRabbit(e)
        PROVE  RouteTypes' /\ RoutesOK' /\ accepted[e] \subseteq accepted'[e]
                 /\ \A f \in Event \ {e} : accepted'[f] = accepted[f]
    <2>1. place[e] = "rabbit" /\ "rabbit" \in Channels \ GlobalQueues
      BY <1>7 DEF ProduceRabbit, Channels, GlobalQueues
    <2>2. CASE Give(e, "rabbit") /\ Accept(e, "rabbit", FromNats(s)) /\ s.rabbit = "enabled"
      <3>1. Becomes(e, FromNats(s), a \cup {"rabbit"}, r \cup {"rabbit"})
        BY <2>2 DEF Give, Accept, Becomes, RouteTypes, a, r
      <3>2. RouteOK(s, t, FromNats(s), a \cup {"rabbit"}, r \cup {"rabbit"})
        BY <1>1, <1>2, <2>1, <2>2, AfterRabbit
      <3>3. /\ FromNats(s) \in Places \ {"none"}
            /\ a \cup {"rabbit"} \in SUBSET Channels /\ a \subseteq a \cup {"rabbit"}
        BY <1>1, <1>4, <2>1
      <3>4. /\ r \cup {"rabbit"} \in SUBSET (Channels \cup GlobalQueues)
            /\ (r \cup {"rabbit"}) \cap GlobalQueues = r \cap GlobalQueues
        BY <1>1, <2>1
      <3> QED
        BY <1>5, <3>1, <3>2, <3>3, <3>4
    <2>3. CASE UNCHANGED reached /\ Accept(e, "rabbit", FromNats(s))
      <3>1. Becomes(e, FromNats(s), a \cup {"rabbit"}, r)
        BY <2>3 DEF Accept, Becomes, RouteTypes, a, r
      <3>2. RouteOK(s, t, FromNats(s), a \cup {"rabbit"}, r)
        BY <1>1, <1>2, <2>1, AfterRabbit
      <3>3. /\ FromNats(s) \in Places \ {"none"}
            /\ a \cup {"rabbit"} \in SUBSET Channels /\ a \subseteq a \cup {"rabbit"}
        BY <1>1, <1>4, <2>1
      <3>4. /\ r \in SUBSET (Channels \cup GlobalQueues)
            /\ (r) \cap GlobalQueues = r \cap GlobalQueues
        BY <1>1, <2>1
      <3> QED
        BY <1>5, <3>1, <3>2, <3>3, <3>4
    <2> QED
      BY <1>6, <1>7, <2>2, <2>3 DEF ProduceRabbit, s
  <1>8. ASSUME ProduceNats(e)
        PROVE  RouteTypes' /\ RoutesOK' /\ accepted[e] \subseteq accepted'[e]
                 /\ \A f \in Event \ {e} : accepted'[f] = accepted[f]
    <2>1. place[e] = "nats" /\ "nats" \in Channels \ GlobalQueues
      BY <1>8 DEF ProduceNats, Channels, GlobalQueues
    <2>2. CASE Give(e, "nats") /\ Accept(e, "nats", FromWebsocket(s))
      <3>1. Becomes(e, FromWebsocket(s), a \cup {"nats"}, r \cup {"nats"})
        BY <2>2 DEF Give, Accept, Becomes, RouteTypes, a, r
      <3>2. RouteOK(s, t, FromWebsocket(s), a \cup {"nats"}, r \cup {"nats"})
        BY <1>1, <1>2, <2>1, AfterNats
      <3>3. /\ FromWebsocket(s) \in Places \ {"none"}
            /\ a \cup {"nats"} \in SUBSET Channels /\ a \subseteq a \cup {"nats"}
        BY <1>1, <1>4, <2>1
      <3>4. /\ r \cup {"nats"} \in SUBSET (Channels \cup GlobalQueues)
            /\ (r \cup {"nats"}) \cap GlobalQueues = r \cap GlobalQueues
        BY <1>1, <2>1
      <3> QED
        BY <1>5, <3>1, <3>2, <3>3, <3>4
    <2>3. CASE UNCHANGED reached /\ Accept(e, "nats", FromWebsocket(s))
      <3>1. Becomes(e, FromWebsocket(s), a \cup {"nats"}, r)
        BY <2>3 DEF Accept, Becomes, RouteTypes, a, r
      <3>2. RouteOK(s, t, FromWebsocket(s), a \cup {"nats"}, r)
        BY <1>1, <1>2, <2>1, AfterNats
      <3>3. /\ FromWebsocket(s) \in Places \ {"none"}
            /\ a \cup {"nats"} \in SUBSET Channels /\ a \subseteq a \cup {"nats"}
        BY <1>1, <1>4, <2>1
      <3>4. /\ r \in SUBSET (Channels \cup GlobalQueues)
            /\ (r) \cap GlobalQueues = r \cap GlobalQueues
        BY <1>1, <2>1
      <3> QED
        BY <1>5, <3>1, <3>2, <3>3, <3>4
    <2> QED
      BY <1>6, <1>8, <2>2, <2>3 DEF ProduceNats, s
  <1>9. ASSUME ProduceWebsocket(e)
        PROVE  RouteTypes' /\ RoutesOK' /\ accepted[e] \subseteq accepted'[e]
                 /\ \A f \in Event \ {e} : accepted'[f] = accepted[f]
    <2>1. place[e] = "websocket" /\ "websocket" \in Channels \ GlobalQueues
      BY <1>9 DEF ProduceWebsocket, Channels, GlobalQueues
    <2>2. CASE Give(e, "websocket") /\ Accept(e, "websocket", FromWebhook(s))
      <3>1. Becomes(e, FromWebhook(s), a \cup {"websocket"}, r \cup {"websocket"})
        BY <2>2 DEF Give, Accept, Becomes, RouteTypes, a, r
      <3>2. RouteOK(s, t, FromWebhook(s), a \cup {"websocket"}, r \cup {"websocket"})
        BY <1>1, <1>2, <2>1, AfterWebsocket
      <3>3. /\ FromWebhook(s) \in Places \ {"none"}
            /\ a \cup {"websocket"} \in SUBSET Channels /\ a \subseteq a \cup {"websocket"}
        BY <1>1, <1>4, <2>1
      <3>4. /\ r \cup {"websocket"} \in SUBSET (Channels \cup GlobalQueues)
            /\ (r \cup {"websocket"}) \cap GlobalQueues = r \cap GlobalQueues
        BY <1>1, <2>1
      <3> QED
        BY <1>5, <3>1, <3>2, <3>3, <3>4
    <2>3. CASE UNCHANGED reached /\ Accept(e, "websocket", FromWebhook(s))
      <3>1. Becomes(e, FromWebhook(s), a \cup {"websocket"}, r)
        BY <2>3 DEF Accept, Becomes, RouteTypes, a, r
      <3>2. RouteOK(s, t, FromWebhook(s), a \cup {"websocket"}, r)
        BY <1>1, <1>2, <2>1, AfterWebsocket
      <3>3. /\ FromWebhook(s) \in Places \ {"none"}
            /\ a \cup {"websocket"} \in SUBSET Channels /\ a \subseteq a \cup {"websocket"}
        BY <1>1, <1>4, <2>1
      <3>4. /\ r \in SUBSET (Channels \cup GlobalQueues)
            /\ (r) \cap GlobalQueues = r \cap GlobalQueues
        BY <1>1, <2>1
      <3> QED
        BY <1>5, <3>1, <3>2, <3>3, <3>4
    <2> QED
      BY <1>6, <1>9, <2>2, <2>3 DEF ProduceWebsocket, s
  <1>10. ASSUME ProduceWebhook(e)
         PROVE  RouteTypes' /\ RoutesOK' /\ accepted[e] \subseteq accepted'[e]
                  /\ \A f \in Event \ {e} : accepted'[f] = accepted[f]
    <2>1. place[e] = "webhook" /\ "webhook" \in Channels
      BY <1>10 DEF ProduceWebhook, Channels
    <2>2. Becomes(e, "done", a \cup {"webhook"}, r)
      BY <1>10 DEF ProduceWebhook, Accept, Becomes, RouteTypes, a, r
    <2>3. RouteOK(s, t, "done", a \cup {"webhook"}, r)
      BY <1>1, <1>2, <2>1, AfterWebhook
    <2>4. "done" \in Places \ {"none"}
      BY DEF Places
    <2> QED
      BY <1>1, <1>5, <2>1, <2>2, <2>3, <2>4
  <1> QED
    BY <1>7, <1>8, <1>9, <1>10 DEF RouteStep

-----------------------------------------------------------------------------
(***************************************************************************)
(* The dispatch, the goroutine of SendToGlobalQueues and the crash          *)
(***************************************************************************)
LEMMA DispatchKeeps ==
  ASSUME RouteTypes, RoutesOK, NEW e \in Event, NEW t \in Type, NEW v \in Version,
         Dispatch(e, t, v)
  PROVE  RouteTypes' /\ RoutesOK' /\ accepted' = accepted
  <1> DEFINE p == IF Subscribed(SettingOf[v], t) THEN FromRabbit(SettingOf[v]) ELSE "unasked"
             g == IF config.amqp \/ config.nats THEN "amqp" ELSE "done"
  <1>1. /\ place[e] = "none" /\ UNCHANGED <<config, accepted, reached>>
        /\ kind' = [kind EXCEPT ![e] = t] /\ used' = [used EXCEPT ![e] = v]
        /\ place' = [place EXCEPT ![e] = p] /\ global' = [global EXCEPT ![e] = g]
    BY DEF Dispatch
  <1>2. p \in Places \ {"none"}
    BY FromWhere DEF Places, Channels
  <1>3. g \in {"amqp", "done"}
    OBVIOUS
  <1>4. /\ RouteOK(Of(e), kind[e], "none", accepted[e], reached[e])
        /\ GlobalOK(kind[e], "none", global[e], reached[e])
    BY <1>1 DEF RoutesOK
  <1>5. accepted[e] = {} /\ reached[e] = {}
    BY <1>4 DEF RouteOK, GlobalOK
  <1>6. RouteOK(SettingOf[v], t, p, {}, {})
    <2>1. CASE Subscribed(SettingOf[v], t)
      <3>1. RouteOK(SettingOf[v], t, "none", {}, {})
        BY DEF RouteOK, Channels
      <3> QED
        BY <2>1, <3>1, NotYetTaken
    <2>2. CASE ~Subscribed(SettingOf[v], t)
      BY <2>2 DEF RouteOK, Channels
    <2> QED
      BY <2>1, <2>2
  <1> HIDE DEF p, g
  <1>7. RouteTypes'
    BY <1>1, <1>2, <1>3 DEF RouteTypes
  <1>8. ASSUME NEW f \in Event
        PROVE  /\ RouteOK(Of(f), kind[f], place[f], accepted[f], reached[f])'
               /\ GlobalOK(kind[f], place[f], global[f], reached[f])'
    <2>1. CASE f = e
      <3>1. /\ Of(f)' = SettingOf[v] /\ kind'[f] = t /\ place'[f] = p
            /\ accepted'[f] = {} /\ reached'[f] = {}
        BY <1>1, <1>5, <2>1 DEF RouteTypes, Of
      <3> QED
        BY <1>2, <1>6, <3>1 DEF RouteOK, GlobalOK
    <2>2. CASE f # e
      <3>1. /\ Of(f)' = Of(f) /\ kind'[f] = kind[f] /\ place'[f] = place[f]
            /\ global'[f] = global[f] /\ config' = config
            /\ accepted'[f] = accepted[f] /\ reached'[f] = reached[f]
        BY <1>1, <2>2 DEF RouteTypes, Of
      <3>2. /\ RouteOK(Of(f), kind[f], place[f], accepted[f], reached[f])
            /\ GlobalOK(kind[f], place[f], global[f], reached[f])
        BY DEF RoutesOK
      <3> QED
        BY <3>1, <3>2 DEF RouteOK, GlobalOK
    <2> QED
      BY <2>1, <2>2
  <1> QED
    BY <1>1, <1>7, <1>8 DEF RoutesOK

LEMMA GlobalStepKeeps ==
  ASSUME RouteTypes, RoutesOK, NEW e \in Event, GlobalStep(e)
  PROVE  RouteTypes' /\ RoutesOK' /\ accepted' = accepted
  <1>1. /\ UNCHANGED <<config, kind, used, place, accepted>> /\ global[e] \in {"amqp", "nats"}
        /\ \A f \in Event : f # e => reached'[f] = reached[f] /\ global'[f] = global[f]
    BY DEF GlobalStep, GlobalAmqp, GlobalNats, otherThanGlobal, Give, RouteTypes
  <1>2. RouteTypes'
    <2>1. \E g \in {"nats", "done"} : global' = [global EXCEPT ![e] = g]
      BY DEF GlobalStep, GlobalAmqp, GlobalNats
    <2>2. reached' = reached \/ \E q \in GlobalQueues : Give(e, q)
      BY DEF GlobalStep, GlobalAmqp, GlobalNats, GlobalQueues
    <2>3. global' \in [Event -> {"none", "amqp", "nats", "done", "lost"}]
      BY <2>1 DEF RouteTypes
    <2>4. reached' \in [Event -> SUBSET (Channels \cup GlobalQueues)]
      BY <2>2 DEF RouteTypes, Give
    <2> QED
      BY <1>1, <2>3, <2>4 DEF RouteTypes
  <1>3. \/ reached'[e] = reached[e]
        \/ reached'[e] = reached[e] \cup {"global rabbit"} /\ AmqpAsked(kind[e])
        \/ reached'[e] = reached[e] \cup {"global nats"} /\ NatsAsked(kind[e])
    BY DEF GlobalStep, GlobalAmqp, GlobalNats, Give, RouteTypes
  <1>4. /\ RouteOK(Of(e), kind[e], place[e], accepted[e], reached[e])
        /\ GlobalOK(kind[e], place[e], global[e], reached[e])
    BY DEF RoutesOK
  <1>5. place[e] # "none"
    BY <1>1, <1>4 DEF GlobalOK
  <1>6. /\ reached'[e] \cap Channels = reached[e] \cap Channels
        /\ "rabbit" \in reached'[e] => "rabbit" \in reached[e]
    BY <1>3 DEF Channels
  <1>7. RouteOK(Of(e), kind[e], place[e], accepted[e], reached'[e])
    BY <1>4, <1>6 DEF RouteOK
  <1>8. GlobalOK(kind[e], place[e], global'[e], reached'[e])
    BY <1>3, <1>4, <1>5 DEF GlobalOK, AmqpAsked, NatsAsked
  <1>9. ASSUME NEW f \in Event
        PROVE  /\ RouteOK(Of(f), kind[f], place[f], accepted[f], reached[f])'
               /\ GlobalOK(kind[f], place[f], global[f], reached[f])'
    <2>1. /\ Of(f)' = Of(f) /\ kind'[f] = kind[f] /\ place'[f] = place[f]
          /\ accepted'[f] = accepted[f] /\ config' = config
      BY <1>1 DEF Of
    <2>2. CASE f = e
      <3>1. RouteOK(Of(f), kind[f], place[f], accepted[f], reached[f])'
        BY <1>7, <2>1, <2>2 DEF RouteOK
      <3>2. GlobalOK(kind[f], place[f], global[f], reached[f])'
        BY <1>8, <2>1, <2>2 DEF GlobalOK
      <3> QED
        BY <3>1, <3>2
    <2>3. CASE f # e
      <3>1. /\ RouteOK(Of(f), kind[f], place[f], accepted[f], reached[f])
            /\ GlobalOK(kind[f], place[f], global[f], reached[f])
        BY DEF RoutesOK
      <3>2. reached'[f] = reached[f] /\ global'[f] = global[f]
        BY <1>1, <2>3
      <3> QED
        BY <2>1, <3>1, <3>2 DEF RouteOK, GlobalOK
    <2> QED
      BY <2>2, <2>3
  <1> QED
    BY <1>1, <1>2, <1>9 DEF RoutesOK

LEMMA CrashKeeps ==
  ASSUME RouteTypes, RoutesOK, Crash
  PROVE  RouteTypes' /\ RoutesOK' /\ accepted' = accepted
  <1>1. /\ UNCHANGED <<config, kind, used, accepted, reached>>
        /\ place' = [e \in Event |-> IF place[e] \in Channels THEN "lost" ELSE place[e]]
        /\ global' = [e \in Event |-> IF global[e] \in {"amqp", "nats"} THEN "lost" ELSE global[e]]
    BY DEF Crash
  <1>2. RouteTypes'
    BY <1>1 DEF RouteTypes, Places
  <1>3. ASSUME NEW f \in Event
        PROVE  /\ RouteOK(Of(f), kind[f], place[f], accepted[f], reached[f])'
               /\ GlobalOK(kind[f], place[f], global[f], reached[f])'
    <2>1. /\ Of(f)' = Of(f) /\ kind'[f] = kind[f] /\ accepted'[f] = accepted[f]
          /\ reached'[f] = reached[f] /\ config' = config
      BY <1>1 DEF Of
    <2>2. /\ place'[f] = IF place[f] \in Channels THEN "lost" ELSE place[f]
          /\ global'[f] = IF global[f] \in {"amqp", "nats"} THEN "lost" ELSE global[f]
      BY <1>1
    <2>3. /\ RouteOK(Of(f), kind[f], place[f], accepted[f], reached[f])
          /\ GlobalOK(kind[f], place[f], global[f], reached[f])
      BY DEF RoutesOK
    <2>4. accepted[f] \in SUBSET Channels
      BY DEF RouteTypes
    <2>5. RouteOK(Of(f), kind[f], place'[f], accepted[f], reached[f])
      BY <2>2, <2>3, <2>4, AfterError
    <2>6. GlobalOK(kind[f], place'[f], global'[f], reached[f])
      BY <2>2, <2>3 DEF GlobalOK
    <2> QED
      BY <2>1, <2>5, <2>6 DEF RouteOK, GlobalOK
  <1> QED
    BY <1>1, <1>2, <1>3 DEF RoutesOK

-----------------------------------------------------------------------------
(***************************************************************************)
(* The posts                                                               *)
(***************************************************************************)
\* Only the post p changes, from state a on, by the counters n and m.
PostBecomes(p, pc, n, m) ==
  /\ post' = [post EXCEPT ![p] = pc]
  /\ tries' = [tries EXCEPT ![p] = n]
  /\ copies' = [copies EXCEPT ![p] = m]

PostStates == {"none", "try", "wait", "ok", "gaveup", "lost"}

LEMMA PostMoves ==
  ASSUME TypeOKPosts, PostsOK, NEW p \in Post, NEW pc \in PostStates,
         NEW n \in 0..MaxAttempts, NEW m \in Nat, PostBecomes(p, pc, n, m), PostOK(pc, n, m)
  PROVE  TypeOKPosts' /\ PostsOK' /\ \A q \in Post : q # p => post'[q] = post[q]
  <1>1. TypeOKPosts'
    BY DEF TypeOKPosts, PostBecomes, PostStates
  <1>2. ASSUME NEW q \in Post
        PROVE  PostOK(post'[q], tries'[q], copies'[q])
    BY DEF PostsOK, TypeOKPosts, PostBecomes
  <1>3. \A q \in Post : q # p => post'[q] = post[q]
    BY DEF TypeOKPosts, PostBecomes
  <1> QED
    BY <1>1, <1>2, <1>3 DEF PostsOK, PostOK

LEMMA PostStepKeeps ==
  ASSUME TypeOKPosts, PostsOK, NEW p \in Post, PostStep(p) \/ Answer(p)
  PROVE  /\ TypeOKPosts' /\ PostsOK' /\ post[p] # "none"
         /\ \A q \in Post : q # p => post'[q] = post[q]
  <1> DEFINE n == tries[p]
             m == copies[p]
  <1>1. MaxAttempts \in Nat \ {0}
    BY AttemptsAssumption DEF AttemptsAssumption
  <1>2. n \in 0..MaxAttempts /\ m \in Nat /\ PostOK(post[p], n, m)
    BY DEF TypeOKPosts, PostsOK
  <1>3. post[p] \in {"try", "wait"}
    BY DEF PostStep, Answer, NotSent, Arrives, Answers2xx, AnswerFails
  <1> HIDE DEF n, m
  <1>4. n < MaxAttempts /\ m <= n + 1
    BY <1>1, <1>2, <1>3 DEF PostOK
  <1>5. ASSUME Retry(p)
        PROVE  TypeOKPosts' /\ PostsOK' /\ \A q \in Post : q # p => post'[q] = post[q]
    <2>1. PostBecomes(p, Again(p), n + 1, m)
      BY <1>5 DEF Retry, Moves, PostBecomes, TypeOKPosts, n, m
    <2>2. Again(p) = IF n + 1 < MaxAttempts THEN "try" ELSE "gaveup"
      BY DEF Again, n
    <2>3. Again(p) \in PostStates /\ n + 1 \in 0..MaxAttempts
      BY <1>1, <1>2, <1>4, <2>2 DEF PostStates
    <2>4. PostOK(Again(p), n + 1, m)
      BY <1>1, <1>2, <1>4, <2>2 DEF PostOK
    <2> QED
      BY <1>2, <2>1, <2>3, <2>4, PostMoves
  <1>6. ASSUME Arrives(p)
        PROVE  TypeOKPosts' /\ PostsOK' /\ \A q \in Post : q # p => post'[q] = post[q]
    <2>1. PostBecomes(p, "wait", n, m + 1)
      BY <1>6 DEF Arrives, Moves, PostBecomes, TypeOKPosts, n, m
    <2>2. m <= n
      BY <1>2, <1>6 DEF PostOK, Arrives
    <2>3. PostOK("wait", n, m + 1)
      BY <1>1, <1>2, <1>4, <2>2 DEF PostOK
    <2>4. "wait" \in PostStates
      BY DEF PostStates
    <2> QED
      BY <1>2, <2>1, <2>3, <2>4, PostMoves
  <1>7. ASSUME Answers2xx(p)
        PROVE  TypeOKPosts' /\ PostsOK' /\ \A q \in Post : q # p => post'[q] = post[q]
    <2>1. PostBecomes(p, "ok", n, m)
      BY <1>7 DEF Answers2xx, Moves, PostBecomes, TypeOKPosts, n, m
    <2>2. PostOK("ok", n, m)
      BY <1>2, <1>7 DEF PostOK, Answers2xx
    <2>3. "ok" \in PostStates
      BY DEF PostStates
    <2> QED
      BY <1>2, <2>1, <2>2, <2>3, PostMoves
  <1> QED
    BY <1>3, <1>5, <1>6, <1>7 DEF PostStep, Answer, NotSent, AnswerFails

LEMMA PostsStart ==
  ASSUME TypeOKPosts, PostsOK, NEW ps \in SUBSET Post, \A p \in ps : post[p] = "none",
         StartPosts(ps)
  PROVE  TypeOKPosts' /\ PostsOK' /\ \A q \in Post : q \notin ps => post'[q] = post[q]
  <1>1. TypeOKPosts' /\ \A q \in Post : q \notin ps => post'[q] = post[q]
    BY DEF TypeOKPosts, StartPosts
  <1>2. ASSUME NEW q \in Post
        PROVE  PostOK(post'[q], tries'[q], copies'[q])
    <2>1. tries'[q] = tries[q] /\ copies'[q] = copies[q]
      BY DEF StartPosts
    <2>2. PostOK(post[q], tries[q], copies[q])
      BY DEF PostsOK
    <2>3. CASE q \in ps
      <3>1. post'[q] = "try" /\ post[q] = "none"
        BY <2>3 DEF StartPosts
      <3>2. MaxAttempts \in Nat \ {0}
        BY AttemptsAssumption DEF AttemptsAssumption
      <3> QED
        BY <2>1, <2>2, <3>1, <3>2 DEF PostOK
    <2>4. CASE q \notin ps
      BY <1>1, <2>1, <2>2, <2>4
    <2> QED
      BY <2>3, <2>4
  <1> QED
    BY <1>1, <1>2 DEF PostsOK, PostOK

LEMMA PostsCrash ==
  ASSUME TypeOKPosts, PostsOK, CrashPosts
  PROVE  /\ TypeOKPosts' /\ PostsOK'
         /\ \A q \in Post : post'[q] # "none" => post[q] # "none"
  <1>1. \A q \in Post : post'[q] = IF post[q] \in {"try", "wait"} THEN "lost" ELSE post[q]
    BY DEF CrashPosts
  <1>2. TypeOKPosts'
    BY DEF TypeOKPosts, CrashPosts
  <1>3. ASSUME NEW q \in Post
        PROVE  PostOK(post'[q], tries'[q], copies'[q])
    BY <1>1 DEF PostsOK, PostOK, CrashPosts
  <1> QED
    BY <1>1, <1>2, <1>3 DEF PostsOK, PostOK

-----------------------------------------------------------------------------
(***************************************************************************)
(* The specification                                                       *)
(***************************************************************************)
\* The invariant in the two halves a step mostly touches one of.
Rest == RouteTypes /\ RoutesOK

LEMMA DeliveryParts ==
  DeliveryInv <=> TypeOKSettings /\ TypeOKPosts /\ Rest /\ SyncInv /\ PostsAccepted /\ PostsOK
  BY TypesTogether DEF DeliveryInv, Rest

LEMMA PartsKept ==
  ASSUME TypeOKSettings', TypeOKPosts', Rest', SyncInv', PostsAccepted', PostsOK'
  PROVE  DeliveryInv'
  BY DEF DeliveryInv, Rest, TypeOK, RouteTypes

LEMMA SameSettings ==
  ASSUME TypeOKSettings, SyncInv, UNCHANGED settings
  PROVE  TypeOKSettings' /\ SyncInv'
  BY SettingsTypes, SyncKept

LEMMA SamePosts ==
  ASSUME TypeOKPosts, PostsOK, UNCHANGED posts
  PROVE  TypeOKPosts' /\ PostsOK'
  BY DEF posts, TypeOKPosts, PostsOK, PostOK

LEMMA SameRoutes ==
  ASSUME Rest, UNCHANGED routes
  PROVE  Rest'
  <1>1. RouteTypes'
    BY DEF Rest, RouteTypes, routes
  <1>2. \A e \in Event : Of(e)' = Of(e)
    BY DEF routes, Of
  <1>3. ASSUME NEW e \in Event
        PROVE  /\ RouteOK(Of(e), kind[e], place[e], accepted[e], reached[e])'
               /\ GlobalOK(kind[e], place[e], global[e], reached[e])'
    <2>1. /\ RouteOK(Of(e), kind[e], place[e], accepted[e], reached[e])
          /\ GlobalOK(kind[e], place[e], global[e], reached[e])
      BY DEF Rest, RoutesOK
    <2>2. /\ Of(e)' = Of(e) /\ kind' = kind /\ place' = place /\ global' = global
          /\ accepted' = accepted /\ reached' = reached /\ config' = config
      BY <1>2 DEF routes
    <2> QED
      BY <2>1, <2>2 DEF RouteOK, GlobalOK
  <1> QED
    BY <1>1, <1>3 DEF Rest, RoutesOK

\* The posts of an event that no Produce has taken are not there.
LEMMA NotPosted ==
  ASSUME Rest, PostsAccepted, NEW e \in Event, place[e] = "webhook"
  PROVE  \A u \in Url : post[<<e, u>>] = "none"
  <1>1. RouteOK(Of(e), kind[e], place[e], accepted[e], reached[e])
    BY DEF Rest, RoutesOK
  <1>2. "webhook" \notin accepted[e]
    BY <1>1 DEF RouteOK
  <1> QED
    BY <1>2 DEF PostsAccepted

LEMMA RoutingKeeps ==
  ASSUME DeliveryInv, NEW e \in Event, RouteStep(e)
  PROVE  DeliveryInv'
  <1>1. TypeOKSettings /\ TypeOKPosts /\ Rest /\ SyncInv /\ PostsAccepted /\ PostsOK
    BY DeliveryParts
  <1>2. Rest' /\ accepted[e] \subseteq accepted'[e]
          /\ \A f \in Event \ {e} : accepted'[f] = accepted[f]
    BY <1>1, RouteStepKeeps DEF Rest
  <1>3. TypeOKSettings' /\ SyncInv'
    <2>1. UNCHANGED settings
      BY DEF RouteStep, ProduceRabbit, ProduceNats, ProduceWebsocket, ProduceWebhook, otherRoutes
    <2> QED
      BY <1>1, <2>1, SameSettings
  <1>4. CASE UNCHANGED posts
    <2>1. post' = post
      BY <1>4 DEF posts
    <2>2. PostsAccepted'
      BY <1>1, <1>2, <2>1 DEF PostsAccepted
    <2> QED
      BY <1>1, <1>2, <1>3, <1>4, <2>2, SamePosts, PartsKept
  <1>5. CASE ProduceWebhook(e)
    <2> DEFINE ps == {<<e, "own">>} \cup (IF config.url THEN {<<e, "global">>} ELSE {})
    <2>1. place[e] = "webhook" /\ StartPosts(ps) /\ accepted' = [accepted EXCEPT ![e] = @ \cup {"webhook"}]
      BY <1>5 DEF ProduceWebhook, Accept
    <2>2. ps \in SUBSET Post
      BY DEF Post, Url
    <2>3. \A f \in Event, u \in Url : <<f, u>> \in ps => f = e
      OBVIOUS
    <2>4. \A p \in ps : post[p] = "none"
      BY <1>1, <2>1, NotPosted DEF Url
    <2> HIDE DEF ps
    <2>5. TypeOKPosts' /\ PostsOK' /\ \A q \in Post : q \notin ps => post'[q] = post[q]
      BY <1>1, <2>1, <2>2, <2>4, PostsStart
    <2>6. "webhook" \in accepted'[e]
      BY <1>1, <2>1 DEF Rest, RouteTypes
    <2>7. ASSUME NEW f \in Event, NEW u \in Url, post'[<<f, u>>] # "none"
          PROVE  "webhook" \in accepted'[f]
      <3>1. CASE f = e
        BY <2>6, <3>1
      <3>2. CASE f # e
        <4>1. <<f, u>> \in Post /\ <<f, u>> \notin ps
          BY <2>3, <3>2 DEF Post
        <4>2. post[<<f, u>>] # "none"
          BY <2>5, <2>7, <4>1
        <4> QED
          BY <1>1, <1>2, <3>2, <4>2 DEF PostsAccepted
      <3> QED
        BY <3>1, <3>2
    <2>8. PostsAccepted'
      BY <2>7 DEF PostsAccepted
    <2> QED
      BY <1>2, <1>3, <2>5, <2>8, PartsKept
  <1> QED
    BY <1>4, <1>5 DEF RouteStep, ProduceRabbit, ProduceNats, ProduceWebsocket

LEMMA StepKeeps ==
  ASSUME DeliveryInv, [Next]_deliveries
  PROVE  DeliveryInv'
  <1>1. TypeOKSettings /\ TypeOKPosts /\ Rest /\ SyncInv /\ PostsAccepted /\ PostsOK
    BY DeliveryParts
  <1>2. CASE NextSettings /\ UNCHANGED <<posts, routes>>
    <2>1. TypeOKSettings' /\ SyncInv'
      BY <1>1, <1>2, SettingsTypes, SyncKept
    <2>2. TypeOKPosts' /\ PostsOK'
      BY <1>1, <1>2, SamePosts
    <2>3. Rest'
      BY <1>1, <1>2, SameRoutes
    <2>4. PostsAccepted'
      BY <1>1, <1>2 DEF PostsAccepted, posts, routes
    <2> QED
      BY <2>1, <2>2, <2>3, <2>4, PartsKept
  <1>3. CASE NextPosts /\ UNCHANGED <<settings, routes>>
    <2>1. PICK p \in Post : PostStep(p) \/ Answer(p)
      BY <1>3 DEF NextPosts
    <2>2. /\ TypeOKPosts' /\ PostsOK' /\ post[p] # "none"
          /\ \A q \in Post : q # p => post'[q] = post[q]
      BY <1>1, <2>1, PostStepKeeps
    <2>3. TypeOKSettings' /\ SyncInv' /\ Rest'
      BY <1>1, <1>3, SameSettings, SameRoutes
    <2>4. ASSUME NEW e \in Event, NEW u \in Url, post'[<<e, u>>] # "none"
          PROVE  "webhook" \in accepted'[e]
      <3>1. <<e, u>> \in Post
        BY DEF Post
      <3>2. post[<<e, u>>] # "none"
        BY <2>2, <2>4, <3>1
      <3> QED
        BY <1>1, <1>3, <3>2 DEF PostsAccepted, routes
    <2>5. PostsAccepted'
      BY <2>4 DEF PostsAccepted
    <2> QED
      BY <2>2, <2>3, <2>5, PartsKept
  <1>4. CASE \E e \in Event, t \in Type, v \in Version : Dispatch(e, t, v)
    <2>1. Rest' /\ accepted' = accepted
      BY <1>1, <1>4, DispatchKeeps DEF Rest
    <2>2. UNCHANGED settings /\ UNCHANGED posts
      BY <1>4 DEF Dispatch
    <2>3. PostsAccepted'
      BY <1>1, <2>1, <2>2 DEF PostsAccepted, posts
    <2> QED
      BY <1>1, <2>1, <2>2, <2>3, SameSettings, SamePosts, PartsKept
  <1>5. CASE \E e \in Event : RouteStep(e)
    BY <1>5, RoutingKeeps
  <1>6. CASE \E e \in Event : GlobalStep(e)
    <2>1. Rest' /\ accepted' = accepted
      BY <1>1, <1>6, GlobalStepKeeps DEF Rest
    <2>2. UNCHANGED settings /\ UNCHANGED posts
      BY <1>6 DEF GlobalStep, GlobalAmqp, GlobalNats, otherThanGlobal
    <2>3. PostsAccepted'
      BY <1>1, <2>1, <2>2 DEF PostsAccepted, posts
    <2> QED
      BY <1>1, <2>1, <2>2, <2>3, SameSettings, SamePosts, PartsKept
  <1>7. CASE Crash
    <2>1. Rest' /\ accepted' = accepted
      BY <1>1, <1>7, CrashKeeps DEF Rest
    <2>2. TypeOKSettings' /\ SyncInv'
      BY <1>1, <1>7, SettingsTypes, SyncKept DEF Crash
    <2>3. TypeOKPosts' /\ PostsOK' /\ \A q \in Post : post'[q] # "none" => post[q] # "none"
      BY <1>1, <1>7, PostsCrash DEF Crash
    <2>4. PostsAccepted'
      BY <1>1, <2>1, <2>3 DEF PostsAccepted, Post
    <2> QED
      BY <2>1, <2>2, <2>3, <2>4, PartsKept
  <1>8. CASE UNCHANGED deliveries
    <2>1. UNCHANGED settings /\ UNCHANGED posts /\ UNCHANGED routes
      BY <1>8 DEF deliveries
    <2>2. PostsAccepted'
      BY <1>1, <2>1 DEF PostsAccepted, posts, routes
    <2> QED
      BY <1>1, <2>1, <2>2, SameSettings, SamePosts, SameRoutes, PartsKept
  <1> QED
    BY <1>2, <1>3, <1>4, <1>5, <1>6, <1>7, <1>8 DEF Next

LEMMA Start ==
  ASSUME Init
  PROVE  DeliveryInv
  <1>1. TypeOKSettings /\ SyncInv
    BY SettingsStart DEF Init
  <1>2. TypeOKPosts /\ PostsOK /\ PostsAccepted
    <2>1. MaxAttempts \in Nat \ {0}
      BY AttemptsAssumption DEF AttemptsAssumption
    <2> QED
      BY <2>1 DEF Init, InitPosts, TypeOKPosts, PostsOK, PostOK, PostsAccepted, Post
  <1>3. RouteTypes
    <2>1. (CHOOSE t \in Type : TRUE) \in Type
      BY DeliveryAssumption DEF DeliveryAssumption
    <2> QED
      BY <2>1, ZeroIsVersion DEF Init, RouteTypes, Places
  <1>4. RoutesOK
    BY DEF Init, RoutesOK, RouteOK, GlobalOK, Channels
  <1> QED
    BY <1>1, <1>2, <1>3, <1>4, DeliveryParts DEF Rest

LEMMA Invariance == Spec => []DeliveryInv
  <1>1. Init => DeliveryInv
    BY Start
  <1>2. DeliveryInv /\ [Next]_deliveries => DeliveryInv'
    BY StepKeeps
  <1> QED
    BY <1>1, <1>2, PTL DEF Spec

\* The variables keep their types (CallWebhook, SendToGlobalQueues, UpdateInstanceSettings
\* and the goroutines of the webhook producer).
THEOREM TypeCorrect == Spec => []TypeOK
  <1>1. DeliveryInv => TypeOK
    BY DEF DeliveryInv
  <1> QED
    BY <1>1, Invariance, PTL

\* When requests do not overlap, the running client reports by the row of the database
\* (UpdateInstanceSettings and UpdateInstanceAdvancedSettings after instanceRepository.Update).
THEOREM SettingsInSync == Spec => []InSync
  <1>1. DeliveryInv => InSync
    BY SyncMeansInSync DEF DeliveryInv
  <1> QED
    BY <1>1, Invariance, PTL

\* No channel, URL or queue is given what it was not asked for (the switch of CallWebhook,
\* the guards of sendToQueueOrWebhook and SendToGlobalQueues).
THEOREM NothingUnasked == Spec => []OnlyAsked
  <1>1. ASSUME DeliveryInv, NEW e \in Event
        PROVE  /\ reached[e] \cap Channels # {} \/ (\E u \in Url : post[<<e, u>>] # "none")
                    => Subscribed(Of(e), kind[e])
               /\ \A c \in reached[e] \cap Channels : Enabled(Of(e), c)
               /\ \A u \in Url : post[<<e, u>>] # "none" => Of(e).webhook
               /\ "rabbit" \in reached[e] => Of(e).rabbit = "enabled"
               /\ "global rabbit" \in reached[e] =>
                    /\ config.amqp
                    /\ config.specific # {} => kind[e] \in config.specific
               /\ "global nats" \in reached[e] => GroupOf(kind[e]) \in config.natsGroups
    <2>1. /\ RouteOK(Of(e), kind[e], place[e], accepted[e], reached[e])
          /\ GlobalOK(kind[e], place[e], global[e], reached[e])
          /\ \A u \in Url : post[<<e, u>>] # "none" => "webhook" \in accepted[e]
      BY <1>1 DEF DeliveryInv, RoutesOK, PostsAccepted
    <2>2. accepted[e] # {} => Subscribed(Of(e), kind[e])
      BY <2>1 DEF RouteOK
    <2>3. Enabled(Of(e), "webhook") <=> Of(e).webhook
      BY ChannelFacts
    <2>4. \A u \in Url : post[<<e, u>>] # "none" => Of(e).webhook
      BY <2>1, <2>3 DEF RouteOK
    <2>5. reached[e] \cap Channels # {} \/ (\E u \in Url : post[<<e, u>>] # "none")
            => Subscribed(Of(e), kind[e])
      BY <2>1, <2>2 DEF RouteOK
    <2> QED
      BY <2>1, <2>4, <2>5 DEF RouteOK, GlobalOK
  <1>2. DeliveryInv => OnlyAsked
    BY <1>1 DEF OnlyAsked
  <1> QED
    BY <1>2, Invariance, PTL

\* An event goes through the enabled channels in their order, and no further than the
\* first error (the returns of sendToQueueOrWebhook).
THEOREM ChannelsInTurn == Spec => []InTurn
  <1>1. ASSUME DeliveryInv, NEW e \in Event
        PROVE  /\ \A c \in accepted[e] \cup ({place[e]} \cap Channels) :
                    \A d \in Earlier(c) : Enabled(Of(e), d) => d \in accepted[e]
               /\ reached[e] \cap Channels \subseteq accepted[e]
               /\ place[e] = "failed" => \A u \in Url : post[<<e, u>>] = "none"
               /\ place[e] = "done" => \A c \in Channels : Enabled(Of(e), c) => c \in accepted[e]
    <2>1. /\ RouteOK(Of(e), kind[e], place[e], accepted[e], reached[e])
          /\ \A u \in Url : post[<<e, u>>] # "none" => "webhook" \in accepted[e]
      BY <1>1 DEF DeliveryInv, RoutesOK, PostsAccepted
    <2>2. place[e] = "failed" => \A u \in Url : post[<<e, u>>] = "none"
      BY <2>1 DEF RouteOK
    <2> QED
      BY <2>1, <2>2 DEF RouteOK
  <1>2. DeliveryInv => InTurn
    BY <1>1 DEF InTurn
  <1> QED
    BY <1>2, Invariance, PTL

\* A post is tried MaxAttempts times and no more (the loop of sendWebhookWithRetry).
THEOREM AttemptsBounded == Spec => []HookTries
  <1>1. DeliveryInv => HookTries
    BY DEF DeliveryInv, PostsOK, PostOK, HookTries
  <1> QED
    BY <1>1, Invariance, PTL
=============================================================================
