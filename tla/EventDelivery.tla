---------------------------- MODULE EventDelivery ----------------------------
(***************************************************************************)
(* How a reported event gets to its subscribers: CallWebhook and            *)
(* sendToQueueOrWebhook take it through the channels of its instance, and   *)
(* SendToGlobalQueues to the queues of the server, in a goroutine each      *)
(* (pkg/whatsmeow/service/whatsmeow.go), with the settings of               *)
(* InstanceSettings and the posts of WebhookProducer.                       *)
(*                                                                         *)
(* Of RabbitMQ and the websocket only the results of Produce are kept, as   *)
(* RabbitProducer and WebsocketProducer have them; NATS                     *)
(* (pkg/events/nats/nats_producer.go) is all here.                          *)
(***************************************************************************)
EXTENDS InstanceSettings, WebhookProducer

CONSTANTS
  Type,       \* types of the events that occur, out of EventTypes
  SettingOf,  \* the content of each version of the settings
  Configs     \* configurations of the server to choose from

Groups == {"MESSAGE", "SEND_MESSAGE", "READ_RECEIPT", "PRESENCE", "HISTORY_SYNC",
           "CHAT_PRESENCE", "CALL", "CONNECTION", "LABEL", "CONTACT", "GROUP",
           "NEWSLETTER", "QRCODE"}
NoGroup == ""

\* The switch over eventType, the same in CallWebhook and twice in SendToGlobalQueues.
GroupOf(t) ==
  CASE t = "Message" -> "MESSAGE"
    [] t = "SendMessage" -> "SEND_MESSAGE"
    [] t = "Receipt" -> "READ_RECEIPT"
    [] t = "Presence" -> "PRESENCE"
    [] t = "HistorySync" -> "HISTORY_SYNC"
    [] t \in {"ChatPresence", "Archive"} -> "CHAT_PRESENCE"
    [] t \in {"CallOffer", "CallAccept", "CallTerminate", "CallOfferNotice",
              "CallRelayLatency"} -> "CALL"
    [] t \in {"Connected", "PairSuccess", "TemporaryBan", "LoggedOut", "ConnectFailure",
              "Disconnected"} -> "CONNECTION"
    [] t \in {"LabelEdit", "LabelAssociationChat", "LabelAssociationMessage"} -> "LABEL"
    [] t \in {"Contact", "PushName"} -> "CONTACT"
    [] t \in {"GroupInfo", "JoinedGroup"} -> "GROUP"
    [] t \in {"NewsletterJoin", "NewsletterLeave"} -> "NEWSLETTER"
    [] t \in {"QRCode", "QRTimeout", "QRSuccess"} -> "QRCODE"
    [] OTHER -> NoGroup

\* The columns of the row that delivery reads, after IsEventType; "enabled" and "true"
\* pass the tests of sendToQueueOrWebhook, other values are "off".
SettingRec == [rabbit : {"off", "enabled", "true"}, nats : {"off", "enabled", "true"},
               websocket : BOOLEAN, webhook : BOOLEAN, events : SUBSET (Groups \cup {"ALL"})]
\* specific and groups: AMQP_SPECIFIC_EVENTS, AMQP_GLOBAL_EVENTS; nats is NATS_GLOBAL_EVENTS,
\* natsUp the connection of the producer; url is WEBHOOK_URL.
ConfigRec == [amqp : BOOLEAN, specific : SUBSET Type, groups : SUBSET Groups,
              nats : BOOLEAN, natsGroups : SUBSET Groups, natsUp : BOOLEAN, url : BOOLEAN]

ASSUME DeliveryAssumption ==
  /\ SettingOf \in [Version -> SettingRec]
  /\ Configs \subseteq ConfigRec
  /\ Type # {}

VARIABLES
  config,    \* the server's configuration
  kind,      \* each event's type
  used,      \* the version of the settings it is delivered by
  place,     \* the channel its CallWebhook goroutine is at
  accepted,  \* the channels whose Produce returned nil (history)
  global,    \* where its SendToGlobalQueues goroutine is
  reached    \* the channels and global queues that were given the event (history)

routes == <<config, kind, used, place, accepted, global, reached>>
deliveries == <<settings, posts, routes>>

Channels == {"rabbit", "nats", "websocket", "webhook"}
GlobalQueues == {"global rabbit", "global nats"}

Of(e) == SettingOf[used[e]]

-----------------------------------------------------------------------------
(***************************************************************************)
(* The dispatch. Handlers report by MyClient.Instance, the QR channel by    *)
(* cd.Instance, the kill loop's LoggedOut by cd.Instance too, the send      *)
(* service by the row as it was when its request was authenticated.         *)
(***************************************************************************)
Copies(t) ==
  CASE t = "SendMessage" -> 0..last
    [] t = "LoggedOut" -> {v \in {installed} : registered} \cup killed
    [] t \in {"QRCode", "QRTimeout"} -> {v \in {started} : registered}
    [] OTHER -> {v \in {installed} : registered}

Subscribed(s, t) ==
  "ALL" \in s.events \/ (GroupOf(t) # NoGroup /\ GroupOf(t) \in s.events)

\* sendToQueueOrWebhook from one channel on: the next one that is enabled.
FromWebhook(s) == IF s.webhook THEN "webhook" ELSE "done"
FromWebsocket(s) == IF s.websocket THEN "websocket" ELSE FromWebhook(s)
FromNats(s) == IF s.nats # "off" THEN "nats" ELSE FromWebsocket(s)
FromRabbit(s) == IF s.rabbit # "off" THEN "rabbit" ELSE FromNats(s)

\* (mutant) The subscriptions of the instance are not asked.
DispatchAll(e, t, v) ==
  /\ place[e] = "none"
  /\ v \in Copies(t)
  /\ kind' = [kind EXCEPT ![e] = t]
  /\ used' = [used EXCEPT ![e] = v]
  /\ place' = [place EXCEPT ![e] = FromRabbit(SettingOf[v])]
  /\ global' = [global EXCEPT ![e] = IF config.amqp \/ config.nats THEN "amqp" ELSE "done"]
  /\ UNCHANGED <<config, accepted, reached, settings, posts>>

Dispatch(e, t, v) ==
  /\ place[e] = "none"
  /\ v \in Copies(t)
  /\ kind' = [kind EXCEPT ![e] = t]
  /\ used' = [used EXCEPT ![e] = v]
  /\ place' = [place EXCEPT ![e] =
       IF Subscribed(SettingOf[v], t) THEN FromRabbit(SettingOf[v]) ELSE "unasked"]
  /\ global' = [global EXCEPT ![e] = IF config.amqp \/ config.nats THEN "amqp" ELSE "done"]
  /\ UNCHANGED <<config, accepted, reached, settings, posts>>

-----------------------------------------------------------------------------
(***************************************************************************)
(* The channels of the instance, in the order of sendToQueueOrWebhook.      *)
(***************************************************************************)
Give(e, q) == reached' = [reached EXCEPT ![e] = @ \cup {q}]

\* Produce of channel c returned nil.
Accept(e, c, next) ==
  /\ accepted' = [accepted EXCEPT ![e] = @ \cup {c}]
  /\ place' = [place EXCEPT ![e] = next]

\* Produce returned an error: sendToQueueOrWebhook returns.
Refuse(e) == place' = [place EXCEPT ![e] = "failed"] /\ UNCHANGED <<accepted, reached>>

otherRoutes == <<config, kind, used, global, settings>>

\* "true" connects but neither declares nor publishes; nil does not mean published.
ProduceRabbit(e) ==
  /\ place[e] = "rabbit"
  /\ \/ /\ Of(e).rabbit = "enabled" /\ Give(e, "rabbit")
        /\ Accept(e, "rabbit", FromNats(Of(e)))
     \/ /\ UNCHANGED reached
        /\ Accept(e, "rabbit", FromNats(Of(e)))
     \/ Refuse(e)
  /\ UNCHANGED <<otherRoutes, posts>>

\* Without a connection, or with "true", nothing is published and nil returned.
ProduceNats(e) ==
  /\ place[e] = "nats"
  /\ IF config.natsUp /\ Of(e).nats = "enabled"
       THEN \/ Give(e, "nats") /\ Accept(e, "nats", FromWebsocket(Of(e)))
            \/ Refuse(e)
       ELSE Accept(e, "nats", FromWebsocket(Of(e))) /\ UNCHANGED reached
  /\ UNCHANGED <<otherRoutes, posts>>

\* (mutant) A failed write to a websocket is only logged.
WebsocketGoesOn(e) ==
  /\ place[e] = "websocket"
  /\ \/ Give(e, "websocket") /\ Accept(e, "websocket", FromWebhook(Of(e)))
     \/ /\ place' = [place EXCEPT ![e] = FromWebhook(Of(e))]
        /\ UNCHANGED <<accepted, reached>>
  /\ UNCHANGED <<otherRoutes, posts>>

\* Nil if nobody is connected, an error only of the instance's own connection.
ProduceWebsocket(e) ==
  /\ place[e] = "websocket"
  /\ \/ Give(e, "websocket") /\ Accept(e, "websocket", FromWebhook(Of(e)))
     \/ UNCHANGED reached /\ Accept(e, "websocket", FromWebhook(Of(e)))
     \/ Refuse(e)
  /\ UNCHANGED <<otherRoutes, posts>>

\* (mutant) The two URLs exclude each other.
ProduceOneWebhook(e) ==
  /\ place[e] = "webhook"
  /\ StartPosts({<<e, IF config.url THEN "global" ELSE "own">>})
  /\ Accept(e, "webhook", "done")
  /\ UNCHANGED <<otherRoutes, reached>>

\* The server's URL gets what the instance's gets: no post without a webhook of its own.
ProduceWebhook(e) ==
  /\ place[e] = "webhook"
  /\ StartPosts({<<e, "own">>} \cup (IF config.url THEN {<<e, "global">>} ELSE {}))
  /\ Accept(e, "webhook", "done")
  /\ UNCHANGED <<otherRoutes, reached>>

-----------------------------------------------------------------------------
(***************************************************************************)
(* SendToGlobalQueues: an error of RabbitMQ is logged and NATS tried.       *)
(***************************************************************************)
otherThanGlobal == <<config, kind, used, place, accepted, settings, posts>>

AmqpAsked(t) ==
  /\ config.amqp
  /\ IF config.specific # {} THEN t \in config.specific ELSE GroupOf(t) \in config.groups

NatsAsked(t) == config.nats /\ GroupOf(t) # NoGroup /\ GroupOf(t) \in config.natsGroups

\* In the fallback to groups an event without one returns before NATS.
GlobalAmqp(e) ==
  /\ global[e] = "amqp"
  /\ global' = [global EXCEPT ![e] =
       IF config.amqp /\ config.specific = {} /\ GroupOf(kind[e]) = NoGroup
         THEN "done" ELSE "nats"]
  /\ \/ AmqpAsked(kind[e]) /\ Give(e, "global rabbit")
     \/ UNCHANGED reached   \* not asked, or Produce did not publish
  /\ UNCHANGED otherThanGlobal

GlobalNats(e) ==
  /\ global[e] = "nats"
  /\ global' = [global EXCEPT ![e] = "done"]
  /\ IF NatsAsked(kind[e]) /\ config.natsUp
       THEN Give(e, "global nats") \/ UNCHANGED reached
       ELSE UNCHANGED reached
  /\ UNCHANGED otherThanGlobal

RouteStep(e) ==
  \/ ProduceRabbit(e) \/ ProduceNats(e) \/ ProduceWebsocket(e) \/ ProduceWebhook(e)
GlobalStep(e) == GlobalAmqp(e) \/ GlobalNats(e)

\* The process ends, and what its goroutines had not delivered is lost.
Crash ==
  /\ CrashSettings
  /\ CrashPosts
  /\ place' = [e \in Event |-> IF place[e] \in Channels THEN "lost" ELSE place[e]]
  /\ global' = [e \in Event |-> IF global[e] \in {"amqp", "nats"} THEN "lost" ELSE global[e]]
  /\ UNCHANGED <<config, kind, used, accepted, reached>>

Init ==
  /\ InitSettings
  /\ InitPosts
  /\ config \in Configs
  /\ kind = [e \in Event |-> CHOOSE t \in Type : TRUE]   \* of no effect before the dispatch
  /\ used = [e \in Event |-> 0]
  /\ place = [e \in Event |-> "none"]
  /\ accepted = [e \in Event |-> {}]
  /\ global = [e \in Event |-> "none"]
  /\ reached = [e \in Event |-> {}]

Next ==
  \/ NextSettings /\ UNCHANGED <<posts, routes>>
  \/ NextPosts /\ UNCHANGED <<settings, routes>>
  \/ \E e \in Event, t \in Type, v \in Version : Dispatch(e, t, v)
  \/ \E e \in Event : RouteStep(e) \/ GlobalStep(e)
  \/ Crash

Spec == Init /\ [][Next]_deliveries

\* Goroutines run; every Produce returns, as is shown of them under the conditions of
\* their modules.
Fairness ==
  /\ \A e \in Event : WF_deliveries(RouteStep(e)) /\ WF_deliveries(GlobalStep(e))
  /\ \A p \in Post : WF_deliveries(PostStep(p) /\ UNCHANGED <<settings, routes>>)

FairSpec == Spec /\ Fairness

-----------------------------------------------------------------------------
(***************************************************************************)
(* Properties                                                              *)
(***************************************************************************)
Places == Channels \cup {"none", "unasked", "done", "failed", "lost"}

TypeOK ==
  /\ TypeOKSettings
  /\ TypeOKPosts
  /\ config \in Configs
  /\ kind \in [Event -> Type]
  /\ used \in [Event -> Version]
  /\ place \in [Event -> Places]
  /\ accepted \in [Event -> SUBSET Channels]
  /\ global \in [Event -> {"none", "amqp", "nats", "done", "lost"}]
  /\ reached \in [Event -> SUBSET (Channels \cup GlobalQueues)]

\* What the settings of version v want of channel c.
Enabled(s, c) ==
  CASE c = "rabbit" -> s.rabbit # "off"
    [] c = "nats" -> s.nats # "off"
    [] c = "websocket" -> s.websocket
    [] c = "webhook" -> s.webhook

\* The channels before c.
Earlier(c) ==
  CASE c = "rabbit" -> {}
    [] c = "nats" -> {"rabbit"}
    [] c = "websocket" -> {"rabbit", "nats"}
    [] c = "webhook" -> {"rabbit", "nats", "websocket"}

\* Nobody gets an event that was not asked for: a channel or a URL of the instance only
\* what is subscribed and enabled in the settings at the dispatch, whatever they are by
\* now, a global queue only what the configuration lists for it.
OnlyAsked ==
  \A e \in Event :
    /\ reached[e] \cap Channels # {} \/ (\E u \in Url : post[<<e, u>>] # "none")
         => Subscribed(Of(e), kind[e])
    /\ \A c \in reached[e] \cap Channels : Enabled(Of(e), c)
    /\ \A u \in Url : post[<<e, u>>] # "none" => Of(e).webhook
    /\ "rabbit" \in reached[e] => Of(e).rabbit = "enabled"
    /\ "global rabbit" \in reached[e] =>
         /\ config.amqp
         /\ config.specific # {} => kind[e] \in config.specific
    /\ "global nats" \in reached[e] => GroupOf(kind[e]) \in config.natsGroups

\* A channel is tried only when every enabled channel before it has returned nil, and
\* after an error nothing more of the instance is given the event, the webhook included.
InTurn ==
  \A e \in Event :
    /\ \A c \in accepted[e] \cup ({place[e]} \cap Channels) :
         \A d \in Earlier(c) : Enabled(Of(e), d) => d \in accepted[e]
    /\ reached[e] \cap Channels \subseteq accepted[e]
    /\ place[e] = "failed" => \A u \in Url : post[<<e, u>>] = "none"
    /\ place[e] = "done" => \A c \in Channels : Enabled(Of(e), c) => c \in accepted[e]

\* Whatever order requests, restarts and other events take: an event whose instance
\* subscribed to it is accepted by every enabled channel, and its URLs, the server's
\* too, receive it or refuse it MaxAttempts times, unless a channel returned an error
\* or the process ended. An answer that never comes holds nothing else up.
Served(p) == copies[p] > 0 \/ post[p] \in {"gaveup", "lost"}

Delivered ==
  \A e \in Event :
    place[e] \in Channels ~>
      \/ place[e] \in {"failed", "lost"}
      \/ /\ place[e] = "done"
         /\ Of(e).webhook =>
              Served(<<e, "own">>) /\ (config.url => Served(<<e, "global">>))
==============================================================================
