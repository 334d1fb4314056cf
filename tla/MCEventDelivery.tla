--------------------------- MODULE MCEventDelivery ---------------------------
(***************************************************************************)
(* EventDelivery on small sets for TLC.                                     *)
(***************************************************************************)
EXTENDS EventDelivery

\* One type for each source of the settings, and one without a group.
MCType == {"Message", "SendMessage", "QRCode", "LoggedOut", "OfflineSyncCompleted"}

\* "true" lets RabbitMQ and NATS connect and nothing more. All events are subscribed in
\* the second version only.
MCSettingOf ==
  [v \in 0..MaxVersion |->
    CASE v = 0 -> [rabbit |-> "enabled", nats |-> "true", websocket |-> FALSE,
                   webhook |-> TRUE, events |-> {"MESSAGE"}]
      [] v = 1 -> [rabbit |-> "true", nats |-> "enabled", websocket |-> FALSE,
                   webhook |-> FALSE, events |-> {"MESSAGE", "ALL"}]
      [] v = 2 -> [rabbit |-> "off", nats |-> "off", websocket |-> TRUE,
                   webhook |-> FALSE, events |-> {"SEND_MESSAGE", "QRCODE"}]]

\* A webhook of the server and no global queue; single events for RabbitMQ, groups for a
\* NATS that is up; groups for both, and a NATS that is down.
MCConfigs ==
  { [amqp |-> FALSE, specific |-> {}, groups |-> {}, nats |-> FALSE,
     natsGroups |-> {}, natsUp |-> TRUE, url |-> TRUE],
    [amqp |-> TRUE, specific |-> {"Message"}, groups |-> {"MESSAGE", "SEND_MESSAGE"},
     nats |-> TRUE, natsGroups |-> {"SEND_MESSAGE", "QRCODE"}, natsUp |-> TRUE, url |-> FALSE],
    [amqp |-> TRUE, specific |-> {}, groups |-> {"QRCODE"}, nats |-> TRUE,
     natsGroups |-> {"MESSAGE"}, natsUp |-> FALSE, url |-> FALSE] }
=============================================================================
