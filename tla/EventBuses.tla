------------------------------ MODULE EventBuses ------------------------------
(***************************************************************************)
(* The two buses behind events.EventBus: a process publishes on its own    *)
(* channel or on Kafka, as initEventBus has found at startup, and never on *)
(* both.  The use cases and the bridge do not know which.                  *)
(***************************************************************************)
EXTENDS EventBridge, KafkaConsumer

VARIABLE bus  \* what initEventBus returned

busesVars == <<bus, bridgeVars, kafkaVars>>

(* KAFKA_ENABLED, and whether the topics can be ensured.                   *)
BusesInit ==
    /\ bus \in {"in-process", "kafka"}
    /\ BridgeInit
    /\ KafkaInit

BusesNext ==
    /\ \/ bus = "in-process" /\ BridgeNext /\ UNCHANGED kafkaVars
       \/ bus = "kafka" /\ KafkaNext /\ UNCHANGED bridgeVars
    /\ UNCHANGED bus

(* Each bus is scheduled as in its own module, if there is one.            *)
BusesSpec ==
    /\ BusesInit /\ [][BusesNext]_busesVars
    /\ bus = "in-process" => Fairness
    /\ bus = "kafka" => WF_kafkaVars(Loop)
=============================================================================
