-------------------------- MODULE MCPushNotification --------------------------
EXTENDS PushNotification

MCPlatform == [e \in Endpoint |-> IF e = "hook" THEN "webhook" ELSE "expo"]
MCEvents == <<"n1", "n2">>
===============================================================================
