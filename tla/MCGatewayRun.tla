---------------------------- MODULE MCGatewayRun ----------------------------
EXTENDS GatewayRun

\* Everything at once: three servers, two workers, both overlays.
Everything ==
  {"agent", "tunnel", "access", "keyAccess", "checks", "metrics", "keys", "router",
   "listen", "share", "serve", "ad"}

\* An Agora gateway without a local port, keys over its tunnel.
Private == {"agent", "tunnel", "keys", "serve", "ad"}

\* A persistent share; and a plain local gateway.
Shared == {"access", "checks", "share", "persistent", "metrics"}
Plain == {"router"}

MCConfigs == {Everything, Private, Shared, Plain}
MCTunnels == {"tunnel"}
MCAccesses == {"access"}
MCKeyAccesses == {"keyAccess"}
=============================================================================
