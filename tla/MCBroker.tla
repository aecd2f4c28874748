------------------------------ MODULE MCBroker ------------------------------
(* Small instances of the broker for TLC. *)
EXTENDS BrokerSlots

MCKey == {<<"claude", "a">>}

Start(agent, probe, cwd, tier) ==
    [provider |-> "claude", agent |-> agent, probe |-> probe,
     cwd |-> cwd, tier |-> tier]

Daily == Start("a", FALSE, "project", "daily")
HostRun == Start("a", FALSE, "project", "host")
Probe == Start("a", TRUE, "home", "daily")

BothTiers == {Daily, HostRun}
DailyAndProbe == {Daily, Probe}
DailyOnly == {Daily}
HostOnly == {HostRun}
============================================================================
