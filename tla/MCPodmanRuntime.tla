--------------------------- MODULE MCPodmanRuntime --------------------------
(* Two sessions, podman-stop and the host service around one runtime.      *)
EXTENDS PodmanRuntime

AllFaults == {"kill", "interrupt", "outer", "timeout", "container", "reboot"}
=============================================================================
