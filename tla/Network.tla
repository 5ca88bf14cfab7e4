------------------------------ MODULE Network ------------------------------
(***************************************************************************)
(* network.c: the address the unit announces itself with, its peer and the *)
(* two timers.  Received announcements are never read, so the only peer is *)
(* the configured one.                                                     *)
(***************************************************************************)
CONSTANTS
  Address,     \* IPv4 addresses the interface may be given
  NoAddress    \* it has none; ip_address is NULL

ASSUME NoAddressOK == NoAddress \notin Address

VARIABLES
  netConf,     \* the options of koruza.@network[0] that are set
  hostAddress, \* what getifaddrs would report of the interface
  interface,   \* net_status.interface is not NULL
  ip,          \* net_status.ip_address
  ready,       \* net_status.ready
  peer,        \* net_status.peer is not NULL
  announce,    \* timer_announce is pending
  refresh,     \* timer_address_update is pending
  foundAtStart \* history: network_init found an address, no copy has failed since

netStatus == <<interface, ip, ready, peer>>
netTimers == <<announce, refresh>>
netVars == <<netConf, hostAddress, netStatus, netTimers, foundAtStart>>

NetworkZero ==
  /\ interface = FALSE /\ ip = NoAddress /\ ready = FALSE /\ peer = FALSE
  /\ announce = FALSE /\ refresh = FALSE /\ foundAtStart = FALSE

NetworkStart ==
  /\ netConf \in [interface : BOOLEAN, peer : BOOLEAN]
  /\ hostAddress \in Address \cup {NoAddress}
  /\ NetworkZero

(* The process ends. *)
NetworkForgets ==
  /\ interface' = FALSE /\ ip' = NoAddress /\ ready' = FALSE /\ peer' = FALSE
  /\ announce' = FALSE /\ refresh' = FALSE /\ foundAtStart' = FALSE
  /\ UNCHANGED <<netConf, hostAddress>>

(* DHCP, or somebody's hands *)
AddressChanges ==
  /\ hostAddress' \in (Address \cup {NoAddress}) \ {hostAddress}
  /\ UNCHANGED <<netConf, netStatus, netTimers, foundAtStart>>

-----------------------------------------------------------------------------
(* Faulty variant: an interface without an address has its ip_address      *)
(* freed and cleared.                                                      *)
FoundNowForgets == hostAddress

(* network_update_local_address: what is in ip_address after a look that   *)
(* succeeds.  An interface without an address leaves the last one there.   *)
FoundNow == IF hostAddress = NoAddress THEN ip ELSE hostAddress

(* ... and after one that fails in getifaddrs or getnameinfo.  (The second *)
(* then frees the list of addresses twice: Driver lets the process die.)   *)
FoundNothing == ip

(* network_add_device: a configured peer is the only one, and selected. *)
AddDevice == netConf.peer

(* network_init without an interface in the configuration *)
NetworkSkipped == ~netConf.interface /\ UNCHANGED netVars

(* network_init: looks for the address, sets the socket up, starts the     *)
(* timers and adds the configured peer.                                    *)
NetworkInit(found) ==
  /\ netConf.interface
  /\ interface' = TRUE /\ ready' = TRUE
  /\ ip' = found
  /\ refresh' = TRUE /\ announce' = TRUE
  /\ peer' = AddDevice
  /\ foundAtStart' = (found # NoAddress)
  /\ UNCHANGED <<netConf, hostAddress>>

(* network_announce_ourselves: comes back while there is no peer.  What it *)
(* sends is empty and goes nowhere (sendto is given no socket address).    *)
Announce ==
  /\ announce
  /\ announce' = ~peer
  /\ UNCHANGED <<netConf, hostAddress, netStatus, refresh, foundAtStart>>

(* Faulty variant: the timer is not set again. *)
RefreshAddressOnce(found) ==
  /\ refresh
  /\ ip' = found
  /\ refresh' = FALSE
  /\ UNCHANGED <<netConf, hostAddress, interface, ready, peer, announce, foundAtStart>>

(* The timer of network_update_local_address, which sets itself again. *)
RefreshAddress(found) ==
  /\ refresh
  /\ ip' = found
  /\ refresh' = TRUE
  /\ UNCHANGED <<netConf, hostAddress, interface, ready, peer, announce, foundAtStart>>

(* It finds another address, and strdup has no memory for it. *)
CopyFails ==
  /\ refresh
  /\ hostAddress \notin {NoAddress, ip}
  /\ ip' = NoAddress /\ foundAtStart' = FALSE
  /\ UNCHANGED <<netConf, hostAddress, interface, ready, peer, netTimers>>

(* The strings of net_status that ubus_get_status hands to strlen are      *)
(* there.                                                                  *)
NetworkPrintable == interface /\ ip # NoAddress

-----------------------------------------------------------------------------
NetworkTypeOK ==
  /\ netConf \in [interface : BOOLEAN, peer : BOOLEAN]
  /\ {hostAddress, ip} \subseteq Address \cup {NoAddress}
  /\ {interface, ready, peer, announce, refresh, foundAtStart} \subseteq BOOLEAN
=============================================================================
